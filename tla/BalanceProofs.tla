--------------------------- MODULE BalanceProofs ---------------------------
(***************************************************************************)
(* What verify reports, for every page size, account map, ledger and       *)
(* number of changes, and however the amounts are written.                 *)
(***************************************************************************)
EXTENDS Balance, MoneyProofs, FiniteSetTheorems

----------------------------------------------------------------------------
(* The inductive invariant.                                                 *)
Groups == [id : Int, splits : Shapes, date : Days]

(* Every group has its own number.                                          *)
Numbered ==
    /\ ledger \in Seq(Groups) /\ start \in Seq(Groups) /\ counted \in Seq(Int)
    /\ Len(ledger) <= MaxGroups + changes
    /\ \A i \in DOMAIN ledger : ledger[i].id \in 1 .. MaxGroups + changes
    /\ \A i, j \in DOMAIN ledger : ledger[i].id = ledger[j].id => i = j

(* Nothing is read before there is a notice of a mapped account, and nobody *)
(* changes the ledger before the first page.                                *)
Begun ==
    /\ pc \in {"ping", "fetch"} => page = 1
    /\ pc \in {"ping", "fetch", "page"} /\ page = 1 => changes = 0 /\ counted = <<>> /\ total = 0
    /\ pc \in {"page", "matches", "differs"} =>
           latest # NoNotice /\ latest.last4 \in DOMAIN AccountMap

(* The notice compared is one that no other is newer than.                  *)
Newest ==
    latest # NoNotice =>
        \E m \in Range(mail) :
            /\ IsNotice(m) /\ latest = ParseBalance(m)
            /\ \A other \in Range(mail) : IsNotice(other) => other.asOf <= m.asOf

(* The list that the pages are cut from, and how much of it was read.       *)
List == Listed(ledger, Account, latest.asOf)
Done == (page - 1) * PageSize
First(list, n) == SubSeq(list, 1, IF n <= Len(list) THEN n ELSE Len(list))

(* While nobody changes the ledger, the sum is that of the pages read.      *)
SummedUp ==
    /\ pc = "page" /\ changes = 0 => total = PageSum(First(List, Done), Account)
    /\ pc \in {"matches", "differs"} =>
           /\ changes = 0 => total = PageSum(List, Account)
           /\ (pc = "matches") = (total - latest.amount = 0)
           /\ report = FormatMinor(total - latest.amount)

(* How far a count of n groups with these numbers is from the list it was   *)
(* to be: groups left out, and groups that are not in it or counted again.  *)
Drift(there, seen, n) == Cardinality(there \ seen) + n - Cardinality(there \cap seen)

(* What the next pages will count, if nobody changes the ledger again.      *)
Left(list, k) == {list[i].id : i \in k + 1 .. Len(list)}
Rest(list, k) == IF k < Len(list) THEN Len(list) - k ELSE 0

There == Ids(Listed(start, Account, latest.asOf))

Drifting ==
    /\ pc = "page" /\ page > 1 =>
           Drift(There, Range(counted) \cup Left(List, Done), Len(counted) + Rest(List, Done)) <= changes
    /\ pc \in {"matches", "differs"} => Drift(There, Range(counted), Len(counted)) <= changes

IInv == TypeOK /\ Numbered /\ Begun /\ Newest /\ SummedUp /\ Drifting

----------------------------------------------------------------------------
(* Listed goes through the groups from the first to the last.               *)
Listing(account, day) ==
    [s \in Seq(Groups) \X Groups |->
        IF Shows(s[2], account, day) THEN Append(s[1], s[2]) ELSE s[1]]

(* The list is what a loop over the groups leaves.                           *)
LEMMA ListedLoop ==
    ASSUME NEW x \in Seq(Groups), NEW account, NEW day
    PROVE  \E f \in [0 .. Len(x) -> Seq(Groups)] :
               Loops(f, x, <<>>, Listing(account, day)) /\ Listed(x, account, day) = f[Len(x)]
  <1> DEFINE n == Len(x)
             Turned(s, g) == IF Shows(g, account, day) THEN Append(s, g) ELSE s
             Turn(f) == [i \in 0 .. n |->
                            IF i = 0 THEN <<>>
                            ELSE IF Shows(x[i], account, day) THEN Append(f[i - 1], x[i])
                            ELSE f[i - 1]]
             listed == CHOOSE f : f = Turn(f)
             next == Listing(account, day)
             S == {i \in Nat : listed[i] \in Seq(Groups)}
  <1>1. n \in Nat /\ \A i \in 1 .. n : x[i] \in Groups
    OBVIOUS
  <1>2. \A s \in Seq(Groups), g \in Groups : Turned(s, g) \in Seq(Groups)
    OBVIOUS
  <1>3. next \in [Seq(Groups) \X Groups -> Seq(Groups)]
        /\ \A s \in Seq(Groups), g \in Groups : next[<<s, g>>] = Turned(s, g)
    <2>1. next = [p \in Seq(Groups) \X Groups |-> Turned(p[1], p[2])]
      BY DEF Listing
    <2> HIDE DEF Turned, next
    <2> QED BY <1>2, <2>1
  <1> HIDE DEF next
  <1>4. PICK h \in [0 .. n -> Seq(Groups)] : Loops(h, x, <<>>, next)
    <2>1. <<>> \in Seq(Groups)
      OBVIOUS
    <2> QED BY <1>3, <2>1, LoopExists, Zenon
  <1>5. \A f : Turn(f) = [i \in 0 .. n |-> IF i = 0 THEN <<>> ELSE Turned(f[i - 1], x[i])]
    OBVIOUS
  <1> HIDE DEF Turn
  <1>6. \A i \in 1 .. n : i - 1 \in 0 .. n /\ i \in 0 .. n /\ i # 0
    BY <1>1
  <1>7. h = Turn(h)
    <2>1. h[0] = <<>> /\ \A i \in 1 .. n : h[i] = next[<<h[i - 1], x[i]>>]
      BY <1>4 DEF Loops
    <2> HIDE DEF n, Turned
    <2>2. \A i \in 1 .. n : h[i] = Turned(h[i - 1], x[i])
      BY <1>1, <1>3, <1>4, <1>6, <2>1
    <2>3. \A i \in 0 .. n : i = 0 \/ i \in 1 .. n
      BY <1>1
    <2> QED BY <1>4, <1>5, <2>1, <2>2, <2>3
  <1>8. listed = Turn(listed)
    BY <1>7
  <1>9. Listed(x, account, day) = listed[n]
    BY DEF Listed, Turn
  <1> HIDE DEF listed, Turned, n
  <1>10. listed[0] = <<>> /\ \A i \in 1 .. n : listed[i] = Turned(listed[i - 1], x[i])
    <2>1. listed = [i \in 0 .. n |-> IF i = 0 THEN <<>> ELSE Turned(listed[i - 1], x[i])]
      BY <1>5, <1>8
    <2>2. 0 \in 0 .. n
      BY <1>1 
    <2> QED BY <1>6, <2>1, <2>2
  <1>11. \A i \in 0 .. n : listed[i] \in Seq(Groups)
    <2>1. 0 \in S
      <3>1. <<>> \in Seq(Groups) /\ 0 \in Nat
        OBVIOUS
      <3> QED BY <1>10, <3>1, Zenon
    <2>2. ASSUME NEW i \in 1 .. n, i - 1 \in S PROVE i \in S
      <3>1. listed[i - 1] \in Seq(Groups) /\ i \in Nat /\ x[i] \in Groups
        BY <1>1, <2>2
      <3> QED BY <1>2, <1>10, <3>1, Zenon
    <2> HIDE DEF S
    <2>3. \A i \in 0 .. n : i \in S
      BY <1>1, <2>1, <2>2, Along
    <2> QED BY <2>3 DEF S
  <1>12. listed \in [0 .. n -> Seq(Groups)]
    <2>1. listed = [i \in 0 .. n |-> IF i = 0 THEN <<>> ELSE Turned(listed[i - 1], x[i])]
      BY <1>5, <1>8
    <2> QED BY <1>11, <2>1
  <1>13. Loops(listed, x, <<>>, next)
    BY <1>1, <1>3, <1>6, <1>10, <1>11 DEF Loops, n
  <1> QED BY <1>9, <1>12, <1>13 DEF n, next

(* Of no groups nothing is listed.                                           *)
LEMMA ListedEmpty ==
    ASSUME NEW account, NEW day
    PROVE  Listed(<<>>, account, day) = <<>>
  <1>1. <<>> \in Seq(Groups) /\ Len(<<>>) = 0
    OBVIOUS
  <1>2. PICK f \in [0 .. Len(<<>>) -> Seq(Groups)] :
            Loops(f, <<>>, <<>>, Listing(account, day)) /\ Listed(<<>>, account, day) = f[Len(<<>>)]
    BY <1>1, ListedLoop
  <1> QED BY <1>1, <1>2 DEF Loops

(* What is listed are groups.                                                *)
LEMMA ListedType ==
    ASSUME NEW x \in Seq(Groups), NEW account, NEW day
    PROVE  Listed(x, account, day) \in Seq(Groups)
  <1>1. PICK f \in [0 .. Len(x) -> Seq(Groups)] : Listed(x, account, day) = f[Len(x)]
    BY ListedLoop
  <1> QED BY <1>1

(* One group more lists that group or nothing more.                          *)
LEMMA ListedAppend ==
    ASSUME NEW x \in Seq(Groups), NEW g \in Groups, NEW account, NEW day
    PROVE  Listed(Append(x, g), account, day) =
               IF Shows(g, account, day) THEN Append(Listed(x, account, day), g)
               ELSE Listed(x, account, day)
  <1> DEFINE t == Append(x, g)
             next == Listing(account, day)
  <1>1. t \in Seq(Groups)
    OBVIOUS
  <1>2. PICK f \in [0 .. Len(x) -> Seq(Groups)] :
            Loops(f, x, <<>>, next) /\ Listed(x, account, day) = f[Len(x)]
    BY ListedLoop
  <1>3. PICK h \in [0 .. Len(t) -> Seq(Groups)] :
            Loops(h, t, <<>>, next) /\ Listed(t, account, day) = h[Len(t)]
    <2> HIDE DEF t
    <2> QED BY <1>1, ListedLoop
  <1>4. TurnMore(f, x, g, h, t, next)
    <2>1. x \in Seq(Groups) /\ g \in Groups /\ Loops(f, x, <<>>, next)
      BY <1>2
    <2>2. t = Append(x, g) /\ Loops(h, t, <<>>, next)
      BY <1>3
    <2> HIDE DEF t, next
    <2> QED BY <2>1, <2>2, LoopAppend, Zenon
  <1>5. f[Len(x)] \in Seq(Groups)
    BY <1>2
  <1> HIDE DEF t
  <1>6. Listed(t, account, day) = next[<<f[Len(x)], g>>]
    BY <1>3, <1>4 DEF TurnMore
  <1>7. next[<<f[Len(x)], g>>] =
            IF Shows(g, account, day) THEN Append(f[Len(x)], g) ELSE f[Len(x)]
    BY <1>5 DEF Listing
  <1> QED BY <1>2, <1>6, <1>7 DEF t

(* Two stretches of the ledger are listed one after the other.              *)
LEMMA ListedConcat ==
    ASSUME NEW x \in Seq(Groups), NEW y \in Seq(Groups), NEW account, NEW day
    PROVE  Listed(x \o y, account, day) = Listed(x, account, day) \o Listed(y, account, day)
  <1> DEFINE L(s) == Listed(s, account, day)
             S == {q \in Seq(Groups) : L(x \o q) = L(x) \o L(q)}
  <1>1. <<>> \in S
    <2>1. <<>> \in Seq(Groups) /\ x \o <<>> = x
      OBVIOUS
    <2>2. L(x) \in Seq(Groups)
      BY ListedType
    <2>3. L(<<>>) = <<>>
      BY ListedEmpty
    <2> HIDE DEF L
    <2>4. L(x) \o <<>> = L(x)
      BY <2>2
    <2> QED BY <2>1, <2>3, <2>4
  <1>2. ASSUME NEW q \in Seq(Groups), NEW g \in Groups, q \in S PROVE Append(q, g) \in S
    <2>1. /\ x \o Append(q, g) = Append(x \o q, g)
          /\ x \o q \in Seq(Groups) /\ Append(q, g) \in Seq(Groups)
      OBVIOUS
    <2>2. L(x) \in Seq(Groups) /\ L(q) \in Seq(Groups)
      BY ListedType
    <2>3. L(Append(q, g)) = IF Shows(g, account, day) THEN Append(L(q), g) ELSE L(q)
      BY ListedAppend
    <2>4. L(Append(x \o q, g)) = IF Shows(g, account, day) THEN Append(L(x \o q), g) ELSE L(x \o q)
      <3> DEFINE z == x \o q
      <3>1. z \in Seq(Groups)
        BY <2>1
      <3> HIDE DEF z
      <3>2. L(Append(z, g)) = IF Shows(g, account, day) THEN Append(L(z), g) ELSE L(z)
        BY <3>1, ListedAppend
      <3> QED BY <3>2 DEF z
    <2> HIDE DEF L
    <2>5. L(x \o q) = L(x) \o L(q)
      BY <1>2
    <2>6. L(x) \o Append(L(q), g) = Append(L(x) \o L(q), g)
      BY <2>2
    <2>7. L(x \o Append(q, g)) = L(x) \o L(Append(q, g))
      BY <2>1, <2>3, <2>4, <2>5, <2>6
    <2> QED BY <2>1, <2>7
  <1> HIDE DEF S
  <1>3. y \in S
    BY <1>1, <1>2, AllSequences
  <1> QED BY <1>3 DEF S

(* The list b is the list a with one group more.                            *)
Inserted(a, b, i, g) ==
    /\ Len(b) = Len(a) + 1
    /\ b[i] = g
    /\ \A j \in 1 .. Len(a) : j < i => b[j] = a[j]
    /\ \A j \in 1 .. Len(a) : j >= i => b[j + 1] = a[j]

(* Between two parts a group is inserted behind the first.                   *)
LEMMA InsertedBetween ==
    ASSUME NEW A, NEW p \in Seq(A), NEW q \in Seq(A), NEW g \in A
    PROVE  Inserted(p \o q, (p \o <<g>>) \o q, Len(p) + 1, g)
  <1> DEFINE a == p \o q
             b == (p \o <<g>>) \o q
             k == Len(p)
             m == Len(q)
  <1>1. k \in Nat /\ m \in Nat /\ Len(a) = k + m /\ Len(b) = k + m + 1
    OBVIOUS
  <1>2. /\ \A j \in 1 .. k : a[j] = p[j] /\ b[j] = p[j]
        /\ b[k + 1] = g
        /\ \A j \in 1 .. m : a[k + j] = q[j] /\ b[k + 1 + j] = q[j]
    OBVIOUS
  <1> HIDE DEF a, b, k, m
  <1>3. \A j \in 1 .. Len(a) : j < k + 1 => b[j] = a[j]
    BY <1>1, <1>2
  <1>4. ASSUME NEW j \in 1 .. Len(a), j >= k + 1 PROVE b[j + 1] = a[j]
    <2>1. j - k \in 1 .. m /\ k + (j - k) = j /\ k + 1 + (j - k) = j + 1
      BY <1>1, <1>4
    <2> QED BY <1>2, <2>1
  <1> QED BY <1>1, <1>2, <1>3, <1>4 DEF Inserted, a, b, k

(* A single group is listed alone or not at all.                             *)
LEMMA ListedOne ==
    ASSUME NEW g \in Groups, NEW account, NEW day
    PROVE  Listed(<<g>>, account, day) = IF Shows(g, account, day) THEN <<g>> ELSE <<>>
  <1> DEFINE z == <<>>
  <1>1. z \in Seq(Groups)
    OBVIOUS
  <1>4. Append(z, g) = <<g>>
    OBVIOUS
  <1>2. Listed(z, account, day) = z
    BY ListedEmpty
  <1> HIDE DEF z
  <1>3. Listed(Append(z, g), account, day) =
            IF Shows(g, account, day) THEN Append(Listed(z, account, day), g)
            ELSE Listed(z, account, day)
    BY <1>1, ListedAppend
  <1> QED BY <1>2, <1>3, <1>4 DEF z

(* A group more in the ledger is one more in the list, or none.             *)
LEMMA ListedInserted ==
    ASSUME NEW x \in Seq(Groups), NEW y \in Seq(Groups), NEW g \in Groups, NEW account, NEW day,
           NEW a, a = Listed(x \o y, account, day),
           NEW b, b = Listed((x \o <<g>>) \o y, account, day)
    PROVE  b = a \/ \E i \in 1 .. Len(b) : Inserted(a, b, i, g)
  <1> DEFINE L(s) == Listed(s, account, day)
             p == L(x)
             q == L(y)
  <1>1. p \in Seq(Groups) /\ q \in Seq(Groups)
    BY ListedType
  <1>2. a = p \o q
    BY ListedConcat
  <1>3. L(<<g>>) = IF Shows(g, account, day) THEN <<g>> ELSE <<>>
    BY ListedOne
  <1>4. b = (p \o L(<<g>>)) \o q
    <2> DEFINE one == <<g>>
               z == x \o one
    <2>1. one \in Seq(Groups) /\ z \in Seq(Groups)
      OBVIOUS
    <2> HIDE DEF one
    <2>2. L(x \o one) = p \o L(one)
      BY <2>1, ListedConcat
    <2> HIDE DEF z
    <2>3. L(z \o y) = L(z) \o q
      BY <2>1, ListedConcat
    <2> QED BY <2>2, <2>3 DEF one, z
  <1> HIDE DEF p, q, L
  <1>5. CASE Shows(g, account, day)
    <2>1. b = (p \o <<g>>) \o q
      BY <1>3, <1>4, <1>5
    <2>2. Inserted(a, b, Len(p) + 1, g)
      BY <1>1, <1>2, <2>1, InsertedBetween
    <2>3. Len(p) + 1 \in 1 .. Len(b)
      BY <1>1, <2>1
    <2> QED BY <2>2, <2>3
  <1>6. CASE ~Shows(g, account, day)
    <2>1. L(<<g>>) = <<>> /\ p \o <<>> = p
      BY <1>1, <1>3, <1>6
    <2> QED BY <1>2, <1>4, <2>1
  <1> QED BY <1>5, <1>6

(* The list holds groups of the ledger, each once, and no more than it has. *)
LEMMA ListedKept ==
    ASSUME NEW x \in Seq(Groups), NEW account, NEW day
    PROVE  /\ Len(Listed(x, account, day)) <= Len(x)
           /\ \A i \in 1 .. Len(Listed(x, account, day)) :
                  \E j \in 1 .. Len(x) : Listed(x, account, day)[i] = x[j]
  <1> DEFINE L(s) == Listed(s, account, day)
             P(s) == /\ Len(L(s)) <= Len(s)
                     /\ \A i \in 1 .. Len(L(s)) : \E j \in 1 .. Len(s) : L(s)[i] = s[j]
             S == {s \in Seq(Groups) : P(s)}
  <1>1. <<>> \in S
    <2>1. L(<<>>) = <<>>
      BY ListedEmpty
    <2> HIDE DEF L
    <2> QED BY <2>1
  <1>2. ASSUME NEW s \in Seq(Groups), NEW g \in Groups, s \in S PROVE Append(s, g) \in S
    <2> DEFINE t == Append(s, g)
    <2>1. L(s) \in Seq(Groups)
      BY ListedType
    <2>2. L(t) = IF Shows(g, account, day) THEN Append(L(s), g) ELSE L(s)
      BY ListedAppend
    <2>3. t \in Seq(Groups) /\ Len(t) = Len(s) + 1 /\ t[Len(s) + 1] = g
          /\ Len(s) \in Nat /\ \A j \in 1 .. Len(s) : t[j] = s[j] /\ j \in 1 .. Len(t)
      OBVIOUS
    <2> HIDE DEF L, t
    <2>4. Len(L(s)) \in Nat /\ P(s)
      BY <1>2, <2>1
    <2>5. CASE ~Shows(g, account, day)
      <3>1. L(t) = L(s)
        BY <2>2, <2>5
      <3>2. Len(L(t)) <= Len(t)
        BY <2>3, <2>4, <3>1
      <3>3. \A i \in 1 .. Len(L(t)) : \E j \in 1 .. Len(t) : L(t)[i] = t[j]
        BY <2>3, <2>4, <3>1
      <3> QED BY <2>3, <3>2, <3>3 DEF t
    <2>6. CASE Shows(g, account, day)
      <3>1. /\ Len(L(t)) = Len(L(s)) + 1 /\ L(t)[Len(L(s)) + 1] = g
            /\ \A i \in 1 .. Len(L(s)) : L(t)[i] = L(s)[i]
        BY <2>1, <2>2, <2>6
      <3>2. Len(L(t)) <= Len(t)
        BY <2>3, <2>4, <3>1
      <3>3. ASSUME NEW i \in 1 .. Len(L(t)) PROVE \E j \in 1 .. Len(t) : L(t)[i] = t[j]
        <4>1. CASE i = Len(L(s)) + 1
          <5>1. Len(s) + 1 \in 1 .. Len(t)
            BY <2>3
          <5> QED BY <2>3, <3>1, <4>1, <5>1
        <4>2. CASE i # Len(L(s)) + 1
          <5>1. i \in 1 .. Len(L(s))
            BY <2>4, <3>1, <4>2
          <5> QED BY <2>3, <2>4, <3>1, <5>1
        <4> QED BY <4>1, <4>2
      <3> QED BY <2>3, <3>2, <3>3 DEF t
    <2> QED BY <2>5, <2>6
  <1> HIDE DEF S
  <1>3. x \in S
    BY <1>1, <1>2, AllSequences
  <1> QED BY <1>3 DEF S

----------------------------------------------------------------------------
(* Latest finds a notice if there is one, and none is newer.                *)
Notices == {NoNotice} \cup {ParseBalance(m) : m \in Mails}

Finding ==
    [s \in Notices \X Mails |-> IF Newer(s[2], s[1]) THEN ParseBalance(s[2]) ELSE s[1]]

(* What is found among the first i messages.                                *)
Found(x, notice, i) ==
    \/ notice = NoNotice /\ \A j \in 1 .. i : ~IsNotice(x[j])
    \/ \E j \in 1 .. i :
           /\ IsNotice(x[j]) /\ notice = ParseBalance(x[j])
           /\ \A k \in 1 .. i : IsNotice(x[k]) => x[k].asOf <= x[j].asOf

(* A notice is read as it was written.                                       *)
LEMMA NoticeTold ==
    ASSUME NEW m \in Mails, IsNotice(m)
    PROVE  /\ ParseBalance(m) # NoNotice /\ ParseBalance(m).asOf = m.asOf /\ m.asOf \in Int
           /\ ParseBalance(m).last4 = m.last4
           /\ ParseBalance(m).amount = Worth(m.amount) /\ ParseBalance(m).amount \in Int
  <1>1. m.last4 # "none" /\ m.amount \in Decimals /\ m.asOf \in Int
    BY MailsAssumption
  <1>2. ParseMinor(m.amount) = Worth(m.amount) /\ ParseMinor(m.amount) \in Int
    BY <1>1, ParsedIsWorth
  <1>3. /\ ParseBalance(m).last4 = m.last4 /\ ParseBalance(m).asOf = m.asOf
        /\ ParseBalance(m).amount = ParseMinor(m.amount)
    BY DEF ParseBalance
  <1>4. NoNotice.last4 = "none"
    BY DEF NoNotice
  <1>5. ParseBalance(m) # NoNotice
    BY <1>1, <1>3, <1>4
  <1> QED BY <1>1, <1>2, <1>3, <1>5

(* With one message more the newest notice is found again.                   *)
LEMMA FoundMore ==
    ASSUME NEW x \in Seq(Mails), NEW i \in 1 .. Len(x), NEW notice, Found(x, notice, i - 1)
    PROVE  Found(x, IF Newer(x[i], notice) THEN ParseBalance(x[i]) ELSE notice, i)
  <1>1. \A j \in 1 .. Len(x) : x[j] \in Mails
    OBVIOUS
  <1>2. \A j \in 1 .. i : j \in 1 .. i - 1 \/ j = i
    OBVIOUS
  <1>3. i \in 1 .. i /\ \A j \in 1 .. i - 1 : j \in 1 .. i
    OBVIOUS
  <1>4. \A j \in 1 .. i : j \in 1 .. Len(x)
    OBVIOUS
  <1>5. \A j \in 1 .. i : IsNotice(x[j]) => x[j].asOf \in Int /\ ParseBalance(x[j]) # NoNotice
                                           /\ ParseBalance(x[j]).asOf = x[j].asOf
    BY <1>1, <1>4, NoticeTold
  <1>6. CASE notice = NoNotice /\ \A j \in 1 .. i - 1 : ~IsNotice(x[j])
    <2>1. CASE IsNotice(x[i])
      <3>1. Newer(x[i], notice)
        BY <1>6, <2>1 DEF Newer
      <3>2. \A k \in 1 .. i : IsNotice(x[k]) => x[k].asOf <= x[i].asOf
        <4>1. \A k \in 1 .. i : IsNotice(x[k]) => k = i
          BY <1>2, <1>6
        <4>2. x[i].asOf <= x[i].asOf
          BY <1>3, <1>5, <2>1
        <4> QED BY <4>1, <4>2
      <3>3. Found(x, ParseBalance(x[i]), i)
        BY <1>3, <2>1, <3>2 DEF Found
      <3> QED BY <3>1, <3>3
    <2>2. CASE ~IsNotice(x[i])
      <3>1. ~Newer(x[i], notice)
        BY <2>2 DEF Newer
      <3>2. Found(x, notice, i)
        BY <1>2, <1>6, <2>2 DEF Found
      <3> QED BY <3>1, <3>2
    <2> QED BY <2>1, <2>2
  <1>7. ASSUME NEW j \in 1 .. i - 1, IsNotice(x[j]), notice = ParseBalance(x[j]),
               \A k \in 1 .. i - 1 : IsNotice(x[k]) => x[k].asOf <= x[j].asOf
        PROVE  Found(x, IF Newer(x[i], notice) THEN ParseBalance(x[i]) ELSE notice, i)
    <2>1. /\ notice # NoNotice /\ notice.asOf = x[j].asOf /\ x[j].asOf \in Int
          /\ Newer(x[i], notice) <=> IsNotice(x[i]) /\ x[i].asOf > x[j].asOf
      BY <1>3, <1>5, <1>7 DEF Newer
    <2>2. CASE Newer(x[i], notice)
      <3>1. \A k \in 1 .. i : IsNotice(x[k]) => x[k].asOf <= x[i].asOf
        <4> SUFFICES ASSUME NEW k \in 1 .. i, IsNotice(x[k]) PROVE x[k].asOf <= x[i].asOf
          OBVIOUS
        <4>1. x[k].asOf \in Int /\ x[i].asOf \in Int
          BY <1>3, <1>5, <2>1, <2>2
        <4>2. CASE k = i
          BY <4>1, <4>2
        <4>3. CASE k \in 1 .. i - 1
          <5>1. x[k].asOf <= x[j].asOf /\ x[i].asOf > x[j].asOf
            BY <1>7, <2>1, <2>2, <4>3
          <5> QED BY <2>1, <4>1, <5>1
        <4> QED BY <1>2, <4>2, <4>3
      <3>2. Found(x, ParseBalance(x[i]), i)
        BY <1>3, <2>1, <2>2, <3>1 DEF Found
      <3> QED BY <2>2, <3>2
    <2>3. CASE ~Newer(x[i], notice)
      <3>1. \A k \in 1 .. i : IsNotice(x[k]) => x[k].asOf <= x[j].asOf
        <4> SUFFICES ASSUME NEW k \in 1 .. i, IsNotice(x[k]) PROVE x[k].asOf <= x[j].asOf
          OBVIOUS
        <4>1. x[k].asOf \in Int
          BY <1>5
        <4>2. CASE k = i
          BY <2>1, <2>3, <4>1, <4>2
        <4>3. CASE k \in 1 .. i - 1
          BY <1>7, <4>3
        <4> QED BY <1>2, <4>2, <4>3
      <3>2. Found(x, notice, i)
        BY <1>3, <1>7, <3>1 DEF Found
      <3> QED BY <2>3, <3>2
    <2> QED BY <2>2, <2>3
  <1> QED BY <1>6, <1>7 DEF Found

(* cmdVerify finds the newest notice of all the messages.                    *)
LEMMA LatestFound ==
    ASSUME NEW x \in Seq(Mails)
    PROVE  Found(x, Latest(x), Len(x))
  <1> DEFINE n == Len(x)
             Turned(s, m) == IF Newer(m, s) THEN ParseBalance(m) ELSE s
             Turn(f) == [i \in 0 .. n |->
                            IF i = 0 THEN NoNotice
                            ELSE IF Newer(x[i], f[i - 1]) THEN ParseBalance(x[i])
                            ELSE f[i - 1]]
             found == CHOOSE f : f = Turn(f)
             S == {i \in Nat : Found(x, found[i], i)}
  <1>1. n \in Nat /\ \A i \in 1 .. n : x[i] \in Mails
    OBVIOUS
  <1>2. \A s \in Notices, m \in Mails : Turned(s, m) \in Notices
    BY DEF Notices
  <1>3. Finding \in [Notices \X Mails -> Notices]
        /\ \A s \in Notices, m \in Mails : Finding[<<s, m>>] = Turned(s, m)
    <2>1. Finding = [p \in Notices \X Mails |-> Turned(p[1], p[2])]
      BY DEF Finding
    <2> HIDE DEF Turned
    <2> QED BY <1>2, <2>1
  <1>4. PICK h \in [0 .. n -> Notices] : Loops(h, x, NoNotice, Finding)
    <2>1. NoNotice \in Notices
      BY DEF Notices
    <2> QED BY <1>3, <2>1, LoopExists, Zenon
  <1>5. \A f : Turn(f) = [i \in 0 .. n |-> IF i = 0 THEN NoNotice ELSE Turned(f[i - 1], x[i])]
    OBVIOUS
  <1> HIDE DEF Turn
  <1>6. \A i \in 1 .. n : i - 1 \in 0 .. n /\ i \in 0 .. n /\ i # 0
    BY <1>1
  <1>7. h = Turn(h)
    <2>1. h[0] = NoNotice /\ \A i \in 1 .. n : h[i] = Finding[<<h[i - 1], x[i]>>]
      BY <1>4 DEF Loops
    <2> HIDE DEF n, Turned
    <2>2. \A i \in 1 .. n : h[i] = Turned(h[i - 1], x[i])
      BY <1>1, <1>3, <1>4, <1>6, <2>1
    <2>3. \A i \in 0 .. n : i = 0 \/ i \in 1 .. n
      BY <1>1
    <2> QED BY <1>4, <1>5, <2>1, <2>2, <2>3
  <1>8. found = Turn(found)
    BY <1>7
  <1>9. Latest(x) = found[n]
    BY DEF Latest, Turn
  <1> HIDE DEF found, Turned, n
  <1>10. found[0] = NoNotice /\ \A i \in 1 .. n : found[i] = Turned(found[i - 1], x[i])
    <2>1. found = [i \in 0 .. n |-> IF i = 0 THEN NoNotice ELSE Turned(found[i - 1], x[i])]
      BY <1>5, <1>8
    <2>2. 0 \in 0 .. n
      BY <1>1
    <2> QED BY <1>6, <2>1, <2>2
  <1>11. 0 \in S
    <2>1. Found(x, found[0], 0)
      BY <1>10 DEF Found
    <2> QED BY <2>1
  <1>12. ASSUME NEW i \in 1 .. n, i - 1 \in S PROVE i \in S
    <2>1. Found(x, found[i - 1], i - 1) /\ i \in 1 .. Len(x)
      BY <1>12 DEF n
    <2>2. Found(x, Turned(found[i - 1], x[i]), i)
      BY <2>1, FoundMore DEF Turned
    <2>3. i \in Nat
      BY <1>1
    <2> QED BY <1>10, <2>2, <2>3
  <1> HIDE DEF S
  <1>13. \A i \in 0 .. n : i \in S
    BY <1>1, <1>11, <1>12, Along
  <1>14. n \in S
    BY <1>1, <1>13
  <1> QED BY <1>9, <1>14 DEF S, n

----------------------------------------------------------------------------
(* The sum of a page is that of its groups, and that of a group is what     *)
(* came in less what went out.                                              *)
LEMMA SplitKinds ==
    ASSUME NEW g \in Groups
    PROVE  /\ g.splits \in Seq([source : STRING, destination : STRING, amount : Decimals])
           /\ Len(g.splits) \in Nat \ {0}
           /\ DOMAIN g.splits = 1 .. Len(g.splits)
           /\ \A k \in DOMAIN g.splits : g.splits[k].source # g.splits[k].destination
           /\ \A k \in DOMAIN g.splits : g.splits[k].amount \in Decimals
  <1> DEFINE s == g.splits
  <1>1. s \in Shapes
    BY DEF Groups
  <1>2. /\ s \in Seq([source : STRING, destination : STRING, amount : Decimals]) /\ s # <<>>
        /\ \A k \in DOMAIN s : s[k].source # s[k].destination
    BY <1>1, ShapesAssumption
  <1> DEFINE A == [source : STRING, destination : STRING, amount : Decimals]
  <1> HIDE DEF s
  <1>3. /\ Len(s) \in Nat \ {0} /\ DOMAIN s = 1 .. Len(s)
        /\ \A k \in DOMAIN s : s[k] \in A
    <2>1. s \in Seq(A) /\ s # <<>>
      BY <1>2
    <2> HIDE DEF A
    <2> QED BY <2>1
  <1>4. \A k \in DOMAIN s : s[k].amount \in Decimals
    BY <1>3
  <1> QED BY <1>2, <1>3, <1>4 DEF s

(* A function on 1 .. n is a sequence of n.                                  *)
LEMMA SequenceOf ==
    ASSUME NEW n \in Nat, NEW A, NEW x \in [1 .. n -> A]
    PROVE  x \in Seq(A) /\ Len(x) = n
  OBVIOUS

(* A group moves the account by what came in less what went out.             *)
LEMMA GroupSumIs ==
    ASSUME NEW g \in Groups, NEW account
    PROVE  /\ GroupSum(g, account) \in Int
           /\ Moved(g, "destination", account) \in Int /\ Moved(g, "source", account) \in Int
           /\ GroupSum(g, account) = Moved(g, "destination", account) - Moved(g, "source", account)
           /\ ~Touches(g, account) => GroupSum(g, account) = 0
  <1> DEFINE n == Len(g.splits)
             worth(k) == Worth(g.splits[k].amount)
             x == [k \in DOMAIN g.splits |->
                      Signed(g.splits[k], ParseMinor(g.splits[k].amount), account)]
             y == [k \in DOMAIN g.splits |->
                      IF g.splits[k]["destination"] = account THEN Worth(g.splits[k].amount) ELSE 0]
             z == [k \in DOMAIN g.splits |->
                      IF g.splits[k]["source"] = account THEN Worth(g.splits[k].amount) ELSE 0]
  <1>1. n \in Nat /\ DOMAIN g.splits = 1 .. n
    BY SplitKinds
  <1>2. \A k \in 1 .. n : /\ worth(k) \in Int /\ ParseMinor(g.splits[k].amount) = worth(k)
                          /\ g.splits[k].source # g.splits[k].destination
    BY <1>1, SplitKinds, ParsedIsWorth
  <1>3. \A k \in 1 .. n :
            Signed(g.splits[k], worth(k), account) =
                (IF g.splits[k].destination = account THEN worth(k) ELSE 0)
                - (IF g.splits[k].source = account THEN worth(k) ELSE 0)
    <2> HIDE DEF n, worth
    <2> QED BY <1>2 DEF Signed
  <1>4. /\ x = [k \in 1 .. n |-> Signed(g.splits[k], worth(k), account)]
        /\ y = [k \in 1 .. n |-> IF g.splits[k].destination = account THEN worth(k) ELSE 0]
        /\ z = [k \in 1 .. n |-> IF g.splits[k].source = account THEN worth(k) ELSE 0]
    BY <1>1, <1>2
  <1> HIDE DEF x, y, z, worth, n
  <1>5. \A k \in 1 .. n :
            /\ x[k] = y[k] - z[k] /\ y[k] \in Int /\ z[k] \in Int /\ x[k] \in Int
            /\ g.splits[k].destination # account => y[k] = 0
            /\ g.splits[k].source # account => z[k] = 0
    BY <1>2, <1>3, <1>4
  <1>6. x \in Seq(Int) /\ y \in Seq(Int) /\ z \in Seq(Int) /\ Len(x) = n /\ Len(y) = n /\ Len(z) = n
    <2>1. x \in [1 .. n -> Int] /\ y \in [1 .. n -> Int] /\ z \in [1 .. n -> Int]
      BY <1>4, <1>5
    <2> QED BY <1>1, <2>1, SequenceOf
  <1>7. Total(x) = Total(y) - Total(z)
    <2>1. Len(x) = Len(y) /\ Len(x) = Len(z) /\ \A k \in 1 .. Len(x) : x[k] = y[k] - z[k]
      BY <1>5, <1>6
    <2> QED BY <1>6, <2>1, TotalDifference, SMTT(30)
  <1>8. /\ GroupSum(g, account) = Total(x)
        /\ Moved(g, "destination", account) = Total(y) /\ Moved(g, "source", account) = Total(z)
    BY DEF GroupSum, Moved, x, y, z
  <1>9. ASSUME ~Touches(g, account) PROVE Total(x) = 0
    <2>1. \A k \in 1 .. n : x[k] = 0
      <3>1. \A k \in 1 .. n : g.splits[k].destination # account /\ g.splits[k].source # account
        BY <1>1, <1>9 DEF Touches
      <3> QED BY <1>5, <3>1
    <2> QED BY <1>6, <2>1, TotalZero
  <1>10. Total(x) \in Int /\ Total(y) \in Int /\ Total(z) \in Int
    BY <1>6, TotalType
  <1> QED BY <1>7, <1>8, <1>9, <1>10

(* One group more adds its own sum.                                          *)
LEMMA PageSumAppend ==
    ASSUME NEW s \in Seq(Groups), NEW account
    PROVE  /\ PageSum(s, account) \in Int
           /\ \A g \in Groups :
                  PageSum(Append(s, g), account) = PageSum(s, account) + GroupSum(g, account)
  <1> DEFINE F(h) == GroupSum(h, account)
             x == [i \in DOMAIN s |-> F(s[i])]
  <1>1. \A h \in Groups : F(h) \in Int
    BY GroupSumIs
  <1> HIDE DEF F
  <1>2. x \in Seq(Int)
    BY <1>1
  <1>3. PageSum(s, account) = Total(x)
    BY DEF PageSum, F
  <1>4. PageSum(s, account) \in Int
    BY <1>2, <1>3, TotalType
  <1>5. ASSUME NEW g \in Groups
        PROVE  PageSum(Append(s, g), account) = PageSum(s, account) + GroupSum(g, account)
    <2> DEFINE t == Append(s, g)
               y == [i \in DOMAIN t |-> F(t[i])]
    <2>1. y = Append(x, F(g))
      OBVIOUS
    <2>2. PageSum(t, account) = Total(y)
      BY DEF PageSum, F
    <2>3. F(g) \in Int
      BY <1>1
    <2> HIDE DEF x, y, t
    <2>4. Total(Append(x, F(g))) = Total(x) + F(g)
      BY <1>2, <2>3, TotalAppend
    <2> QED BY <1>3, <2>1, <2>2, <2>4 DEF F, t
  <1> QED BY <1>4, <1>5

(* No groups add up to nothing.                                              *)
LEMMA PageSumEmpty ==
    ASSUME NEW account
    PROVE  PageSum(<<>>, account) = 0
  <1>1. [i \in DOMAIN <<>> |-> GroupSum(<<>>[i], account)] = <<>>
    OBVIOUS
  <1> QED BY <1>1, TotalEmpty DEF PageSum

(* Two pages add up to the sum of their sums.                                *)
LEMMA PageSumConcat ==
    ASSUME NEW x \in Seq(Groups), NEW y \in Seq(Groups), NEW account
    PROVE  PageSum(x \o y, account) = PageSum(x, account) + PageSum(y, account)
  <1> DEFINE P(s) == PageSum(s, account)
             S == {q \in Seq(Groups) : P(x \o q) = P(x) + P(q)}
  <1>1. <<>> \in S
    <2>1. x \o <<>> = x /\ <<>> \in Seq(Groups)
      OBVIOUS
    <2>2. P(x) \in Int /\ P(<<>>) = 0
      BY PageSumAppend, PageSumEmpty
    <2>3. P(x) = P(x) + 0
      BY <2>2
    <2> HIDE DEF P
    <2> QED BY <2>1, <2>2, <2>3
  <1>2. ASSUME NEW q \in Seq(Groups), NEW g \in Groups, q \in S PROVE Append(q, g) \in S
    <2>1. x \o Append(q, g) = Append(x \o q, g)
      OBVIOUS
    <2>2. x \o q \in Seq(Groups) /\ Append(q, g) \in Seq(Groups)
      OBVIOUS
    <2>3. P(Append(q, g)) = P(q) + GroupSum(g, account) /\ P(q) \in Int
      BY PageSumAppend
    <2>4. P(Append(x \o q, g)) = P(x \o q) + GroupSum(g, account)
      <3> DEFINE z == x \o q
      <3>1. z \in Seq(Groups)
        BY <2>2
      <3> HIDE DEF z
      <3>2. P(Append(z, g)) = P(z) + GroupSum(g, account)
        BY <3>1, PageSumAppend
      <3> QED BY <3>2 DEF z
    <2>5. P(x) \in Int /\ GroupSum(g, account) \in Int
      BY PageSumAppend, GroupSumIs
    <2> HIDE DEF P
    <2>6. P(x \o q) = P(x) + P(q)
      BY <1>2
    <2>7. (P(x) + P(q)) + GroupSum(g, account) = P(x) + (P(q) + GroupSum(g, account))
      BY <2>3, <2>5
    <2>8. P(x \o Append(q, g)) = P(x) + P(Append(q, g))
      BY <2>1, <2>3, <2>4, <2>6, <2>7, Zenon
    <2> QED BY <2>2, <2>8
  <1> HIDE DEF S
  <1>3. y \in S
    BY <1>1, <1>2, AllSequences
  <1> QED BY <1>3 DEF S

(* What the list adds up to is the balance of the account that day.         *)
LEMMA ListedSum ==
    ASSUME NEW x \in Seq(Groups), NEW account, NEW day
    PROVE  PageSum(Listed(x, account, day), account) = TrueBalance(x, account, day)
  <1> DEFINE F(g) == IF Shows(g, account, day) THEN GroupSum(g, account) ELSE 0
             M(g, end) == IF g.date <= day THEN Moved(g, end, account) ELSE 0
             sums(s) == [i \in DOMAIN s |-> F(s[i])]
             L(s) == Listed(s, account, day)
             P(s) == PageSum(s, account)
             S == {s \in Seq(Groups) : P(L(s)) = Total(sums(s))}
             to == [i \in DOMAIN x |-> M(x[i], "destination")]
             from == [i \in DOMAIN x |-> M(x[i], "source")]
  <1>1. ASSUME NEW g \in Groups
        PROVE  /\ F(g) \in Int /\ M(g, "destination") \in Int /\ M(g, "source") \in Int
               /\ F(g) = M(g, "destination") - M(g, "source")
    <2>1. /\ GroupSum(g, account) \in Int
          /\ Moved(g, "destination", account) \in Int /\ Moved(g, "source", account) \in Int
          /\ GroupSum(g, account) = Moved(g, "destination", account) - Moved(g, "source", account)
          /\ ~Touches(g, account) => GroupSum(g, account) = 0
      BY GroupSumIs
    <2>2. Shows(g, account, day) <=> (g.date <= day) /\ Touches(g, account)
      BY DEF Shows
    <2>3. CASE Shows(g, account, day)
      BY <2>1, <2>2, <2>3
    <2>4. CASE ~Shows(g, account, day) /\ g.date <= day
      BY <2>1, <2>2, <2>4
    <2>5. CASE ~(g.date <= day)
      BY <2>2, <2>5
    <2> QED BY <2>3, <2>4, <2>5
  <1>2. TrueBalance(x, account, day) = Total(to) - Total(from)
    BY DEF TrueBalance
  <1>3. Total(sums(x)) = Total(to) - Total(from)
    <2> HIDE DEF F, M
    <2>1. /\ sums(x) \in Seq(Int) /\ to \in Seq(Int) /\ from \in Seq(Int)
          /\ Len(to) = Len(sums(x)) /\ Len(from) = Len(sums(x))
          /\ \A i \in 1 .. Len(sums(x)) : sums(x)[i] = to[i] - from[i]
      <3> DEFINE n == Len(x)
                 a == sums(x)
      <3>1. n \in Nat /\ DOMAIN x = 1 .. n /\ \A i \in 1 .. n : x[i] \in Groups
        OBVIOUS
      <3>2. /\ \A i \in 1 .. n : F(x[i]) \in Int /\ M(x[i], "destination") \in Int
                                 /\ M(x[i], "source") \in Int
            /\ \A i \in 1 .. n : F(x[i]) = M(x[i], "destination") - M(x[i], "source")
        BY <1>1, <3>1
      <3>3. /\ a = [i \in 1 .. n |-> F(x[i])] /\ to = [i \in 1 .. n |-> M(x[i], "destination")]
            /\ from = [i \in 1 .. n |-> M(x[i], "source")]
        BY <3>1
      <3> HIDE DEF n, a, to, from
      <3>4. a \in [1 .. n -> Int] /\ to \in [1 .. n -> Int] /\ from \in [1 .. n -> Int]
        BY <3>2, <3>3
      <3>5. \A i \in 1 .. n : a[i] = to[i] - from[i]
        BY <3>2, <3>3
      <3>6. a \in Seq(Int) /\ to \in Seq(Int) /\ from \in Seq(Int)
            /\ Len(a) = n /\ Len(to) = n /\ Len(from) = n
        BY <3>1, <3>4, SequenceOf
      <3> QED BY <3>5, <3>6 DEF a
    <2> DEFINE a == sums(x)
    <2> HIDE DEF a, to, from
    <2>2. Total(a) = Total(to) - Total(from)
      BY <2>1, TotalDifference DEF a
    <2> QED BY <2>2 DEF a
  <1>4. <<>> \in S
    <2>1. sums(<<>>) = <<>> /\ <<>> \in Seq(Groups)
      OBVIOUS
    <2>2. L(<<>>) = <<>>
      BY ListedEmpty
    <2>3. P(<<>>) = 0 /\ Total(<<>>) = 0
      BY PageSumEmpty, TotalEmpty
    <2> HIDE DEF L, P, sums
    <2> QED BY <2>1, <2>2, <2>3
  <1>5. ASSUME NEW s \in Seq(Groups), NEW g \in Groups, s \in S PROVE Append(s, g) \in S
    <2> DEFINE t == Append(s, g)
    <2>1. L(t) = IF Shows(g, account, day) THEN Append(L(s), g) ELSE L(s)
      BY ListedAppend
    <2>2. L(s) \in Seq(Groups)
      BY ListedType
    <2>3. F(g) \in Int /\ \A h \in Groups : F(h) \in Int
      BY <1>1
    <2>4. /\ Shows(g, account, day) => F(g) = GroupSum(g, account)
          /\ ~Shows(g, account, day) => F(g) = 0
      OBVIOUS
    <2> HIDE DEF F, L
    <2>5. t \in Seq(Groups) /\ sums(t) = Append(sums(s), F(g)) /\ sums(s) \in Seq(Int)
      BY <2>3
    <2> DEFINE a == sums(s)
    <2>6. Total(Append(a, F(g))) = Total(a) + F(g) /\ Total(a) \in Int
      <3>1. a \in Seq(Int)
        BY <2>5
      <3> HIDE DEF a
      <3> QED BY <2>3, <3>1, TotalAppend, TotalType
    <2>7. P(L(s)) \in Int /\ P(Append(L(s), g)) = P(L(s)) + GroupSum(g, account)
      BY <2>2, PageSumAppend
    <2>8. P(L(s)) = Total(a)
      BY <1>5
    <2> HIDE DEF a, P, S
    <2>9. CASE Shows(g, account, day)
      <3>1. P(L(t)) = Total(a) + F(g)
        BY <2>1, <2>4, <2>7, <2>8, <2>9, Zenon
      <3> QED BY <2>5, <2>6, <3>1 DEF S, a
    <2>10. CASE ~Shows(g, account, day)
      <3>1. P(L(t)) = Total(a) /\ Total(Append(a, F(g))) = Total(a)
        BY <2>1, <2>3, <2>4, <2>6, <2>8, <2>10
      <3> QED BY <2>5, <3>1 DEF S, a
    <2> QED BY <2>9, <2>10
  <1> HIDE DEF S
  <1>6. x \in S
    BY <1>4, <1>5, AllSequences
  <1> QED BY <1>2, <1>3, <1>6 DEF S

(* No page has fewer splits than groups.                                    *)
LEMMA SplitCountAtLeast ==
    ASSUME NEW s \in Seq(Groups)
    PROVE  SplitCount(s) \in Int /\ SplitCount(s) >= Len(s) /\ (Len(s) = 0 => SplitCount(s) = 0)
  <1> DEFINE n == Len(s)
             x == [i \in DOMAIN s |-> Len(s[i].splits)]
  <1>1. n \in Nat /\ DOMAIN s = 1 .. n /\ \A i \in 1 .. n : s[i] \in Groups
    OBVIOUS
  <1>2. \A i \in 1 .. n : Len(s[i].splits) \in Nat \ {0}
    BY <1>1, SplitKinds
  <1>3. x \in [1 .. n -> Nat \ {0}]
    BY <1>1, <1>2
  <1>4. SplitCount(s) = Total(x)
    BY DEF SplitCount
  <1> HIDE DEF x
  <1>5. x \in Seq(Nat \ {0}) /\ Len(x) = n
    BY <1>1, <1>3, SequenceOf
  <1>6. Total(x) \in Int /\ Total(x) >= Len(x)
    BY <1>5, TotalAtLeast
  <1>7. n = 0 => Total(x) = 0
    <2>1. n = 0 => x = <<>>
      BY <1>5
    <2> QED BY <2>1, TotalEmpty
  <1> QED BY <1>4, <1>5, <1>6, <1>7

----------------------------------------------------------------------------
(* The page p starts behind the groups of the pages before it.              *)
Before(p) == (p - 1) * PageSize

(* Each page lies behind one page more.                                      *)
LEMMA BeforeNext ==
    ASSUME NEW p \in Nat \ {0}
    PROVE  /\ Before(p) \in Nat /\ p * PageSize = Before(p) + PageSize
           /\ Before(p + 1) = Before(p) + PageSize /\ Before(1) = 0
           /\ PageSize \in Nat \ {0}
  <1>1. PageSize \in Nat \ {0}
    BY BalanceAssumption
  <1>2. p - 1 \in Nat /\ (p + 1) - 1 = p
    OBVIOUS
  <1>3. (p - 1) * PageSize \in Nat
    BY <1>1, <1>2
  <1>4. p * PageSize = (p - 1) * PageSize + PageSize
    BY <1>1
  <1>5. (1 - 1) * PageSize = 0
    BY <1>1
  <1> QED BY <1>1, <1>2, <1>3, <1>4, <1>5 DEF Before

Until(list, n) == IF n <= Len(list) THEN n ELSE Len(list)

(* A page holds the groups from its first to its last.                       *)
LEMMA PageIs ==
    ASSUME NEW list \in Seq(Groups), NEW p \in Nat \ {0}
    PROVE  /\ PageOf(list, p) = SubSeq(list, Before(p) + 1, Until(list, Before(p) + PageSize))
           /\ PageOf(list, p) \in Seq(Groups)
           /\ Len(PageOf(list, p)) =
                  IF Before(p) <= Len(list) THEN Until(list, Before(p) + PageSize) - Before(p) ELSE 0
           /\ \A i \in 1 .. Len(PageOf(list, p)) : PageOf(list, p)[i] = list[Before(p) + i]
  <1> DEFINE k == Before(p)
             n == Len(list)
             hi == Until(list, k + PageSize)
             q == PageOf(list, p)
  <1>1. k \in Nat /\ n \in Nat /\ PageSize \in Nat \ {0} /\ p * PageSize = k + PageSize
    <2>1. n \in Nat /\ p \in Nat \ {0}
      OBVIOUS
    <2> HIDE DEF n
    <2> QED BY <2>1, BeforeNext, Zenon
  <1>2. \A a, b \in Int : Min({a, b}) = IF a <= b THEN a ELSE b
    BY DEF Min
  <1> HIDE DEF k, n
  <1>3. Min({k + PageSize, n}) = hi
    BY <1>1, <1>2 DEF Until, n
  <1>4. q = SubSeq(list, k + 1, hi)
    BY <1>1, <1>3 DEF PageOf, Before, k, n
  <1>5. hi \in 0 .. n /\ hi <= k + PageSize /\ (k <= n => k <= hi) /\ (n < k => hi < k + 1)
    BY <1>1 DEF Until, n
  <1> HIDE DEF hi, q
  <1>6. CASE k <= n
    <2>1. k + 1 \in 1 .. hi + 1 /\ hi <= n
      BY <1>1, <1>5, <1>6
    <2>2. \A i \in k + 1 .. hi : list[i] \in Groups
      BY <1>1, <1>5 DEF n
    <2>3. q \in Seq(Groups) /\ Len(q) = hi - k /\ \A i \in 1 .. hi - k : q[i] = list[k + i]
      BY <1>1, <1>4, <1>5, <1>6, <2>1 DEF n
    <2> QED BY <1>4, <1>6, <2>3 DEF k, n, q, hi
  <1>7. CASE n < k
    <2>1. q = <<>>
      BY <1>1, <1>4, <1>5, <1>7
    <2>2. ~(k <= n)
      BY <1>1, <1>7
    <2>3. <<>> \in Seq(Groups) /\ Len(<<>>) = 0
      OBVIOUS
    <2>4. q \in Seq(Groups) /\ Len(q) = 0 /\ \A i \in 1 .. Len(q) : q[i] = list[k + i]
      BY <2>1, <2>3
    <2> QED BY <1>4, <2>2, <2>4 DEF k, n, q, hi
  <1> QED BY <1>1, <1>6, <1>7

(* The first n groups, or all of them.                                       *)
LEMMA FirstIs ==
    ASSUME NEW list \in Seq(Groups), NEW n \in Nat
    PROVE  /\ First(list, n) = SubSeq(list, 1, Until(list, n)) /\ Until(list, n) \in 0 .. Len(list)
           /\ n = 0 => First(list, n) = <<>>
           /\ n >= Len(list) => First(list, n) = list
  <1>1. First(list, n) = SubSeq(list, 1, Until(list, n))
    BY DEF First, Until
  <1>2. Until(list, n) \in 0 .. Len(list) /\ (n = 0 => Until(list, n) = 0)
        /\ (n >= Len(list) => Until(list, n) = Len(list))
    BY DEF Until
  <1>3. SubSeq(list, 1, 0) = <<>> /\ SubSeq(list, 1, Len(list)) = list
    OBVIOUS
  <1> QED BY <1>1, <1>2, <1>3

(* With each page the sum is that of so many groups more.                   *)
LEMMA PageCounted ==
    ASSUME NEW list \in Seq(Groups), NEW p \in Nat \ {0}, NEW account
    PROVE  PageSum(First(list, Before(p + 1)), account) =
               PageSum(First(list, Before(p)), account) + PageSum(PageOf(list, p), account)
  <1> DEFINE k == Before(p)
             n == Len(list)
             hi == Until(list, k + PageSize)
             q == PageOf(list, p)
             a == SubSeq(list, 1, Until(list, k))
             b == SubSeq(list, 1, hi)
  <1>1. k \in Nat /\ n \in Nat /\ PageSize \in Nat \ {0} /\ Before(p + 1) = k + PageSize
    <2>1. n \in Nat /\ p \in Nat \ {0}
      OBVIOUS
    <2> HIDE DEF n
    <2> QED BY <2>1, BeforeNext, Zenon
  <1>2. q = SubSeq(list, k + 1, hi)
    BY PageIs
  <1>3. First(list, k) = a /\ First(list, k + PageSize) = b
    <2>1. k + PageSize \in Nat
      BY <1>1
    <2> HIDE DEF k
    <2> QED BY <1>1, <2>1, FirstIs
  <1>4. b = a \o q /\ a \in Seq(Groups) /\ q \in Seq(Groups)
    <2> HIDE DEF k
    <2>1. CASE k <= n
      <3>1. Until(list, k) = k /\ hi \in 0 .. n /\ k <= hi
        BY <1>1, <2>1 DEF Until
      <3> HIDE DEF hi
      <3>2. SubSeq(list, 1, hi) = SubSeq(list, 1, k) \o SubSeq(list, k + 1, hi)
        BY <1>1, <3>1
      <3>3. SubSeq(list, 1, k) \in Seq(Groups) /\ SubSeq(list, k + 1, hi) \in Seq(Groups)
        BY <1>1, <3>1
      <3> QED BY <1>2, <3>1, <3>2, <3>3, Zenon
    <2>2. CASE n < k
      <3>1. Until(list, k) = n /\ hi = n
        BY <1>1, <2>2 DEF Until
      <3> HIDE DEF hi, q
      <3>2. q = <<>> /\ a = list /\ b = list
        BY <1>1, <1>2, <2>2, <3>1
      <3>3. list \o <<>> = list /\ <<>> \in Seq(Groups)
        OBVIOUS
      <3> QED BY <3>2, <3>3
    <2>3. k <= n \/ n < k
      BY <1>1
    <2> QED BY <2>1, <2>2, <2>3, Zenon
  <1> HIDE DEF a, b, q, k
  <1>5. PageSum(a \o q, account) = PageSum(a, account) + PageSum(q, account)
    BY <1>4, PageSumConcat
  <1> QED BY <1>1, <1>3, <1>4, <1>5 DEF q, k

(* A page that is taken for the last has the last groups of the list, and   *)
(* one that is not has some.                                                *)
LEMMA PageEnds ==
    ASSUME NEW list \in Seq(Groups), NEW p \in Nat \ {0}
    PROVE  /\ LastPage(SplitCount(PageOf(list, p))) => Before(p + 1) >= Len(list)
           /\ ~LastPage(SplitCount(PageOf(list, p))) => Before(p) < Len(list)
  <1> DEFINE k == Before(p)
             n == Len(list)
             q == PageOf(list, p)
  <1>1. k \in Nat /\ n \in Nat /\ PageSize \in Nat \ {0} /\ Before(p + 1) = k + PageSize
    <2>1. n \in Nat /\ p \in Nat \ {0}
      OBVIOUS
    <2> HIDE DEF n
    <2> QED BY <2>1, BeforeNext, Zenon
  <1>2. /\ q \in Seq(Groups)
        /\ Len(q) = IF k <= n THEN Until(list, k + PageSize) - k ELSE 0
    BY PageIs
  <1>3. SplitCount(q) \in Int /\ SplitCount(q) >= Len(q) /\ (Len(q) = 0 => SplitCount(q) = 0)
    BY <1>2, SplitCountAtLeast
  <1>4. Len(q) = IF k <= n THEN (IF k + PageSize <= n THEN PageSize ELSE n - k) ELSE 0
    <2> HIDE DEF k, q
    <2> QED BY <1>1, <1>2 DEF Until
  <1> DEFINE c == SplitCount(q)
             l == Len(q)
  <1>5. l \in Int /\ c \in Int
    BY <1>2, <1>3
  <1>6. c < PageSize => k + PageSize >= n
    <2> HIDE DEF k, n, c, l, q
    <2> QED BY <1>1, <1>3, <1>4, <1>5 DEF c, l
  <1>7. ~(c < PageSize) => k < n
    <2> HIDE DEF k, n, c, l, q
    <2> QED BY <1>1, <1>3, <1>4, <1>5 DEF c, l
  <1> QED BY <1>1, <1>6, <1>7 DEF LastPage

----------------------------------------------------------------------------
(* Groups have their numbers to themselves, in the ledger and in the list.  *)
Distinct(s) == \A i, j \in 1 .. Len(s) : s[i].id = s[j].id => i = j

(* A list of different groups has none twice.                                *)
LEMMA ListedDistinct ==
    ASSUME NEW x \in Seq(Groups), Distinct(x), NEW account, NEW day
    PROVE  Distinct(Listed(x, account, day))
  <1> DEFINE L(s) == Listed(s, account, day)
             S == {s \in Seq(Groups) : Distinct(s) => Distinct(L(s))}
  <1>1. <<>> \in S
    <2>1. L(<<>>) = <<>> /\ <<>> \in Seq(Groups)
      BY ListedEmpty
    <2> HIDE DEF L
    <2> QED BY <2>1
  <1>2. ASSUME NEW s \in Seq(Groups), NEW g \in Groups, s \in S PROVE Append(s, g) \in S
    <2> DEFINE t == Append(s, g)
    <2>1. L(t) = IF Shows(g, account, day) THEN Append(L(s), g) ELSE L(s)
      BY ListedAppend
    <2>2. L(s) \in Seq(Groups)
      BY ListedType
    <2>3. \A i \in 1 .. Len(L(s)) : \E j \in 1 .. Len(s) : L(s)[i] = s[j]
      BY ListedKept
    <2>4. /\ t \in Seq(Groups) /\ Len(t) = Len(s) + 1 /\ t[Len(s) + 1] = g /\ Len(s) \in Nat
          /\ \A j \in 1 .. Len(s) : t[j] = s[j]
      OBVIOUS
    <2> HIDE DEF L, t
    <2> SUFFICES ASSUME Distinct(t) PROVE Distinct(L(t))
      BY <2>4 DEF t
    <2>5. \A j \in 1 .. Len(s) : s[j].id # g.id
      <3>1. \A j \in 1 .. Len(s) : j \in 1 .. Len(t) /\ Len(s) + 1 \in 1 .. Len(t) /\ j # Len(s) + 1
        BY <2>4
      <3> QED BY <2>4, <3>1 DEF Distinct
    <2>6. Distinct(s)
      <3>1. \A j \in 1 .. Len(s) : j \in 1 .. Len(t)
        BY <2>4
      <3> QED BY <2>4, <3>1 DEF Distinct
    <2>7. Distinct(L(s))
      BY <1>2, <2>6
    <2>8. CASE ~Shows(g, account, day)
      BY <2>1, <2>7, <2>8
    <2>9. CASE Shows(g, account, day)
      <3> DEFINE n == Len(L(s))
      <3>1. /\ n \in Nat /\ Len(L(t)) = n + 1 /\ L(t)[n + 1] = g
            /\ \A i \in 1 .. n : L(t)[i] = L(s)[i]
        BY <2>1, <2>2, <2>9
      <3>2. \A i \in 1 .. n : L(s)[i].id # g.id
        BY <2>3, <2>5
      <3> SUFFICES ASSUME NEW i \in 1 .. n + 1, NEW j \in 1 .. n + 1, L(t)[i].id = L(t)[j].id
                   PROVE  i = j
        BY <3>1 DEF Distinct
      <3> HIDE DEF n
      <3>3. CASE i \in 1 .. n /\ j \in 1 .. n
        BY <2>7, <3>1, <3>3 DEF Distinct, n
      <3>4. CASE i = n + 1 /\ j \in 1 .. n
        BY <3>1, <3>2, <3>4
      <3>5. CASE i \in 1 .. n /\ j = n + 1
        BY <3>1, <3>2, <3>5
      <3>6. CASE i = n + 1 /\ j = n + 1
        BY <3>6
      <3>7. (i \in 1 .. n \/ i = n + 1) /\ (j \in 1 .. n \/ j = n + 1)
        BY <3>1
      <3> QED BY <3>3, <3>4, <3>5, <3>6, <3>7
    <2> QED BY <2>8, <2>9
  <1> HIDE DEF S
  <1>3. x \in S
    BY <1>1, <1>2, AllSequences
  <1> QED BY <1>3 DEF S

(* Different groups have as many numbers.                                    *)
LEMMA IdsCounted ==
    ASSUME NEW s \in Seq(Groups)
    PROVE  /\ IsFiniteSet(Ids(s))
           /\ Distinct(s) => Cardinality(Ids(s)) = Len(s)
  <1> DEFINE n == Len(s)
             f == [i \in 1 .. n |-> s[i].id]
             T == Ids(s)
  <1>1. n \in Nat /\ DOMAIN s = 1 .. n
    OBVIOUS
  <1>2. T = {s[i].id : i \in 1 .. n}
    BY <1>1 DEF Ids
  <1>3. f \in Surjection(1 .. n, T)
    <2> HIDE DEF n, T
    <2> QED BY <1>2 DEF Surjection
  <1>4. IsFiniteSet(1 .. n) /\ Cardinality(1 .. n) = n
    <2>1. 1 \in Int /\ n \in Int /\ (IF 1 > n THEN 0 ELSE n - 1 + 1) = n
      BY <1>1
    <2> HIDE DEF n
    <2> QED BY <2>1, FS_Interval
  <1> HIDE DEF f, T, n
  <1>5. IsFiniteSet(T) /\ (Cardinality(T) = Cardinality(1 .. n) <=> f \in Injection(1 .. n, T))
    BY <1>3, <1>4, FS_Surjection, Zenon
  <1>6. ASSUME Distinct(s) PROVE f \in Injection(1 .. n, T)
    <2>1. f \in [1 .. n -> T]
      BY <1>3 DEF Surjection
    <2>2. \A i, j \in 1 .. n : f[i] = f[j] => i = j
      BY <1>6 DEF Distinct, f, n
    <2> QED BY <2>1, <2>2 DEF Injection, IsInjective
  <1> QED BY <1>4, <1>5, <1>6 DEF T, n

(* One group more, or one less, that is seen or is to be seen, moves the    *)
(* count by one at most.                                                    *)
LEMMA DriftMore ==
    ASSUME NEW T, IsFiniteSet(T), NEW U, NEW V, U \subseteq V,
           NEW m \in Nat, NEW n \in Nat, n <= m + 1
    PROVE  /\ Drift(T, U, m) \in Int /\ Drift(T, V, n) \in Int
           /\ Drift(T, V, n) <= Drift(T, U, m) + 1
  <1>1. /\ T \ U \in SUBSET T /\ T \cap U \in SUBSET T
        /\ T \ V \in SUBSET (T \ U) /\ T \cap U \in SUBSET (T \cap V) /\ T \cap V \in SUBSET T
    OBVIOUS
  <1>2. IsFiniteSet(T \ U) /\ IsFiniteSet(T \cap U) /\ IsFiniteSet(T \cap V)
    BY <1>1, FS_Subset
  <1>3. IsFiniteSet(T \ V) /\ Cardinality(T \ V) <= Cardinality(T \ U)
        /\ Cardinality(T \cap U) <= Cardinality(T \cap V)
    BY <1>1, <1>2, FS_Subset
  <1>4. /\ Cardinality(T \ U) \in Nat /\ Cardinality(T \ V) \in Nat
        /\ Cardinality(T \cap U) \in Nat /\ Cardinality(T \cap V) \in Nat
    BY <1>2, <1>3, FS_CardinalityType
  <1> DEFINE a == Cardinality(T \ U)
             b == Cardinality(T \ V)
             c == Cardinality(T \cap U)
             d == Cardinality(T \cap V)
  <1>5. a \in Nat /\ b \in Nat /\ c \in Nat /\ d \in Nat /\ b <= a /\ c <= d
    BY <1>3, <1>4
  <1>6. Drift(T, U, m) = a + m - c /\ Drift(T, V, n) = b + n - d
    BY DEF Drift
  <1> HIDE DEF a, b, c, d
  <1>7. a + m - c \in Int /\ b + n - d \in Int /\ b + n - d <= (a + m - c) + 1
    BY <1>5
  <1> QED BY <1>6, <1>7

(* One group less to count moves the drift by one at most.                   *)
LEMMA DriftLess ==
    ASSUME NEW T, IsFiniteSet(T), NEW U, NEW V, NEW x, V \subseteq U, U \subseteq V \cup {x},
           NEW m \in Nat, NEW n \in Nat, n <= m - 1
    PROVE  Drift(T, V, n) <= Drift(T, U, m) + 1
  <1>1. /\ T \ U \in SUBSET T /\ T \cap V \in SUBSET T
        /\ T \ V \in SUBSET ((T \ U) \cup {x}) /\ T \cap U \in SUBSET ((T \cap V) \cup {x})
    OBVIOUS
  <1>2. IsFiniteSet(T \ U) /\ IsFiniteSet(T \cap V)
    BY <1>1, FS_Subset
  <1>3. /\ IsFiniteSet((T \ U) \cup {x}) /\ IsFiniteSet((T \cap V) \cup {x})
        /\ Cardinality((T \ U) \cup {x}) =
              IF x \in T \ U THEN Cardinality(T \ U) ELSE Cardinality(T \ U) + 1
        /\ Cardinality((T \cap V) \cup {x}) =
              IF x \in T \cap V THEN Cardinality(T \cap V) ELSE Cardinality(T \cap V) + 1
    BY <1>2, FS_AddElement, Zenon
  <1>4. /\ IsFiniteSet(T \ V) /\ Cardinality(T \ V) <= Cardinality((T \ U) \cup {x})
        /\ IsFiniteSet(T \cap U) /\ Cardinality(T \cap U) <= Cardinality((T \cap V) \cup {x})
    BY <1>1, <1>3, FS_Subset, Zenon
  <1>5. /\ Cardinality(T \ U) \in Nat /\ Cardinality(T \ V) \in Nat
        /\ Cardinality(T \cap U) \in Nat /\ Cardinality(T \cap V) \in Nat
    BY <1>2, <1>4, FS_CardinalityType
  <1> DEFINE a == Cardinality(T \ U)
             b == Cardinality(T \ V)
             c == Cardinality(T \cap U)
             d == Cardinality(T \cap V)
             e == Cardinality((T \ U) \cup {x})
             f == Cardinality((T \cap V) \cup {x})
  <1>6. (e = a \/ e = a + 1) /\ (f = d \/ f = d + 1) /\ b <= e /\ c <= f
    BY <1>3, <1>4, Zenon
  <1>7. a \in Nat /\ b \in Nat /\ c \in Nat /\ d \in Nat
    BY <1>5
  <1>8. Drift(T, U, m) = a + m - c /\ Drift(T, V, n) = b + n - d
    BY DEF Drift
  <1> HIDE DEF a, b, c, d, e, f
  <1>9. b <= a + 1 /\ c <= d + 1
    BY <1>6, <1>7
  <1>10. b + n - d <= (a + m - c) + 1
    BY <1>7, <1>9
  <1> QED BY <1>8, <1>10

(* A group more in the list is one more that is left, or none; and the      *)
(* other way round.                                                         *)
OneApart(a, b, k) ==
    /\ Left(a, k) \subseteq Left(b, k)
    /\ Rest(a, k) \in Nat /\ Rest(b, k) \in Nat /\ Rest(b, k) <= Rest(a, k) + 1
    /\ \/ Left(b, k) = Left(a, k) /\ Rest(b, k) = Rest(a, k)
       \/ (\E x : Left(b, k) \subseteq Left(a, k) \cup {x}) /\ Rest(a, k) <= Rest(b, k) - 1

(* A group inserted adds one to what is left, or shifts it by one.           *)
LEMMA InsertedLeft ==
    ASSUME NEW a \in Seq(Groups), NEW b \in Seq(Groups), NEW g, NEW i \in 1 .. Len(b),
           Inserted(a, b, i, g), NEW k \in Nat
    PROVE  OneApart(a, b, k)
  <1> DEFINE n == Len(a)
  <1>1. /\ n \in Nat /\ Len(b) = n + 1 /\ i \in 1 .. n + 1
        /\ \A j \in 1 .. n : j < i => b[j] = a[j]
        /\ \A j \in 1 .. n : j >= i => b[j + 1] = a[j]
    BY DEF Inserted
  <1>2. Left(a, k) = {a[j].id : j \in k + 1 .. n} /\ Left(b, k) = {b[j].id : j \in k + 1 .. n + 1}
    BY <1>1 DEF Left
  <1>3. /\ Rest(a, k) = (IF k < n THEN n - k ELSE 0)
        /\ Rest(b, k) = (IF k < n + 1 THEN n + 1 - k ELSE 0)
    BY <1>1 DEF Rest
  <1> HIDE DEF n
  <1>4. Rest(a, k) \in Nat /\ Rest(b, k) \in Nat /\ Rest(b, k) <= Rest(a, k) + 1
    BY <1>1, <1>3
  <1>5. ASSUME NEW j \in k + 1 .. n PROVE a[j].id \in Left(b, k)
    <2>1. j \in 1 .. n /\ j \in k + 1 .. n + 1 /\ j + 1 \in k + 1 .. n + 1
      BY <1>1
    <2>2. CASE j < i
      BY <1>1, <1>2, <2>1, <2>2
    <2>3. CASE j >= i
      BY <1>1, <1>2, <2>1, <2>3
    <2> QED BY <1>1, <2>2, <2>3
  <1>6. Left(a, k) \subseteq Left(b, k)
    BY <1>2, <1>5
  <1>7. CASE k > n
    <2>1. k + 1 .. n = {} /\ k + 1 .. n + 1 = {}
      BY <1>1, <1>7
    <2>2. Left(a, k) = {} /\ Left(b, k) = {}
      BY <1>2, <2>1
    <2>3. Rest(a, k) = Rest(b, k)
      BY <1>1, <1>3, <1>7
    <2> QED BY <1>4, <1>6, <2>2, <2>3 DEF OneApart
  <1>8. CASE k <= n
    <2>1. Rest(a, k) <= Rest(b, k) - 1
      BY <1>1, <1>3, <1>8
    <2> DEFINE e == IF i > k THEN i ELSE k + 1
               x == b[e].id
    <2>2. ASSUME NEW j \in k + 1 .. n + 1 PROVE b[j].id \in Left(a, k) \cup {x}
      <3>1. CASE j = e
        BY <3>1
      <3>2. CASE j # e /\ j < i
        <4>1. j \in 1 .. n /\ j \in k + 1 .. n
          BY <1>1, <3>2
        <4>2. b[j] = a[j]
          BY <1>1, <3>2, <4>1
        <4> QED BY <1>2, <4>1, <4>2
      <3>3. CASE j # e /\ j >= i
        <4>1. j - 1 \in 1 .. n /\ j - 1 \in k + 1 .. n /\ j - 1 >= i /\ (j - 1) + 1 = j
          BY <1>1, <3>3
        <4>2. b[(j - 1) + 1] = a[j - 1]
          BY <1>1, <4>1
        <4> QED BY <1>2, <4>1, <4>2
      <3>4. j < i \/ j >= i
        BY <1>1
      <3> QED BY <3>1, <3>2, <3>3, <3>4
    <2>3. Left(b, k) \subseteq Left(a, k) \cup {x}
      <3> HIDE DEF x
      <3> QED BY <1>2, <2>2
    <2> QED BY <1>4, <1>6, <2>1, <2>3 DEF OneApart
  <1>9. k > n \/ k <= n
    BY <1>1
  <1> QED BY <1>7, <1>8, <1>9

(* What a page counts is no longer left.                                    *)
LEMMA PageLeft ==
    ASSUME NEW list \in Seq(Groups), NEW p \in Nat \ {0},
           NEW ids, ids = [i \in DOMAIN PageOf(list, p) |-> PageOf(list, p)[i].id]
    PROVE  /\ ids \in Seq(Int)
           /\ Range(ids) \cup Left(list, Before(p + 1)) = Left(list, Before(p))
           /\ Len(ids) + Rest(list, Before(p + 1)) = Rest(list, Before(p))
  <1> DEFINE k == Before(p)
             n == Len(list)
             q == PageOf(list, p)
             m == Len(q)
  <1>1. k \in Nat /\ n \in Nat /\ PageSize \in Nat \ {0} /\ Before(p + 1) = k + PageSize
    <2>1. n \in Nat /\ p \in Nat \ {0}
      OBVIOUS
    <2> HIDE DEF n
    <2> QED BY <2>1, BeforeNext, Zenon
  <1>2. /\ q \in Seq(Groups)
        /\ m = IF k <= n THEN Until(list, k + PageSize) - k ELSE 0
        /\ \A i \in 1 .. m : q[i] = list[k + i]
    BY PageIs
  <1>3. m \in Nat /\ DOMAIN q = 1 .. m
    BY <1>2
  <1> HIDE DEF k, q
  <1>4. m = IF k <= n THEN (IF k + PageSize <= n THEN PageSize ELSE n - k) ELSE 0
    BY <1>1, <1>2 DEF Until
  <1> HIDE DEF m
  <1>5. ids = [i \in 1 .. m |-> list[k + i].id]
    <2>1. ids = [i \in 1 .. m |-> q[i].id]
      BY <1>3 DEF q
    <2> QED BY <1>2, <2>1
  <1> HIDE DEF n
  <1>6. \A i \in 1 .. m : k + i \in 1 .. n /\ k + i \in k + 1 .. n
    BY <1>1, <1>3, <1>4
  <1>7. ids \in Seq(Int) /\ Len(ids) = m
    <2>1. \A i \in 1 .. n : list[i].id \in Int
      <3>1. \A i \in 1 .. n : list[i] \in Groups
        BY DEF n
      <3> QED BY <3>1 DEF Groups
    <2>2. ids \in [1 .. m -> Int]
      BY <1>5, <1>6, <2>1
    <2> QED BY <1>3, <2>2, SequenceOf
  <1>8. Len(ids) + Rest(list, k + PageSize) = Rest(list, k)
    <2>1. /\ Rest(list, k + PageSize) = (IF k + PageSize < n THEN n - (k + PageSize) ELSE 0)
          /\ Rest(list, k) = (IF k < n THEN n - k ELSE 0)
      BY DEF Rest, n
    <2> QED BY <1>1, <1>3, <1>4, <1>7, <2>1
  <1>9. Range(ids) = {list[k + i].id : i \in 1 .. m}
    BY <1>5 DEF Range
  <1>10. /\ Left(list, k) = {list[i].id : i \in k + 1 .. n}
         /\ Left(list, k + PageSize) = {list[i].id : i \in (k + PageSize) + 1 .. n}
    BY DEF Left, n
  <1>11. Range(ids) \cup Left(list, k + PageSize) = Left(list, k)
    <2>1. Range(ids) \subseteq Left(list, k)
      BY <1>6, <1>9, <1>10
    <2>2. Left(list, k + PageSize) \subseteq Left(list, k)
      <3>1. \A i \in (k + PageSize) + 1 .. n : i \in k + 1 .. n
        BY <1>1
      <3> QED BY <1>10, <3>1
    <2>3. ASSUME NEW i \in k + 1 .. n PROVE list[i].id \in Range(ids) \cup Left(list, k + PageSize)
      <3>1. CASE i - k <= m
        <4>1. i - k \in 1 .. m /\ k + (i - k) = i
          BY <1>1, <1>3, <3>1
        <4> QED BY <1>9, <4>1
      <3>2. CASE i - k > m
        <4>1. i \in (k + PageSize) + 1 .. n
          BY <1>1, <1>3, <1>4, <3>2
        <4> QED BY <1>10, <4>1
      <3>3. i - k <= m \/ i - k > m
        BY <1>1, <1>3
      <3> QED BY <3>1, <3>2, <3>3
    <2>4. Left(list, k) \subseteq Range(ids) \cup Left(list, k + PageSize)
      BY <1>10, <2>3
    <2> QED BY <2>1, <2>2, <2>4
  <1> QED BY <1>1, <1>7, <1>8, <1>11 DEF k, n

(* At first all are left, and behind the last page none.                    *)
LEMMA AllLeft ==
    ASSUME NEW list \in Seq(Groups)
    PROVE  /\ Left(list, 0) = Ids(list) /\ Rest(list, 0) = Len(list)
           /\ \A k \in Nat : k >= Len(list) => Left(list, k) = {} /\ Rest(list, k) = 0
  <1> DEFINE n == Len(list)
  <1>1. n \in Nat /\ DOMAIN list = 1 .. n
    OBVIOUS
  <1>2. Left(list, 0) = Ids(list)
    <2>1. 0 + 1 .. Len(list) = DOMAIN list
      BY <1>1
    <2> QED BY <2>1 DEF Left, Ids
  <1>3. Rest(list, 0) = Len(list)
    <2> HIDE DEF n
    <2>1. Rest(list, 0) = IF 0 < n THEN n - 0 ELSE 0
      BY DEF Rest, n
    <2>2. Rest(list, 0) = n
      BY <1>1, <2>1
    <2> QED BY <2>2 DEF n
  <1>4. ASSUME NEW k \in Nat, k >= n PROVE Left(list, k) = {} /\ Rest(list, k) = 0
    <2>1. k + 1 .. n = {} /\ ~(k < n)
      BY <1>1, <1>4
    <2> QED BY <2>1 DEF Left, Rest
  <1> QED BY <1>2, <1>3, <1>4

(* Two sequences hold together what each of them holds.                      *)
LEMMA RangeConcat ==
    ASSUME NEW A, NEW s \in Seq(A), NEW t \in Seq(A)
    PROVE  Range(s \o t) = Range(s) \cup Range(t) /\ Len(s \o t) = Len(s) + Len(t)
  <1> DEFINE q == s \o t
             m == Len(s)
             n == Len(t)
  <1>1. /\ m \in Nat /\ n \in Nat /\ Len(q) = m + n
        /\ DOMAIN s = 1 .. m /\ DOMAIN t = 1 .. n /\ DOMAIN q = 1 .. m + n
        /\ \A i \in 1 .. m : q[i] = s[i]
        /\ \A i \in 1 .. n : q[m + i] = t[i]
    OBVIOUS
  <1> HIDE DEF q, m, n
  <1>2. \A i \in 1 .. m : i \in 1 .. m + n
    BY <1>1
  <1>3. \A i \in 1 .. n : m + i \in 1 .. m + n
    BY <1>1
  <1>4. \A i \in 1 .. m + n : i \in 1 .. m \/ (i - m \in 1 .. n /\ m + (i - m) = i)
    BY <1>1
  <1>5. Range(q) = Range(s) \cup Range(t)
    <2>1. Range(s) \subseteq Range(q)
      BY <1>1, <1>2 DEF Range
    <2>2. Range(t) \subseteq Range(q)
      BY <1>1, <1>3 DEF Range
    <2>3. ASSUME NEW i \in 1 .. m + n PROVE q[i] \in Range(s) \cup Range(t)
      <3>1. CASE i \in 1 .. m
        BY <1>1, <3>1 DEF Range
      <3>2. CASE i - m \in 1 .. n /\ m + (i - m) = i
        <4>1. q[i] = t[i - m]
          BY <1>1, <3>2
        <4> QED BY <1>1, <3>2, <4>1 DEF Range
      <3> QED BY <1>4, <3>1, <3>2
    <2>4. Range(q) \subseteq Range(s) \cup Range(t)
      BY <1>1, <2>3 DEF Range
    <2> QED BY <2>1, <2>2, <2>4
  <1> QED BY <1>1, <1>5 DEF q, m, n

----------------------------------------------------------------------------
(* What a change of the ledger does to it, and to the list.                 *)
LEMMA CutAt ==
    ASSUME NEW A, NEW l \in Seq(A), NEW k \in 0 .. Len(l)
    PROVE  /\ SubSeq(l, 1, k) \in Seq(A) /\ SubSeq(l, k + 1, Len(l)) \in Seq(A)
           /\ Len(SubSeq(l, 1, k)) = k
           /\ l = SubSeq(l, 1, k) \o SubSeq(l, k + 1, Len(l))
  <1> DEFINE p == SubSeq(l, 1, k)
             q == SubSeq(l, k + 1, Len(l))
  <1>1. p \in Seq(A) /\ Len(p) = k /\ \A j \in 1 .. k : p[j] = l[j]
    OBVIOUS
  <1>2. q \in Seq(A) /\ Len(q) = Len(l) - k /\ \A j \in 1 .. Len(l) - k : q[j] = l[k + j]
    <2>1. k + 1 \in 1 .. Len(l) + 1 /\ Len(l) \in Nat /\ k \in Nat
      OBVIOUS
    <2>2. \A j \in k + 1 .. Len(l) : l[j] \in A
      BY <2>1
    <2> QED BY <2>1, <2>2
  <1> HIDE DEF p, q
  <1>3. l = p \o q
    <2>1. p \o q \in Seq(A) /\ Len(p \o q) = Len(l) /\ Len(l) \in Nat
      BY <1>1, <1>2
    <2>2. ASSUME NEW j \in 1 .. Len(l) PROVE (p \o q)[j] = l[j]
      <3>1. CASE j <= k
        <4>1. j \in 1 .. k
          BY <3>1
        <4> QED BY <1>1, <1>2, <4>1
      <3>2. CASE j > k
        <4>1. j - k \in 1 .. Len(l) - k /\ k + (j - k) = j
          BY <3>2
        <4>2. (p \o q)[j] = q[j - k]
          BY <1>1, <1>2, <3>2
        <4> QED BY <1>2, <4>1, <4>2
      <3>3. j <= k \/ j > k
        OBVIOUS
      <3> QED BY <3>1, <3>2, <3>3
    <2> DEFINE r == p \o q
    <2> HIDE DEF r
    <2>3. r = l
      BY <2>1, <2>2, SeqEqual DEF r
    <2> QED BY <2>3 DEF r
  <1> QED BY <1>1, <1>2, <1>3 DEF p, q

(* InsertAt inserts.                                                         *)
LEMMA InsertIs ==
    ASSUME NEW l \in Seq(Groups), NEW i \in 1 .. Len(l) + 1, NEW g \in Groups
    PROVE  /\ InsertAt(l, i, g) \in Seq(Groups)
           /\ Inserted(l, InsertAt(l, i, g), i, g)
           /\ \E x, y \in Seq(Groups) : l = x \o y /\ InsertAt(l, i, g) = (x \o <<g>>) \o y
  <1> DEFINE x == SubSeq(l, 1, i - 1)
             y == SubSeq(l, i, Len(l))
             r == InsertAt(l, i, g)
  <1>1. x \in Seq(Groups) /\ Len(x) = i - 1
    OBVIOUS
  <1>2. y \in Seq(Groups) /\ l = x \o y
    <2>1. i - 1 \in 0 .. Len(l) /\ (i - 1) + 1 = i
      OBVIOUS
    <2>2. SubSeq(l, (i - 1) + 1, Len(l)) \in Seq(Groups) /\ l = x \o SubSeq(l, (i - 1) + 1, Len(l))
      BY <2>1, CutAt
    <2> QED BY <2>1, <2>2
  <1>3. r = (x \o <<g>>) \o y
    BY DEF InsertAt
  <1> HIDE DEF x, y, r
  <1>4. r \in Seq(Groups) /\ Inserted(x \o y, (x \o <<g>>) \o y, Len(x) + 1, g)
    BY <1>1, <1>2, <1>3, InsertedBetween
  <1>5. Len(x) + 1 = i
    BY <1>1
  <1> QED BY <1>1, <1>2, <1>3, <1>4, <1>5 DEF r

(* RemoveAt undoes an insertion.                                             *)
LEMMA RemoveIs ==
    ASSUME NEW l \in Seq(Groups), NEW i \in 1 .. Len(l)
    PROVE  /\ RemoveAt(l, i) \in Seq(Groups) /\ l[i] \in Groups
           /\ Inserted(RemoveAt(l, i), l, i, l[i])
           /\ \E x, y \in Seq(Groups) : RemoveAt(l, i) = x \o y /\ l = (x \o <<l[i]>>) \o y
  <1> DEFINE x == SubSeq(l, 1, i - 1)
             y == SubSeq(l, i + 1, Len(l))
             r == RemoveAt(l, i)
             g == l[i]
  <1>1. x \in Seq(Groups) /\ Len(x) = i - 1 /\ g \in Groups
    OBVIOUS
  <1>2. y \in Seq(Groups) /\ l = (x \o <<g>>) \o y
    <2>1. i \in 0 .. Len(l)
      OBVIOUS
    <2>2. y \in Seq(Groups) /\ l = SubSeq(l, 1, i) \o y
      BY <2>1, CutAt
    <2>3. SubSeq(l, 1, i) = x \o <<g>>
      <3> HIDE DEF y
      <3> QED OBVIOUS
    <2> QED BY <2>2, <2>3
  <1>3. r = x \o y
    BY DEF RemoveAt
  <1> HIDE DEF x, y, r, g
  <1>4. r \in Seq(Groups) /\ Inserted(x \o y, (x \o <<g>>) \o y, Len(x) + 1, g)
    BY <1>1, <1>2, <1>3, InsertedBetween
  <1>5. Len(x) + 1 = i
    BY <1>1
  <1>6. Inserted(r, l, i, g)
    BY <1>2, <1>3, <1>4, <1>5
  <1> QED BY <1>1, <1>2, <1>3, <1>4, <1>6 DEF r, g

(* A group with a number of its own leaves the numbers apart.               *)
Joined(a, b, g) ==
    /\ Distinct(b)
    /\ \A j \in 1 .. Len(b) : b[j] = g \/ \E m \in 1 .. Len(a) : b[j] = a[m]

Unlike(a, g) == \A j \in 1 .. Len(a) : a[j].id # g.id

LEMMA InsertedDistinct ==
    ASSUME NEW a \in Seq(Groups), NEW b \in Seq(Groups), NEW g, NEW i \in 1 .. Len(b),
           Inserted(a, b, i, g), Distinct(a), Unlike(a, g)
    PROVE  Joined(a, b, g)
  <1> DEFINE n == Len(a)
             from(j) == IF j < i THEN j ELSE j - 1
  <1>1. /\ n \in Nat /\ Len(b) = n + 1 /\ i \in 1 .. n + 1 /\ b[i] = g
        /\ \A j \in 1 .. n : j < i => b[j] = a[j]
        /\ \A j \in 1 .. n : j >= i => b[j + 1] = a[j]
    BY DEF Inserted
  <1> HIDE DEF n
  <1>2. ASSUME NEW j \in 1 .. n + 1, j # i PROVE from(j) \in 1 .. n /\ b[j] = a[from(j)]
    <2>1. CASE j < i
      <3>1. j \in 1 .. n
        BY <1>1, <2>1
      <3> QED BY <1>1, <2>1, <3>1
    <2>2. CASE ~(j < i)
      <3>1. j - 1 \in 1 .. n /\ j - 1 >= i /\ (j - 1) + 1 = j
        BY <1>1, <1>2, <2>2
      <3>2. b[(j - 1) + 1] = a[j - 1]
        BY <1>1, <3>1
      <3> QED BY <2>2, <3>1, <3>2
    <2> QED BY <2>1, <2>2
  <1>3. \A j, k \in 1 .. n + 1 : j # i /\ k # i /\ from(j) = from(k) => j = k
    BY <1>1
  <1> HIDE DEF from
  <1>4. ASSUME NEW j \in 1 .. n + 1, NEW k \in 1 .. n + 1, b[j].id = b[k].id PROVE j = k
    <2>1. CASE j # i /\ k # i
      <3>1. from(j) \in 1 .. n /\ from(k) \in 1 .. n /\ a[from(j)].id = a[from(k)].id
        BY <1>2, <1>4, <2>1
      <3>2. from(j) = from(k)
        BY <3>1 DEF Distinct, n
      <3> QED BY <1>3, <2>1, <3>2
    <2>2. CASE j = i /\ k # i
      <3>1. a[from(k)].id # g.id
        BY <1>2, <2>2 DEF Unlike, n
      <3> QED BY <1>1, <1>2, <1>4, <2>2, <3>1
    <2>3. CASE j # i /\ k = i
      <3>1. a[from(j)].id # g.id
        BY <1>2, <2>3 DEF Unlike, n
      <3> QED BY <1>1, <1>2, <1>4, <2>3, <3>1
    <2> QED BY <2>1, <2>2, <2>3
  <1>5. Distinct(b)
    BY <1>1, <1>4 DEF Distinct
  <1>6. \A j \in 1 .. n + 1 : b[j] = g \/ \E m \in 1 .. n : b[j] = a[m]
    BY <1>1, <1>2
  <1> QED BY <1>1, <1>5, <1>6 DEF Joined, n

(* Without a group the others stay sorted and apart.                         *)
LEMMA InsertedBack ==
    ASSUME NEW a \in Seq(Groups), NEW b \in Seq(Groups), NEW g, NEW i \in 1 .. Len(b),
           Inserted(a, b, i, g), Distinct(b), Sorted(b)
    PROVE  /\ Distinct(a) /\ Sorted(a)
           /\ \A j \in 1 .. Len(a) : \E m \in 1 .. Len(b) : a[j] = b[m]
  <1> DEFINE n == Len(a)
             to(j) == IF j < i THEN j ELSE j + 1
  <1>1. /\ n \in Nat /\ Len(b) = n + 1 /\ i \in 1 .. n + 1
        /\ \A j \in 1 .. n : j < i => b[j] = a[j]
        /\ \A j \in 1 .. n : j >= i => b[j + 1] = a[j]
        /\ DOMAIN a = 1 .. n /\ DOMAIN b = 1 .. n + 1
    BY DEF Inserted
  <1> HIDE DEF n
  <1>2. ASSUME NEW j \in 1 .. n PROVE to(j) \in 1 .. n + 1 /\ a[j] = b[to(j)]
    <2>1. CASE j < i
      BY <1>1, <2>1
    <2>2. CASE ~(j < i)
      <3>1. j >= i
        BY <1>1, <2>2
      <3> QED BY <1>1, <2>2, <3>1
    <2> QED BY <2>1, <2>2
  <1>3. \A j, k \in 1 .. n : (to(j) = to(k) => j = k) /\ (j < k => to(j) < to(k))
    BY <1>1
  <1> HIDE DEF to
  <1>4. Distinct(a)
    <2> SUFFICES ASSUME NEW j \in 1 .. n, NEW k \in 1 .. n, a[j].id = a[k].id PROVE j = k
      BY DEF Distinct, n
    <2>1. to(j) = to(k)
      BY <1>1, <1>2 DEF Distinct
    <2> QED BY <1>3, <2>1
  <1>5. Sorted(a)
    <2> SUFFICES ASSUME NEW j \in 1 .. n, NEW k \in 1 .. n, j < k
                 PROVE  \/ a[j].date > a[k].date
                        \/ a[j].date = a[k].date /\ a[j].id > a[k].id
      BY <1>1 DEF Sorted
    <2>1. to(j) \in DOMAIN b /\ to(k) \in DOMAIN b /\ to(j) < to(k) /\ a[j] = b[to(j)] /\ a[k] = b[to(k)]
      BY <1>1, <1>2, <1>3
    <2> QED BY <2>1 DEF Sorted
  <1> QED BY <1>1, <1>2, <1>4, <1>5 DEF n

(* A change moves the count of the groups by one at most.                   *)
OneOff(T, R, m, k, a, b) ==
    /\ Drift(T, R \cup Left(a, k), m + Rest(a, k)) \in Int
    /\ Drift(T, R \cup Left(b, k), m + Rest(b, k)) \in Int
    /\ Drift(T, R \cup Left(b, k), m + Rest(b, k))
          <= Drift(T, R \cup Left(a, k), m + Rest(a, k)) + 1
    /\ Drift(T, R \cup Left(a, k), m + Rest(a, k))
          <= Drift(T, R \cup Left(b, k), m + Rest(b, k)) + 1

LEMMA ChangeDrifts ==
    ASSUME NEW x \in Seq(Groups), NEW y \in Seq(Groups), NEW g \in Groups, NEW account, NEW day,
           NEW T, IsFiniteSet(T), NEW R, NEW m \in Nat, NEW k \in Nat,
           NEW a, a = Listed(x \o y, account, day),
           NEW b, b = Listed((x \o <<g>>) \o y, account, day)
    PROVE  OneOff(T, R, m, k, a, b)
  <1> DEFINE U == R \cup Left(a, k)
             V == R \cup Left(b, k)
             u == m + Rest(a, k)
             v == m + Rest(b, k)
  <1>1. a \in Seq(Groups) /\ b \in Seq(Groups)
    <2>1. x \o y \in Seq(Groups) /\ (x \o <<g>>) \o y \in Seq(Groups)
      OBVIOUS
    <2> QED BY <2>1, ListedType, Zenon
  <1>2. b = a \/ \E i \in 1 .. Len(b) : Inserted(a, b, i, g)
    BY ListedInserted, Zenon
  <1>3. CASE b = a
    <2>1. Rest(a, k) \in Nat
      <3>1. Len(a) \in Nat
        BY <1>1
      <3> QED BY <3>1 DEF Rest
    <2>2. u \in Nat /\ u <= u + 1
      BY <2>1
    <2> HIDE DEF U, u
    <2>3. Drift(T, U, u) \in Int /\ Drift(T, U, u) <= Drift(T, U, u) + 1
      BY <2>2, DriftMore
    <2> QED BY <1>3, <2>3 DEF OneOff, U, u
  <1>4. ASSUME NEW i \in 1 .. Len(b), Inserted(a, b, i, g)
        PROVE  /\ Drift(T, U, u) \in Int /\ Drift(T, V, v) \in Int
               /\ Drift(T, V, v) <= Drift(T, U, u) + 1 /\ Drift(T, U, u) <= Drift(T, V, v) + 1
    <2>1. /\ Left(a, k) \subseteq Left(b, k)
          /\ Rest(a, k) \in Nat /\ Rest(b, k) \in Nat /\ Rest(b, k) <= Rest(a, k) + 1
          /\ \/ Left(b, k) = Left(a, k) /\ Rest(b, k) = Rest(a, k)
             \/ (\E z : Left(b, k) \subseteq Left(a, k) \cup {z}) /\ Rest(a, k) <= Rest(b, k) - 1
      <3>1. OneApart(a, b, k)
        BY <1>1, <1>4, InsertedLeft, Zenon
      <3> QED BY <3>1 DEF OneApart
    <2>2. u \in Nat /\ v \in Nat /\ v <= u + 1 /\ U \subseteq V
      <3>1. U \subseteq V
        BY <2>1
      <3>2. Rest(a, k) \in Nat /\ Rest(b, k) \in Nat /\ Rest(b, k) <= Rest(a, k) + 1
        BY <2>1
      <3> QED BY <3>1, <3>2
    <2>3. \/ U = V /\ u = v
          \/ (\E z : V \subseteq U \cup {z}) /\ u <= v - 1
      <3>1. (\E z : Left(b, k) \subseteq Left(a, k) \cup {z}) => \E z : V \subseteq U \cup {z}
        OBVIOUS
      <3>2. Rest(a, k) <= Rest(b, k) - 1 => u <= v - 1
        BY <2>1
      <3> QED BY <2>1, <3>1, <3>2
    <2> HIDE DEF U, V, u, v
    <2>4. Drift(T, U, u) \in Int /\ Drift(T, V, v) \in Int /\ Drift(T, V, v) <= Drift(T, U, u) + 1
      BY <2>2, DriftMore
    <2>5. CASE U = V /\ u = v
      BY <2>4, <2>5
    <2>6. ASSUME NEW z, V \subseteq U \cup {z}, u <= v - 1
          PROVE  Drift(T, U, u) <= Drift(T, V, v) + 1
      BY <2>2, <2>6, DriftLess
    <2> QED BY <2>3, <2>4, <2>5, <2>6
  <1> QED BY <1>2, <1>3, <1>4 DEF OneOff
----------------------------------------------------------------------------
(* The invariant holds at first.                                            *)
LEMMA FirstPage == 1 \in 1 .. (MaxGroups + MaxChanges + PageSize - 1) \div PageSize + 1
  <1>1. PageSize \in Nat \ {0} /\ MaxGroups + MaxChanges + PageSize - 1 \in Nat
    BY BalanceAssumption
  <1>2. \A x \in Nat, s \in Nat \ {0} : x \div s \in Nat
    BY Z3
  <1>3. (MaxGroups + MaxChanges + PageSize - 1) \div PageSize \in Nat
    BY <1>1, <1>2
  <1>4. \A n \in Nat : 1 \in 1 .. n + 1
    OBVIOUS
  <1> QED BY <1>3, <1>4

(* A written amount has its type.                                            *)
LEMMA ReportTyped ==
    ASSUME NEW n \in Int, NEW r, r = FormatMinor(n)
    PROVE  r.neg \in BOOLEAN /\ r.whole \in Nat /\ r.frac \in [1 .. 2 -> 0 .. 9]
  BY FormatType

(* The ledger is numbered at first, and nothing is read.                     *)
LEMMA InitInv ==
    ASSUME Init
    PROVE  IInv
  <1> USE BalanceAssumption
  <1>0. PICK n \in 0 .. MaxGroups : \E splits \in [1 .. n -> Shapes], days \in [1 .. n -> Days] :
            ledger = [i \in 1 .. n |-> Group(n + 1 - i, splits[i], days[i])] /\ Sorted(ledger)
    BY DEF Init
  <1>1. PICK splits \in [1 .. n -> Shapes], days \in [1 .. n -> Days] :
            ledger = [i \in 1 .. n |-> Group(n + 1 - i, splits[i], days[i])] /\ Sorted(ledger)
    BY <1>0
  <1>2. /\ pc = "ping" /\ mail = <<>> /\ latest = NoNotice
        /\ page = 1 /\ total = 0 /\ report = FormatMinor(0)
        /\ counted = <<>> /\ start = <<>> /\ changes = 0
    BY DEF Init
  <1>3. /\ \A i \in 1 .. n : ledger[i] \in Groups /\ ledger[i].id = n + 1 - i
        /\ n \in Nat /\ n <= MaxGroups
    BY <1>1 DEF Group, Groups
  <1>4. ledger \in Seq(Groups) /\ Len(ledger) = n /\ DOMAIN ledger = 1 .. n
    <2>1. ledger \in [1 .. n -> Groups]
      BY <1>1, <1>3
    <2>2. ledger \in Seq(Groups) /\ Len(ledger) = n
      BY <1>3, <2>1, SequenceOf
    <2> QED BY <2>1, <2>2
  <1>5. <<>> \in Seq(Groups) /\ <<>> \in Seq(Int)
    OBVIOUS
  <1>6. Numbered
    <2>1. \A i \in 1 .. n : ledger[i].id \in 1 .. MaxGroups + 0
      BY <1>3
    <2>2. \A i, j \in 1 .. n : ledger[i].id = ledger[j].id => i = j
      BY <1>3
    <2>3. Len(ledger) <= MaxGroups + changes
      BY <1>2, <1>3, <1>4
    <2> QED BY <1>2, <1>4, <1>5, <2>1, <2>2, <2>3 DEF Numbered
  <1>7. TypeOK
    <2>1. mail = <<>> => Range(mail) \subseteq Mails /\ Len(mail) <= MaxMails
      BY DEF Range
    <2>2. Ids(ledger) \subseteq 1 .. MaxGroups + MaxChanges
      BY <1>3, <1>4 DEF Ids
    <2>3. report.neg \in BOOLEAN /\ report.whole \in Nat /\ report.frac \in [1 .. 2 -> 0 .. 9]
      <3>1. 0 \in Int
        OBVIOUS
      <3> QED BY <1>2, <3>1, ReportTyped
    <2>4. page \in 1 .. (MaxGroups + MaxChanges + PageSize - 1) \div PageSize + 1
      BY <1>2, FirstPage
    <2>5. total \in Int /\ changes \in 0 .. MaxChanges
      BY <1>2
    <2> QED BY <1>1, <1>2, <2>1, <2>2, <2>3, <2>4, <2>5 DEF TypeOK
  <1>8. Begun /\ Newest /\ SummedUp /\ Drifting
    BY <1>2 DEF Begun, Newest, SummedUp, Drifting
  <1> QED BY <1>6, <1>7, <1>8 DEF IInv

(* Steps that read nothing and leave the ledger alone.                      *)
LEMMA QuietInv ==
    ASSUME IInv, Ping \/ Fails \/ UNCHANGED vars
    PROVE  IInv'
  <1>1. UNCHANGED <<mail, latest, page, total, report, ledger, counted, start, changes>>
    BY DEF Ping, Fails, vars
  <1>2. \/ pc = "ping" /\ pc' = "fetch"
        \/ pc \in {"ping", "fetch", "page"} /\ pc' = "failed"
        \/ pc' = pc
    BY DEF Ping, Fails, vars
  <1>3. TypeOK'
    <2>1. pc' \in {"ping", "fetch", "page", "matches", "differs", "failed"}
      BY <1>2 DEF IInv, TypeOK
    <2> QED BY <1>1, <2>1 DEF IInv, TypeOK, Ids, Sorted
  <1>4. Numbered' /\ Newest'
    BY <1>1 DEF IInv, Numbered, Newest
  <1>5. Begun'
    BY <1>1, <1>2 DEF IInv, Begun
  <1>6. List' = List /\ Done' = Done /\ There' = There /\ Account' = Account
    BY <1>1 DEF List, Done, There, Account
  <1>7. SummedUp'
    <2>1. SummedUp
      BY DEF IInv
    <2> QED BY <1>1, <1>2, <1>6, <2>1 DEF SummedUp
  <1>8. Drifting'
    <2>1. Drifting
      BY DEF IInv
    <2> QED BY <1>1, <1>2, <1>6, <2>1 DEF Drifting
  <1> QED BY <1>3, <1>4, <1>5, <1>7, <1>8 DEF IInv

(* After the fetch the notice is the newest, and no page was read.           *)
LEMMA FetchInv ==
    ASSUME IInv, Fetch
    PROVE  IInv'
  <1>1. PICK n \in 0 .. MaxMails : mail' \in [1 .. n -> Mails]
    BY DEF Fetch
  <1>2. /\ pc = "fetch" /\ latest' = Latest(mail')
        /\ pc' = IF latest' # NoNotice /\ latest'.last4 \in DOMAIN AccountMap THEN "page" ELSE "failed"
        /\ UNCHANGED <<page, total, report, ledger, counted, start, changes>>
    BY DEF Fetch
  <1>3. mail' \in Seq(Mails) /\ Len(mail') = n /\ n \in Nat /\ n <= MaxMails
    <2>1. n \in Nat /\ n <= MaxMails
      BY <1>1, BalanceAssumption
    <2>2. mail' \in Seq(Mails) /\ Len(mail') = n
      <3> DEFINE x == mail'
      <3>1. x \in [1 .. n -> Mails]
        BY <1>1
      <3> HIDE DEF x
      <3>2. x \in Seq(Mails) /\ Len(x) = n
        BY <2>1, <3>1, SequenceOf
      <3> QED BY <3>2 DEF x
    <2> QED BY <2>1, <2>2
  <1>4. Range(mail') = {mail'[i] : i \in 1 .. n} /\ \A i \in 1 .. n : mail'[i] \in Mails
    <2>1. DOMAIN mail' = 1 .. n
      BY <1>1
    <2> QED BY <1>1, <2>1 DEF Range
  <1>5. \/ latest' = NoNotice
        \/ \E m \in Range(mail') :
               /\ IsNotice(m) /\ latest' = ParseBalance(m)
               /\ \A other \in Range(mail') : IsNotice(other) => other.asOf <= m.asOf
    <2>1. Found(mail', latest', n)
      <3>1. Found(mail', Latest(mail'), Len(mail'))
        BY <1>3, LatestFound
      <3> QED BY <1>2, <1>3, <3>1
    <2>2. CASE latest' = NoNotice
      BY <2>2
    <2>3. ASSUME NEW j \in 1 .. n, IsNotice(mail'[j]), latest' = ParseBalance(mail'[j]),
                 \A k \in 1 .. n : IsNotice(mail'[k]) => mail'[k].asOf <= mail'[j].asOf
          PROVE  \E m \in Range(mail') :
                     /\ IsNotice(m) /\ latest' = ParseBalance(m)
                     /\ \A other \in Range(mail') : IsNotice(other) => other.asOf <= m.asOf
      <3>1. mail'[j] \in Range(mail')
        BY <1>4
      <3>2. \A other \in Range(mail') : IsNotice(other) => other.asOf <= mail'[j].asOf
        <4> SUFFICES ASSUME NEW k \in 1 .. n, IsNotice(mail'[k])
                     PROVE  mail'[k].asOf <= mail'[j].asOf
          BY <1>4
        <4> QED BY <2>3
      <3> QED BY <2>3, <3>1, <3>2, Zenon
    <2> QED BY <2>1, <2>2, <2>3 DEF Found
  <1>6. TypeOK'
    <2>1. pc' \in {"ping", "fetch", "page", "matches", "differs", "failed"}
      BY <1>2
    <2>2. (Range(mail) \subseteq Mails /\ Len(mail) <= MaxMails)'
      BY <1>3, <1>4
    <2>3. (latest = NoNotice \/ \E m \in Range(mail) : IsNotice(m) /\ latest = ParseBalance(m))'
      BY <1>5
    <2> QED BY <1>2, <2>1, <2>2, <2>3 DEF IInv, TypeOK, Ids, Sorted
  <1>7. Numbered'
    BY <1>2 DEF IInv, Numbered
  <1>8. Begun'
    BY <1>2 DEF IInv, Begun
  <1>9. Newest'
    BY <1>5 DEF Newest
  <1>10. page = 1 /\ total = 0 /\ counted = <<>> /\ changes = 0
    BY <1>2 DEF IInv, Begun
  <1>11. SummedUp'
    <2> SUFFICES ASSUME pc' = "page" PROVE total' = PageSum(First(List', Done'), Account')
      BY <1>2 DEF SummedUp
    <2>1. List' \in Seq(Groups)
      <3>1. ledger' \in Seq(Groups)
        BY <1>2 DEF IInv, Numbered
      <3> QED BY <3>1, ListedType DEF List
    <2>2. Done' = 0
      <3>1. 1 \in Nat \ {0}
        OBVIOUS
      <3>2. Before(1) = 0
        BY <3>1, BeforeNext
      <3> QED BY <1>2, <1>10, <3>2 DEF Done, Before
    <2>3. First(List', 0) = <<>>
      <3>1. 0 \in Nat /\ 0 = 0
        OBVIOUS
      <3> QED BY <2>1, <3>1, FirstIs
    <2> QED BY <1>2, <1>10, <2>2, <2>3, PageSumEmpty
  <1>12. Drifting'
    <2>1. ~(page' > 1)
      BY <1>2, <1>10
    <2> QED BY <1>2, <2>1 DEF Drifting
  <1> QED BY <1>6, <1>7, <1>8, <1>9, <1>11, <1>12 DEF IInv


(* There are no more pages than the ledger can fill, and one.               *)
LEMMA PageBound ==
    ASSUME NEW n \in Nat, NEW s \in Nat \ {0}, NEW p \in Nat \ {0}, (p - 1) * s < n
    PROVE  p + 1 \in 1 .. (n + s - 1) \div s + 1
  <1>1. p * s = (p - 1) * s + s /\ p * s \in Nat /\ n + s - 1 \in Nat
    <2>1. \A a, b \in Int : (a - 1) * b + b = a * b
      BY Z3
    <2>2. \A a, b \in Nat : a * b \in Nat
      BY Z3
    <2> QED BY <2>1, <2>2
  <1>2. p * s <= n + s - 1
    <2> DEFINE a == p * s
               b == (p - 1) * s
    <2>1. a = b + s /\ b < n /\ a \in Nat /\ b \in Int
      <3>1. \A x, y \in Int : (x - 1) * y \in Int
        BY Z3
      <3> QED BY <1>1, <3>1
    <2> HIDE DEF a, b
    <2>2. a <= n + s - 1
      BY <2>1
    <2> QED BY <2>2 DEF a
  <1>3. \A a, b \in Nat, d \in Nat \ {0} : a * d <= b => a <= b \div d
    <2> SUFFICES ASSUME NEW a \in Nat, NEW b \in Nat, NEW d \in Nat \ {0}, a * d <= b
                 PROVE  a <= b \div d
      OBVIOUS
    <2> DEFINE q == b \div d
    <2>1. q \in Nat /\ b < (q + 1) * d
      <3>1. b = d * (b \div d) + (b % d) /\ b % d \in 0 .. d - 1 /\ b \div d \in Nat
        BY Z3
      <3>2. q \in Nat /\ b < d * q + d
        BY <3>1
      <3> HIDE DEF q
      <3>3. (q + 1) * d = d * q + d
        BY <3>2, Z3
      <3> QED BY <3>2, <3>3
    <2> HIDE DEF q
    <2>2. a < q + 1
      <3>1. ~(a >= q + 1)
        <4> SUFFICES ASSUME a >= q + 1 PROVE FALSE
          OBVIOUS
        <4>1. a * d >= (q + 1) * d
          BY <2>1, Z3
        <4> QED BY <2>1, <4>1, Z3
      <3> QED BY <2>1, <3>1
    <2>3. a <= q
      BY <2>1, <2>2
    <2> QED BY <2>3 DEF q
  <1>4. p <= (n + s - 1) \div s /\ (n + s - 1) \div s \in Nat
    <2>1. p <= (n + s - 1) \div s
      BY <1>1, <1>2, <1>3
    <2>2. \A x \in Nat, d \in Nat \ {0} : x \div d \in Nat
      BY Z3
    <2> QED BY <1>1, <2>1, <2>2
  <1>5. \A q \in Nat : p <= q => p + 1 \in 1 .. q + 1
    OBVIOUS
  <1> QED BY <1>4, <1>5

(* A page is read: the sum, and what was counted, cover so much more.       *)
LEMMA ReadPageInv ==
    ASSUME IInv, ReadPage
    PROVE  IInv'
  <1> DEFINE groups == PageOf(List, page)
             ids == [i \in DOMAIN groups |-> groups[i].id]
             last == LastPage(SplitCount(groups))
             diff == total' - latest.amount
             sum == PageSum(groups, Account)
  <1> USE BalanceAssumption
  <1>1. /\ pc = "page"
        /\ start' = IF page = 1 THEN ledger ELSE start
        /\ total' = total + sum
        /\ counted' = counted \o ids
        /\ last => pc' = (IF diff = 0 THEN "matches" ELSE "differs")
                   /\ report' = FormatMinor(diff) /\ page' = page
        /\ ~last => page' = page + 1 /\ pc' = pc /\ report' = report
        /\ UNCHANGED <<mail, latest, ledger, changes>>
    BY DEF ReadPage, List, Following
  <1>2. ledger \in Seq(Groups) /\ start \in Seq(Groups) /\ counted \in Seq(Int)
    BY DEF IInv, Numbered
  <1>3. List \in Seq(Groups) /\ Len(List) <= Len(ledger) /\ Len(List) \in Nat
    <2>1. List \in Seq(Groups)
      BY <1>2, ListedType DEF List
    <2>2. Len(List) <= Len(ledger)
      BY <1>2, ListedKept DEF List
    <2> QED BY <2>1, <2>2
  <1>4. page \in Nat \ {0} /\ total \in Int /\ changes \in Nat /\ changes <= MaxChanges
    BY DEF IInv, TypeOK
  <1>5. groups \in Seq(Groups) /\ sum \in Int
    <2>1. groups \in Seq(Groups)
      BY <1>3, <1>4, PageIs
    <2> QED BY <2>1, PageSumAppend
  <1>6. latest # NoNotice /\ latest.last4 \in DOMAIN AccountMap /\ latest.amount \in Int
    <2>1. latest # NoNotice /\ latest.last4 \in DOMAIN AccountMap
      BY <1>1 DEF IInv, Begun
    <2>2. PICK m \in Range(mail) : IsNotice(m) /\ latest = ParseBalance(m)
      BY <2>1 DEF IInv, Newest
    <2>3. m \in Mails
      BY <2>2 DEF IInv, TypeOK
    <2> QED BY <2>1, <2>2, <2>3, NoticeTold
  <1>7. total' \in Int /\ diff \in Int
    BY <1>1, <1>4, <1>5, <1>6
  <1>8. Done = Before(page) /\ Before(page + 1) = Done + PageSize /\ Done \in Nat
    <2>1. Before(page + 1) = Before(page) + PageSize /\ Before(page) \in Nat
      BY <1>4, BeforeNext
    <2> QED BY <2>1 DEF Done, Before
  <1>9. /\ last => Before(page + 1) >= Len(List)
        /\ ~last => Before(page) < Len(List)
    BY <1>3, <1>4, PageEnds
  <1>10. List' = List /\ Account' = Account
    BY <1>1 DEF List, Account
  <1>11. ids \in Seq(Int)
    BY <1>3, <1>4, PageLeft
  <1>12. TypeOK'
    <2>1. pc' \in {"ping", "fetch", "page", "matches", "differs", "failed"}
      BY <1>1
    <2>2. (Range(mail) \subseteq Mails /\ Len(mail) <= MaxMails)'
      BY <1>1 DEF IInv, TypeOK
    <2>3. (latest = NoNotice \/ \E m \in Range(mail) : IsNotice(m) /\ latest = ParseBalance(m))'
      BY <1>1 DEF IInv, TypeOK
    <2>4. page' \in 1 .. (MaxGroups + MaxChanges + PageSize - 1) \div PageSize + 1
      <3>1. CASE last
        BY <1>1, <3>1 DEF IInv, TypeOK
      <3>2. CASE ~last
        <4>1. Before(page) < MaxGroups + MaxChanges /\ MaxGroups + MaxChanges \in Nat
          <5>1. Len(ledger) <= MaxGroups + changes /\ Len(ledger) \in Nat
            BY <1>2 DEF IInv, Numbered
          <5>2. Before(page) < Len(List) /\ Before(page) \in Nat
            BY <1>8, <1>9, <3>2
          <5> QED BY <1>3, <1>4, <5>1, <5>2
        <4>2. page + 1 \in 1 .. (MaxGroups + MaxChanges + PageSize - 1) \div PageSize + 1
          BY <1>4, <4>1, PageBound DEF Before
        <4> QED BY <1>1, <3>2, <4>2
      <3> QED BY <3>1, <3>2
    <2>5. (report.neg \in BOOLEAN /\ report.whole \in Nat /\ report.frac \in [1 .. 2 -> 0 .. 9])'
      <3>1. CASE last
        BY <1>1, <1>7, <3>1, ReportTyped
      <3>2. CASE ~last
        BY <1>1, <3>2 DEF IInv, TypeOK
      <3> QED BY <3>1, <3>2
    <2>6. (Sorted(ledger) /\ Ids(ledger) \subseteq 1 .. MaxGroups + MaxChanges
              /\ changes \in 0 .. MaxChanges)'
      BY <1>1 DEF IInv, TypeOK, Sorted, Ids
    <2> QED BY <1>7, <2>1, <2>2, <2>3, <2>4, <2>5, <2>6 DEF TypeOK
  <1>13. Numbered'
    <2>1. start' \in Seq(Groups)
      BY <1>1, <1>2
    <2>2. counted' \in Seq(Int)
      BY <1>1, <1>2, <1>11
    <2> QED BY <1>1, <2>1, <2>2 DEF IInv, Numbered
  <1>14. Begun'
    <2>1. pc' = "page" => page' > 1
      BY <1>1, <1>4
    <2>2. pc' \in {"page", "matches", "differs"}
      BY <1>1
    <2> QED BY <1>1, <1>6, <2>1, <2>2 DEF Begun
  <1>15. Newest'
    BY <1>1 DEF IInv, Newest
  <1>16. changes' = 0 => total' = PageSum(First(List, Before(page + 1)), Account)
    <2>1. changes = 0 => total = PageSum(First(List, Before(page)), Account)
      BY <1>1, <1>8 DEF IInv, SummedUp
    <2>2. PageSum(First(List, Before(page + 1)), Account) =
              PageSum(First(List, Before(page)), Account) + sum
      BY <1>3, <1>4, PageCounted
    <2> QED BY <1>1, <2>1, <2>2
  <1>17. SummedUp'
    <2>1. CASE last
      <3>1. First(List, Before(page + 1)) = List
        <4>1. Before(page + 1) \in Nat
          BY <1>8
        <4> QED BY <1>3, <1>9, <2>1, <4>1, FirstIs
      <3>2. (pc' = "matches") = (total' - latest' .amount = 0)
        <4>1. pc' = IF diff = 0 THEN "matches" ELSE "differs"
          BY <1>1, <2>1
        <4>2. (pc' = "matches") <=> (diff = 0)
          BY <4>1
        <4> QED BY <1>1, <4>2
      <3>3. report' = FormatMinor(total' - latest' .amount)
        BY <1>1, <2>1
      <3>4. changes' = 0 => total' = PageSum(List', Account')
        BY <1>10, <1>16, <3>1
      <3>5. pc' # "page"
        BY <1>1, <2>1
      <3> QED BY <3>2, <3>3, <3>4, <3>5 DEF SummedUp
    <2>2. CASE ~last
      <3>1. pc' = "page"
        BY <1>1, <2>2
      <3>2. Done' = Before(page + 1)
        BY <1>1, <2>2 DEF Done, Before
      <3> QED BY <1>10, <1>16, <3>1, <3>2 DEF SummedUp
    <2> QED BY <2>1, <2>2
  <1>18. /\ Range(ids) \cup Left(List, Before(page + 1)) = Left(List, Before(page))
         /\ Len(ids) + Rest(List, Before(page + 1)) = Rest(List, Before(page))
    BY <1>3, <1>4, PageLeft
  <1>19. Range(counted') = Range(counted) \cup Range(ids) /\ Len(counted') = Len(counted) + Len(ids)
    <2>1. /\ Range(counted \o ids) = Range(counted) \cup Range(ids)
          /\ Len(counted \o ids) = Len(counted) + Len(ids)
      <3> HIDE DEF ids
      <3> QED BY <1>2, <1>11, RangeConcat
    <2> QED BY <1>1, <2>1
  <1>20. Drift(There', Range(counted') \cup Left(List, Before(page + 1)),
               Len(counted') + Rest(List, Before(page + 1))) <= changes
    <2>1. Range(counted') \cup Left(List, Before(page + 1)) = Range(counted) \cup Left(List, Done)
      BY <1>8, <1>18, <1>19
    <2>2. Len(counted') + Rest(List, Before(page + 1)) = Len(counted) + Rest(List, Done)
      <3>1. /\ Len(counted) \in Int /\ Len(ids) \in Int
            /\ Rest(List, Before(page + 1)) \in Int /\ Rest(List, Done) \in Int
        BY <1>2, <1>3, <1>8, <1>11 DEF Rest
      <3>2. \A a, b, c, d, e \in Int : e = a + b /\ b + c = d => e + c = a + d
        OBVIOUS
      <3>3. Len(counted') \in Int
        BY <1>19, <3>1
      <3> QED BY <1>8, <1>18, <1>19, <3>1, <3>2, <3>3
    <2>3. CASE page > 1
      <3>1. There' = There
        BY <1>1, <1>4, <2>3 DEF There, Account
      <3>2. Drift(There, Range(counted) \cup Left(List, Done), Len(counted) + Rest(List, Done)) <= changes
        BY <1>1, <2>3 DEF IInv, Drifting
      <3> QED BY <2>1, <2>2, <3>1, <3>2
    <2>4. CASE page = 1
      <3>1. There' = Ids(List)
        BY <1>1, <2>4 DEF There, List, Account
      <3>2. counted = <<>> /\ changes = 0
        BY <1>1, <2>4 DEF IInv, Begun
      <3>3. Done = 0
        <4>1. Before(1) = 0
          BY <1>4, BeforeNext
        <4> QED BY <1>8, <2>4, <4>1
      <3>4. Left(List, 0) = Ids(List) /\ Rest(List, 0) = Len(List)
        BY <1>3, AllLeft
      <3>5. Range(counted) = {} /\ Len(counted) = 0
        BY <3>2 DEF Range
      <3>6. Range(counted) \cup Left(List, Done) = Ids(List) /\ Len(counted) + Rest(List, Done) = Len(List)
        BY <1>3, <3>3, <3>4, <3>5
      <3>7. Cardinality(Ids(List)) = Len(List)
        <4>1. Distinct(ledger)
          BY DEF IInv, Numbered, Distinct
        <4>2. Distinct(List)
          BY <1>2, <4>1, ListedDistinct DEF List
        <4> QED BY <1>3, <4>2, IdsCounted
      <3>8. Drift(Ids(List), Ids(List), Len(List)) = 0
        <4>1. Ids(List) \ Ids(List) = {} /\ Ids(List) \cap Ids(List) = Ids(List)
          OBVIOUS
        <4>2. Cardinality({}) = 0
          BY FS_EmptySet
        <4>3. \A n \in Nat : 0 + n - n = 0
          OBVIOUS
        <4> QED BY <1>3, <3>7, <4>1, <4>2, <4>3, Zenon DEF Drift
      <3>9. 0 <= 0
        OBVIOUS
      <3> QED BY <2>1, <2>2, <3>1, <3>2, <3>6, <3>8, <3>9
    <2> QED BY <1>4, <2>3, <2>4
  <1>21. Drifting'
    <2>1. CASE last
      <3>1. Left(List, Before(page + 1)) = {} /\ Rest(List, Before(page + 1)) = 0
        <4>1. Before(page + 1) \in Nat
          BY <1>8
        <4> QED BY <1>3, <1>9, <2>1, <4>1, AllLeft
      <3>2. /\ Range(counted') \cup Left(List, Before(page + 1)) = Range(counted')
            /\ Len(counted') + Rest(List, Before(page + 1)) = Len(counted')
        <4>1. Len(counted') \in Int
          BY <1>13 DEF Numbered
        <4> QED BY <3>1, <4>1
      <3>3. Drift(There', Range(counted'), Len(counted')) <= changes'
        BY <1>1, <1>20, <3>2
      <3>4. pc' # "page"
        BY <1>1, <2>1
      <3> QED BY <3>3, <3>4 DEF Drifting
    <2>2. CASE ~last
      <3>1. pc' = "page"
        BY <1>1, <2>2
      <3>2. Done' = Before(page + 1)
        BY <1>1, <2>2 DEF Done, Before
      <3>3. Drift(There', Range(counted') \cup Left(List', Done'), Len(counted') + Rest(List', Done')) <= changes'
        BY <1>1, <1>10, <1>20, <3>2
      <3> QED BY <3>1, <3>3 DEF Drifting
    <2> QED BY <2>1, <2>2
  <1> QED BY <1>12, <1>13, <1>14, <1>15, <1>17, <1>21 DEF IInv

(* So one change while the list is read adds no more than one.              *)
LEMMA ChangedDrifting ==
    ASSUME IInv, pc = "page", page > 1, changes' = changes + 1,
           UNCHANGED <<pc, latest, page, counted, start>>,
           NEW x \in Seq(Groups), NEW y \in Seq(Groups), NEW g \in Groups,
           \/ (ledger = x \o y /\ ledger' = (x \o <<g>>) \o y)
           \/ (ledger = (x \o <<g>>) \o y /\ ledger' = x \o y)
    PROVE  Drifting'
  <1> DEFINE R == Range(counted)
             m == Len(counted)
             D(list) == Drift(There, R \cup Left(list, Done), m + Rest(list, Done))
             a == Listed(x \o y, Account, latest.asOf)
             b == Listed((x \o <<g>>) \o y, Account, latest.asOf)
  <1>1. (List = a /\ List' = b) \/ (List = b /\ List' = a)
    BY DEF List, Account
  <1>2. There' = There /\ Done' = Done /\ Done \in Nat
    <2>1. page \in Nat \ {0}
      BY DEF IInv, TypeOK
    <2>2. Before(page) \in Nat
      BY <2>1, BeforeNext
    <2> QED BY <2>2 DEF There, Done, Before, Account
  <1>3. IsFiniteSet(There)
    <2>1. start \in Seq(Groups)
      BY DEF IInv, Numbered
    <2>2. Listed(start, Account, latest.asOf) \in Seq(Groups)
      BY <2>1, ListedType
    <2> QED BY <2>2, IdsCounted DEF There
  <1>4. m \in Nat /\ changes \in Int
    BY DEF IInv, Numbered, TypeOK
  <1>5. D(List) <= changes
    BY DEF IInv, Drifting
  <1>6. D(a) \in Int /\ D(b) \in Int /\ D(b) <= D(a) + 1 /\ D(a) <= D(b) + 1
    <2>1. a = Listed(x \o y, Account, latest.asOf) /\ b = Listed((x \o <<g>>) \o y, Account, latest.asOf)
      OBVIOUS
    <2> HIDE DEF a, b, R, m
    <2>2. OneOff(There, R, m, Done, a, b)
      BY <1>2, <1>3, <1>4, <2>1, ChangeDrifts, Zenon
    <2> QED BY <2>2 DEF OneOff
  <1>7. D(List') <= changes'
    <2> HIDE DEF a, b, D
    <2>1. \A d, e, c \in Int : d <= c /\ e <= d + 1 => e <= c + 1
      OBVIOUS
    <2>2. CASE List = a /\ List' = b
      <3>1. D(a) <= changes
        BY <1>5, <2>2, Zenon
      <3>2. D(b) <= changes + 1
        BY <1>4, <1>6, <2>1, <3>1, Zenon
      <3> QED BY <2>2, <3>2, Zenon
    <2>3. CASE List = b /\ List' = a
      <3>1. D(b) <= changes
        BY <1>5, <2>3, Zenon
      <3>2. D(a) <= changes + 1
        BY <1>4, <1>6, <2>1, <3>1, Zenon
      <3> QED BY <2>3, <3>2, Zenon
    <2> QED BY <1>1, <2>2, <2>3
  <1>8. Drift(There', Range(counted') \cup Left(List', Done'), Len(counted') + Rest(List', Done')) <= changes'
    BY <1>2, <1>7
  <1> QED BY <1>8 DEF Drifting

(* Somebody books a group: it is new, and puts the count wrong by one.      *)
LEMMA BookInv ==
    ASSUME IInv, Book
    PROVE  IInv'
  <1>0. MaxGroups \in Nat /\ MaxChanges \in Nat /\ Days \subseteq Int
    BY BalanceAssumption
  <1>1. PICK splits \in Shapes, day \in Days, i \in 1 .. Len(ledger) + 1 :
            ledger' = InsertAt(ledger, i, Group(MaxGroups + changes + 1, splits, day))
    BY DEF Book
  <1>2. /\ pc = "page" /\ page > 1 /\ changes < MaxChanges
        /\ Sorted(ledger') /\ changes' = changes + 1
        /\ UNCHANGED <<pc, mail, latest, page, total, report, counted, start>>
    BY DEF Book, Changing
  <1> DEFINE g == Group(MaxGroups + changes + 1, splits, day)
             new == InsertAt(ledger, i, g)
             n == Len(ledger)
  <1>3. ledger \in Seq(Groups) /\ n \in Nat /\ DOMAIN ledger = 1 .. n /\ Distinct(ledger)
        /\ n <= MaxGroups + changes
    BY DEF IInv, Numbered, Distinct
  <1>4. changes \in Nat /\ MaxGroups + changes + 1 \in Nat \ {0}
    BY <1>0 DEF IInv, TypeOK
  <1>5. g \in Groups /\ g.id = MaxGroups + changes + 1
    BY <1>0, <1>1, <1>4 DEF Group, Groups
  <1>6. /\ ledger' = new /\ new \in Seq(Groups) /\ Inserted(ledger, new, i, g)
        /\ \E x, y \in Seq(Groups) : ledger = x \o y /\ new = (x \o <<g>>) \o y
    <2> HIDE DEF g
    <2>1. /\ new \in Seq(Groups) /\ Inserted(ledger, new, i, g)
          /\ \E x, y \in Seq(Groups) : ledger = x \o y /\ new = (x \o <<g>>) \o y
      BY <1>1, <1>3, <1>5, InsertIs
    <2>2. ledger' = new
      BY <1>1 DEF g
    <2> QED BY <2>1, <2>2
  <1> HIDE DEF g, new
  <1>7. Len(new) = n + 1 /\ DOMAIN new = 1 .. n + 1 /\ i \in 1 .. Len(new)
    BY <1>3, <1>6 DEF Inserted
  <1>8. \A j \in 1 .. n : ledger[j].id \in 1 .. MaxGroups + changes
    BY <1>3 DEF IInv, Numbered
  <1>9. \A j \in 1 .. n : ledger[j].id # g.id
    <2>1. \A a, c \in Nat : \A k \in 1 .. a + c : k # a + c + 1
      OBVIOUS
    <2>2. \A k \in 1 .. MaxGroups + changes : k # g.id
      BY <1>0, <1>4, <1>5, <2>1
    <2> QED BY <1>8, <2>2, Zenon
  <1>10. Distinct(new) /\ \A j \in 1 .. n + 1 : new[j] = g \/ \E m \in 1 .. n : new[j] = ledger[m]
    <2>1. /\ Distinct(new)
          /\ \A j \in 1 .. Len(new) : new[j] = g \/ \E m \in 1 .. Len(ledger) : new[j] = ledger[m]
      <3>1. Unlike(ledger, g)
        BY <1>9 DEF Unlike
      <3>2. Joined(ledger, new, g)
        BY <1>3, <1>6, <1>7, <3>1, InsertedDistinct, Zenon
      <3> QED BY <3>2 DEF Joined
    <2> QED BY <1>7, <2>1
  <1>11. \A j \in 1 .. n + 1 : new[j].id \in 1 .. MaxGroups + changes'
    <2> TAKE j \in 1 .. n + 1
    <2>1. CASE new[j] = g
      BY <1>0, <1>2, <1>4, <1>5, <2>1
    <2>2. ASSUME NEW m \in 1 .. n, new[j] = ledger[m]
          PROVE  new[j].id \in 1 .. MaxGroups + changes'
      BY <1>0, <1>2, <1>4, <1>8, <2>2
    <2> QED BY <1>10, <2>1, <2>2
  <1>12. Numbered'
    <2>1. Len(new) <= MaxGroups + changes'
      BY <1>0, <1>2, <1>3, <1>4, <1>7
    <2>2. \A j, k \in DOMAIN new : new[j].id = new[k].id => j = k
      BY <1>10 DEF Distinct
    <2>3. start' \in Seq(Groups) /\ counted' \in Seq(Int)
      BY <1>2 DEF IInv, Numbered
    <2> QED BY <1>6, <1>7, <1>11, <2>1, <2>2, <2>3 DEF Numbered
  <1>13. TypeOK'
    <2>1. changes' \in 0 .. MaxChanges
      BY <1>0, <1>2, <1>4
    <2>2. Ids(ledger') \subseteq 1 .. MaxGroups + MaxChanges
      <3>1. \A a, b, c \in Int : b <= c => \A k \in 1 .. a + b : k \in 1 .. a + c
        OBVIOUS
      <3>2. \A k \in 1 .. MaxGroups + changes' : k \in 1 .. MaxGroups + MaxChanges
        <4>1. MaxGroups \in Int /\ MaxChanges \in Int /\ changes' \in Int /\ changes' <= MaxChanges
          BY <1>0, <2>1
        <4> QED BY <3>1, <4>1
      <3> QED BY <1>6, <1>7, <1>11, <3>2 DEF Ids
    <2>3. (pc \in {"ping", "fetch", "page", "matches", "differs", "failed"})'
      BY <1>2 DEF IInv, TypeOK
    <2>4. (Range(mail) \subseteq Mails /\ Len(mail) <= MaxMails)'
      BY <1>2 DEF IInv, TypeOK
    <2>5. (latest = NoNotice \/ \E m \in Range(mail) : IsNotice(m) /\ latest = ParseBalance(m))'
      BY <1>2 DEF IInv, TypeOK
    <2>6. (/\ page \in 1 .. (MaxGroups + MaxChanges + PageSize - 1) \div PageSize + 1
           /\ total \in Int /\ report.neg \in BOOLEAN /\ report.whole \in Nat
           /\ report.frac \in [1 .. 2 -> 0 .. 9])'
      BY <1>2 DEF IInv, TypeOK
    <2> QED BY <1>2, <2>1, <2>2, <2>3, <2>4, <2>5, <2>6 DEF TypeOK
  <1>14. Begun' /\ Newest'
    BY <1>2 DEF IInv, Begun, Newest
  <1>15. SummedUp'
    <2>1. pc' = "page" /\ changes' # 0
      BY <1>2, <1>4
    <2> QED BY <2>1 DEF SummedUp
  <1>16. Drifting'
    <2>1. PICK x \in Seq(Groups), y \in Seq(Groups) : ledger = x \o y /\ new = (x \o <<g>>) \o y
      BY <1>6
    <2>2. ledger = x \o y /\ ledger' = (x \o <<g>>) \o y
      BY <2>1, <1>6
    <2> QED BY <1>2, <1>5, <1>6, <2>2, ChangedDrifting
  <1> QED BY <1>12, <1>13, <1>14, <1>15, <1>16 DEF IInv

(* Somebody deletes a group: that too puts the count wrong by one.          *)
LEMMA DeleteInv ==
    ASSUME IInv, Delete
    PROVE  IInv'
  <1>0. MaxGroups \in Nat /\ MaxChanges \in Nat /\ Days \subseteq Int
    BY BalanceAssumption
  <1>1. PICK i \in DOMAIN ledger : ledger' = RemoveAt(ledger, i)
    BY DEF Delete
  <1>2. /\ pc = "page" /\ page > 1 /\ changes < MaxChanges /\ changes' = changes + 1
        /\ UNCHANGED <<pc, mail, latest, page, total, report, counted, start>>
    BY DEF Delete, Changing
  <1> DEFINE g == ledger[i]
             new == RemoveAt(ledger, i)
             n == Len(ledger)
  <1>3. ledger \in Seq(Groups) /\ n \in Nat /\ DOMAIN ledger = 1 .. n /\ Distinct(ledger)
        /\ n <= MaxGroups + changes /\ Sorted(ledger)
    BY DEF IInv, Numbered, Distinct, TypeOK
  <1>4. changes \in Nat /\ i \in 1 .. n
    BY <1>1, <1>3 DEF IInv, TypeOK
  <1>5. /\ ledger' = new /\ new \in Seq(Groups) /\ g \in Groups /\ Inserted(new, ledger, i, g)
        /\ \E x, y \in Seq(Groups) : new = x \o y /\ ledger = (x \o <<g>>) \o y
    BY <1>1, <1>3, <1>4, RemoveIs
  <1> HIDE DEF g, new
  <1>6. n = Len(new) + 1 /\ Len(new) \in Nat /\ DOMAIN new = 1 .. Len(new)
    BY <1>5 DEF Inserted
  <1>7. \A j \in 1 .. n : ledger[j].id \in 1 .. MaxGroups + changes
    BY <1>3 DEF IInv, Numbered
  <1>8. /\ Distinct(new) /\ Sorted(new)
        /\ \A j \in 1 .. Len(new) : \E m \in 1 .. n : new[j] = ledger[m]
    BY <1>3, <1>4, <1>5, InsertedBack
  <1>9. \A j \in 1 .. Len(new) : new[j].id \in 1 .. MaxGroups + changes'
    <2> TAKE j \in 1 .. Len(new)
    <2>1. PICK m \in 1 .. n : new[j] = ledger[m]
      BY <1>8
    <2> QED BY <1>0, <1>2, <1>4, <1>7, <2>1
  <1>10. Numbered'
    <2>1. Len(new) <= MaxGroups + changes'
      BY <1>0, <1>2, <1>3, <1>4, <1>6
    <2>2. \A j, k \in DOMAIN new : new[j].id = new[k].id => j = k
      BY <1>8 DEF Distinct
    <2>3. start' \in Seq(Groups) /\ counted' \in Seq(Int)
      BY <1>2 DEF IInv, Numbered
    <2> QED BY <1>5, <1>6, <1>9, <2>1, <2>2, <2>3 DEF Numbered
  <1>11. TypeOK'
    <2>1. changes' \in 0 .. MaxChanges
      BY <1>0, <1>2, <1>4
    <2>2. Ids(ledger') \subseteq 1 .. MaxGroups + MaxChanges
      <3>1. \A a, b, c \in Int : b <= c => \A k \in 1 .. a + b : k \in 1 .. a + c
        OBVIOUS
      <3>2. \A k \in 1 .. MaxGroups + changes' : k \in 1 .. MaxGroups + MaxChanges
        <4>1. MaxGroups \in Int /\ MaxChanges \in Int /\ changes' \in Int /\ changes' <= MaxChanges
          BY <1>0, <2>1
        <4> QED BY <3>1, <4>1
      <3> QED BY <1>5, <1>6, <1>9, <3>2 DEF Ids
    <2>3. (pc \in {"ping", "fetch", "page", "matches", "differs", "failed"})'
      BY <1>2 DEF IInv, TypeOK
    <2>4. (Range(mail) \subseteq Mails /\ Len(mail) <= MaxMails)'
      BY <1>2 DEF IInv, TypeOK
    <2>5. (latest = NoNotice \/ \E m \in Range(mail) : IsNotice(m) /\ latest = ParseBalance(m))'
      BY <1>2 DEF IInv, TypeOK
    <2>6. (/\ page \in 1 .. (MaxGroups + MaxChanges + PageSize - 1) \div PageSize + 1
           /\ total \in Int /\ report.neg \in BOOLEAN /\ report.whole \in Nat
           /\ report.frac \in [1 .. 2 -> 0 .. 9])'
      BY <1>2 DEF IInv, TypeOK
    <2>7. Sorted(ledger')
      BY <1>5, <1>8
    <2> QED BY <2>1, <2>2, <2>3, <2>4, <2>5, <2>6, <2>7 DEF TypeOK
  <1>12. Begun' /\ Newest'
    BY <1>2 DEF IInv, Begun, Newest
  <1>13. SummedUp'
    <2>1. pc' = "page" /\ changes' # 0
      BY <1>2, <1>4
    <2> QED BY <2>1 DEF SummedUp
  <1>14. Drifting'
    <2>1. PICK x \in Seq(Groups), y \in Seq(Groups) : new = x \o y /\ ledger = (x \o <<g>>) \o y
      BY <1>5
    <2>2. ledger' = x \o y /\ ledger = (x \o <<g>>) \o y
      BY <2>1, <1>5
    <2> QED BY <1>2, <1>5, <2>2, ChangedDrifting
  <1> QED BY <1>10, <1>11, <1>12, <1>13, <1>14 DEF IInv

(* Every step keeps the invariant.                                           *)
LEMMA NextInv ==
    ASSUME IInv, [Next]_vars
    PROVE  IInv'
  <1>1. CASE Ping
    BY <1>1, QuietInv
  <1>2. CASE Fetch
    BY <1>2, FetchInv
  <1>3. CASE ReadPage
    BY <1>3, ReadPageInv
  <1>4. CASE Fails
    BY <1>4, QuietInv
  <1>5. CASE Book
    BY <1>5, BookInv
  <1>6. CASE Delete
    BY <1>6, DeleteInv
  <1>7. CASE UNCHANGED vars
    BY <1>7, QuietInv
  <1> QED BY <1>1, <1>2, <1>3, <1>4, <1>5, <1>6, <1>7 DEF Next

(* The invariant holds in every reachable state.                             *)
LEMMA Invariant == Spec => []IInv
  <1>1. Init => IInv
    BY InitInv
  <1>2. IInv /\ [Next]_vars => IInv'
    BY NextInv
  <1> QED BY <1>1, <1>2, PTL DEF Spec

----------------------------------------------------------------------------
(* The variables of verify have their types in every behaviour; page's is   *)
(* the one that says something: BalanceAt asks for as many pages as the     *)
(* groups in the ledger can fill, and for one more, though others book      *)
(* while it reads.                                                          *)
THEOREM BalanceTyped == Spec => []TypeOK
  <1>1. IInv => TypeOK
    BY DEF IInv
  <1> QED BY <1>1, Invariant, PTL

(* With a ledger that stays as it is, verify tells the truth for every page *)
(* size, every ledger, and every writing of the amounts: it succeeds exactly *)
(* when the ledger adds up to a newest notice, and prints the difference.   *)
THEOREM VerdictCorrect == Spec => []VerdictTrue
  <1>1. ASSUME IInv PROVE VerdictTrue
    <2> SUFFICES ASSUME pc \in {"matches", "differs"}, changes = 0
                 PROVE  \E m \in Range(mail) :
                     /\ IsNotice(m) /\ m.last4 \in DOMAIN AccountMap
                     /\ \A other \in Range(mail) : IsNotice(other) => other.asOf <= m.asOf
                     /\ LET d == TrueBalance(ledger, AccountMap[m.last4], m.asOf) - Worth(m.amount)
                        IN  /\ (pc = "matches") = (d = 0)
                            /\ Worth(report) = d
      BY DEF VerdictTrue
    <2>1. latest # NoNotice /\ latest.last4 \in DOMAIN AccountMap
      BY <1>1 DEF IInv, Begun
    <2>2. PICK m \in Range(mail) :
              /\ IsNotice(m) /\ latest = ParseBalance(m)
              /\ \A other \in Range(mail) : IsNotice(other) => other.asOf <= m.asOf
      BY <1>1, <2>1 DEF IInv, Newest
    <2>3. m \in Mails
      BY <1>1 DEF IInv, TypeOK
    <2>4. /\ latest.last4 = m.last4 /\ latest.asOf = m.asOf
          /\ latest.amount = Worth(m.amount) /\ latest.amount \in Int
      BY <2>2, <2>3, NoticeTold
    <2>5. total = TrueBalance(ledger, Account, latest.asOf)
      <3>1. total = PageSum(List, Account)
        BY <1>1 DEF IInv, SummedUp
      <3>2. ledger \in Seq(Groups)
        BY <1>1 DEF IInv, Numbered
      <3>3. PageSum(Listed(ledger, Account, latest.asOf), Account) = TrueBalance(ledger, Account, latest.asOf)
        BY <3>2, ListedSum
      <3> QED BY <3>1, <3>3 DEF List
    <2> DEFINE diff == TrueBalance(ledger, AccountMap[m.last4], m.asOf) - Worth(m.amount)
    <2>6. diff = total - latest.amount
      BY <2>4, <2>5 DEF Account
    <2>7. total \in Int
      BY <1>1 DEF IInv, TypeOK
    <2> HIDE DEF diff
    <2>8. diff \in Int
      BY <2>4, <2>6, <2>7
    <2>9. (pc = "matches") = (diff = 0)
      BY <1>1, <2>6 DEF IInv, SummedUp
    <2>10. report = FormatMinor(diff)
      BY <1>1, <2>6 DEF IInv, SummedUp
    <2>11. Worth(report) = diff
      BY <2>8, <2>10, WrittenIsWorth
    <2>12. m.last4 \in DOMAIN AccountMap
      BY <2>1, <2>4
    <2> WITNESS m \in Range(mail)
    <2> QED BY <2>2, <2>9, <2>11, <2>12, Zenon DEF diff
  <1> QED BY <1>1, Invariant, PTL

(* However the ledger changes between the pages, verify leaves out, counts  *)
(* again or counts too much no more groups than there were changes.         *)
THEOREM DriftCorrect == Spec => []DriftBounded
  <1>1. IInv => DriftBounded
    BY DEF IInv, Drifting, DriftBounded, Drift, There
  <1> QED BY <1>1, Invariant, PTL
=============================================================================
