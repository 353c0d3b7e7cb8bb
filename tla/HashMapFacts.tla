----------------------------- MODULE HashMapFacts -----------------------------
(***************************************************************************)
(* What the operations of HashMap do to a table, for any keys, values,     *)
(* hash codes and number of buckets, and any padding of gc_realloc.        *)
(***************************************************************************)
EXTENDS HashMap, SequenceTheorems, TLAPS

Good(t) == t \in Table /\ InMemory(t) /\ Placed(t)

-----------------------------------------------------------------------------
(* The operations on one table.                                            *)

LEMMA IndexType ==
  ASSUME NEW k \in Key
  PROVE  IndexOf(k) \in Index
BY HashAssumption, SizeAssumption DEF IndexOf, Index

\* A key that has an entry is found there.
LEMMA Entry ==
  ASSUME NEW t, Good(t), NEW k \in Key, NEW i \in Index,
         NEW p \in 1 .. t[i].len, t[i].memory[p].key = k
  PROVE  /\ i = IndexOf(k)
         /\ Position(t, k) = p
         /\ Has(t, k)
         /\ At(t, k) = t[i].memory[p].value
<1>1. i = IndexOf(k)
  BY DEF Good, Placed
<1> DEFINE b == t[i]
           hits == {q \in 1 .. b.len : b.memory[q].key = k}
<1>2. b.len \in Nat
  BY DEF Good, Table, Bucket
<1>3. hits = {p}
  BY <1>2 DEF Good, Placed
<1>4. Position(t, k) = CHOOSE q \in {p} : \A r \in {p} : q <= r
  BY <1>1, <1>3 DEF Position
<1>5. p <= p
  BY <1>2
<1>6. Position(t, k) = p
  BY <1>4, <1>5
<1>. QED BY <1>1, <1>2, <1>6 DEF Has, At

LEMMA NoEntry ==
  ASSUME NEW t, Good(t), NEW k \in Key,
         \A p \in 1 .. t[IndexOf(k)].len : t[IndexOf(k)].memory[p].key # k
  PROVE  ~ Has(t, k)
BY DEF Has, Position

\* What find returns is an entry with the key.
LEMMA Found ==
  ASSUME NEW t, Good(t), NEW k \in Key, Has(t, k)
  PROVE  /\ Position(t, k) \in 1 .. t[IndexOf(k)].len
         /\ t[IndexOf(k)].memory[Position(t, k)].key = k
<1>1. PICK p \in 1 .. t[IndexOf(k)].len : t[IndexOf(k)].memory[p].key = k
  BY NoEntry
<1>. QED BY <1>1, Entry, IndexType

\* A bucket given one more entry.
LEMMA Added ==
  ASSUME NEW b \in Bucket, b.len <= Len(b.memory), NEW k \in Key
  PROVE  /\ AddEntry(b, k) \in Bucket
         /\ AddEntry(b, k).len = b.len + 1
         /\ b.len + 1 <= Len(AddEntry(b, k).memory)
         /\ AddEntry(b, k).memory[b.len + 1].key = k
         /\ \A p \in 1 .. b.len : AddEntry(b, k).memory[p] = b.memory[p]
<1> DEFINE n == b.len + 1
           kept == Reallocated(b.memory, n)
           node == [key |-> k, value |-> Zero]
<1>1. /\ b.memory \in Seq(Node) /\ b.len \in Nat /\ n \in Nat
      /\ Len(b.memory) \in Nat
      /\ Spare \in Nat
  BY SpareAssumption DEF Bucket
<1>2. /\ kept \in Seq(Node)
      /\ b.len <= Len(kept)
      /\ \A p \in 1 .. b.len : kept[p] = b.memory[p]
  <2>1. CASE Len(b.memory) <= n + Spare
    BY <1>1, <2>1 DEF Reallocated
  <2>2. CASE ~(Len(b.memory) <= n + Spare)
    <3>1. n + Spare \in Nat /\ n + Spare <= Len(b.memory) /\ b.len <= n + Spare
      BY <1>1, <2>2
    <3>2. \A i \in 1..(n + Spare) : b.memory[i] \in Node
      BY <1>1, <3>1
    <3>3. kept = SubSeq(b.memory, 1, n + Spare)
      BY <2>2 DEF Reallocated
    <3> HIDE DEF kept, n
    <3>4. kept \in Seq(Node) /\ Len(kept) = n + Spare /\ \A p \in 1..(n + Spare) : kept[p] = b.memory[p]
      BY <1>1, <3>1, <3>2, <3>3, SubSeqProperties
    <3> QED BY <1>1, <3>1, <3>4
  <2> QED BY <2>1, <2>2
<1>3. CASE n <= Len(kept)
  <2> DEFINE s == [kept EXCEPT ![n].key = k]
  <2>1. n \in 1 .. Len(kept)
    BY <1>1, <1>2, <1>3
  <2>2. kept[n] \in Node
    BY <2>1, <1>2, ElementOfSeq
  <2>3. [kept[n] EXCEPT !.key = k] \in Node
    BY <2>2 DEF Node
  <2>4. s \in Seq(Node) /\ Len(s) = Len(kept)
    BY <2>1, <2>3, <1>2, ExceptSeq
  <2>5. s[n].key = k /\ \A p \in 1 .. b.len : s[p] = kept[p]
    BY <2>1, <2>2, <1>1, <1>2 DEF Node
  <2>6. AddEntry(b, k) = [memory |-> s, len |-> n]
    BY <1>3 DEF AddEntry
  <2> HIDE DEF s, kept
  <2>. QED BY <2>4, <2>5, <2>6, <1>1, <1>2, <1>3 DEF Bucket
<1>4. CASE ~ (n <= Len(kept))
  <2> DEFINE s == Append(kept, node)
  <2>1. Len(kept) = b.len
    BY <1>1, <1>2, <1>4, LenProperties
  <2>2. node \in Node
    BY ZeroAssumption DEF Node
  <2>3. /\ s \in Seq(Node) /\ Len(s) = n /\ s[n] = node
        /\ \A p \in 1 .. b.len : s[p] = kept[p]
    BY <2>1, <2>2, <1>2, AppendProperties
  <2>4. AddEntry(b, k) = [memory |-> s, len |-> n]
    BY <1>4 DEF AddEntry
  <2>5. s[n].key = k
    BY <2>3
  <2> HIDE DEF s, kept, node
  <2>. QED BY <2>3, <2>4, <2>5, <1>1, <1>2 DEF Bucket
<1>. QED BY <1>3, <1>4

\* operator[] of a new key makes its entry and disturbs no other.
LEMMA SubscriptNew ==
  ASSUME NEW t, Good(t), NEW k \in Key, ~ Has(t, k)
  PROVE  LET s == Subscript(t, k)
             i == IndexOf(k)
         IN /\ Good(s)
            /\ s[i].len = t[i].len + 1
            /\ s[i].memory[t[i].len + 1].key = k
            /\ \A p \in 1 .. t[i].len : s[i].memory[p] = t[i].memory[p]
            /\ \A j \in Index \ {i} : s[j] = t[j]
<1> DEFINE i == IndexOf(k)
           s == Subscript(t, k)
           n == t[i].len + 1
<1>1. i \in Index
  BY IndexType
<1>2. t[i] \in Bucket /\ t[i].len <= Len(t[i].memory) /\ t \in [Index -> Bucket]
  BY <1>1 DEF Good, Table, InMemory
<1>3. s = [t EXCEPT ![i] = AddEntry(t[i], k)]
  BY DEF Subscript
<1>4. /\ AddEntry(t[i], k) \in Bucket
      /\ AddEntry(t[i], k).len = n
      /\ n <= Len(AddEntry(t[i], k).memory)
      /\ AddEntry(t[i], k).memory[n].key = k
      /\ \A p \in 1 .. t[i].len : AddEntry(t[i], k).memory[p] = t[i].memory[p]
  BY <1>2, Added
<1>5. s[i] = AddEntry(t[i], k) /\ \A j \in Index \ {i} : s[j] = t[j]
  BY <1>1, <1>2, <1>3
<1>6. s \in Table /\ InMemory(s)
  BY <1>1, <1>2, <1>3, <1>4 DEF Good, Table, InMemory
<1>7. t[i].len \in Nat
  BY <1>2 DEF Bucket
<1>8. \A p \in 1 .. t[i].len : t[i].memory[p].key # k
  BY <1>1, Entry
<1>9. Placed(s)
  <2> SUFFICES ASSUME NEW j \in Index, NEW p \in 1 .. s[j].len,
                      NEW q \in 1 .. s[j].len
               PROVE  /\ IndexOf(s[j].memory[p].key) = j
                      /\ s[j].memory[p].key = s[j].memory[q].key => p = q
    BY DEF Placed
  <2>1. CASE j # i
    <3>1. s[j] = t[j]
      BY <2>1, <1>5
    <3>. QED BY <3>1 DEF Good, Placed
  <2>2. CASE j = i
    <3>1. /\ p \in 1 .. t[i].len \/ p = n
          /\ q \in 1 .. t[i].len \/ q = n
      BY <2>2, <1>4, <1>5, <1>7
    <3>2. \A r \in 1 .. t[i].len : s[i].memory[r] = t[i].memory[r]
      BY <1>4, <1>5
    <3>3. s[i].memory[n].key = k
      BY <1>4, <1>5
    <3> HIDE DEF s, n
    <3>. QED BY <3>1, <3>2, <3>3, <2>2, <1>1, <1>8 DEF Good, Placed
  <2>. QED BY <2>1, <2>2
<1>. QED BY <1>4, <1>5, <1>6, <1>9 DEF Good

\* A write through a pointer to a node of an entry or behind them changes the
\* value there and nothing else.
LEMMA Written ==
  ASSUME NEW t, Good(t), NEW i \in Index, NEW p \in 1 .. Len(t[i].memory),
         NEW v \in Value
  PROVE  LET s == Write(t, i, p, v)
         IN /\ Good(s)
            /\ s[i].len = t[i].len
            /\ Len(s[i].memory) = Len(t[i].memory)
            /\ \A q \in 1 .. Len(t[i].memory) :
                 /\ s[i].memory[q].key = t[i].memory[q].key
                 /\ s[i].memory[q].value = IF q = p THEN v
                                          ELSE t[i].memory[q].value
            /\ \A j \in Index \ {i} : s[j] = t[j]
<1> DEFINE s == Write(t, i, p, v)
           m == [t[i].memory EXCEPT ![p].value = v]
<1>1. t[i] \in Bucket /\ t \in [Index -> Bucket]
  BY DEF Good, Table
<1>2. t[i].memory \in Seq(Node) /\ t[i].len \in Nat
  BY <1>1 DEF Bucket
<1>3. \A q \in 1 .. Len(t[i].memory) : t[i].memory[q] \in Node
  BY <1>2, ElementOfSeq
<1>4. [t[i].memory[p] EXCEPT !.value = v] \in Node
  BY <1>3 DEF Node
<1>5. m \in Seq(Node) /\ Len(m) = Len(t[i].memory)
  BY <1>2, <1>4, ExceptSeq
<1>6. \A q \in 1 .. Len(t[i].memory) :
        /\ m[q].key = t[i].memory[q].key
        /\ m[q].value = IF q = p THEN v ELSE t[i].memory[q].value
  BY <1>2, <1>3 DEF Node
<1>7. s = [t EXCEPT ![i] = [memory |-> m, len |-> t[i].len]]
  <2>1. s = [t EXCEPT ![i] = [t[i] EXCEPT !.memory = m]]
    BY <1>1, Zenon DEF Write
  <2>2. [t[i] EXCEPT !.memory = m] = [memory |-> m, len |-> t[i].len]
    <3> HIDE DEF m
    <3>. QED BY <1>1 DEF Bucket
  <2>. QED BY <2>1, <2>2
<1> HIDE DEF m, s
<1>8. /\ s[i].memory = m /\ s[i].len = t[i].len
      /\ \A j \in Index \ {i} : s[j] = t[j]
  BY <1>1, <1>7
<1>9. s \in Table /\ InMemory(s)
  BY <1>1, <1>2, <1>5, <1>7, <1>8 DEF Good, Table, Bucket, InMemory
<1>10. Placed(s)
  <2> SUFFICES ASSUME NEW j \in Index, NEW q \in 1 .. s[j].len,
                      NEW r \in 1 .. s[j].len
               PROVE  /\ IndexOf(s[j].memory[q].key) = j
                      /\ s[j].memory[q].key = s[j].memory[r].key => q = r
    BY DEF Placed
  <2>1. CASE j # i
    BY <2>1, <1>8 DEF Good, Placed
  <2>2. CASE j = i
    <3>1. q \in 1 .. t[i].len /\ r \in 1 .. t[i].len
      BY <2>2, <1>8
    <3>2. t[i].len <= Len(t[i].memory) /\ Len(t[i].memory) \in Nat
      BY <1>2 DEF Good, InMemory
    <3>3. /\ s[i].memory[q].key = t[i].memory[q].key
          /\ s[i].memory[r].key = t[i].memory[r].key
      BY <3>1, <3>2, <1>2, <1>6, <1>8
    <3>. QED BY <3>1, <3>3, <2>2 DEF Good, Placed
  <2>. QED BY <2>1, <2>2
<1>. QED BY <1>5, <1>6, <1>8, <1>9, <1>10 DEF Good, s

\* erase moves the entries behind the erased one up, and touches no other.
LEMMA Erased ==
  ASSUME NEW t, Good(t), NEW k \in Key, Has(t, k)
  PROVE  LET s == Erase(t, k)
             i == IndexOf(k)
             p == Position(t, k)
         IN /\ Good(s)
            /\ s[i].len = t[i].len - 1
            /\ Len(s[i].memory) = Len(t[i].memory)
            /\ \A q \in 1 .. t[i].len - 1 :
                 s[i].memory[q] = t[i].memory[IF q < p THEN q ELSE q + 1]
            /\ \A j \in Index \ {i} : s[j] = t[j]
<1> DEFINE s == Erase(t, k)
           i == IndexOf(k)
           p == Position(t, k)
           b == t[i]
           m == [q \in DOMAIN b.memory |-> IF q \in p .. b.len - 1
                                          THEN b.memory[q + 1]
                                          ELSE b.memory[q]]
<1>1. i \in Index
  BY IndexType
<1>2. b \in Bucket /\ t \in [Index -> Bucket] /\ b.len <= Len(b.memory)
  BY <1>1 DEF Good, Table, InMemory
<1>3. b.memory \in Seq(Node) /\ b.len \in Nat /\ Len(b.memory) \in Nat
  BY <1>2 DEF Bucket
<1>4. p \in 1 .. b.len /\ b.memory[p].key = k
  BY Found
<1>5. \A q \in 1 .. Len(b.memory) : b.memory[q] \in Node
  BY <1>3, ElementOfSeq
<1>6. s = [t EXCEPT ![i] = [memory |-> m, len |-> b.len - 1]]
  BY <1>1, <1>2 DEF Erase
<1>7. DOMAIN b.memory = 1 .. Len(b.memory)
  BY <1>3
<1>8. m \in Seq(Node) /\ Len(m) = Len(b.memory)
  <2>1. m \in [1 .. Len(b.memory) -> Node]
    BY <1>2, <1>3, <1>4, <1>5, <1>7
  <2> HIDE DEF m
  <2>. QED BY <2>1, <1>3, IsASeq, LenProperties
<1>9. \A q \in 1 .. b.len - 1 :
        m[q] = b.memory[IF q < p THEN q ELSE q + 1]
  BY <1>2, <1>3, <1>4, <1>7
<1> HIDE DEF m, s, p
<1>10. /\ s[i].memory = m /\ s[i].len = b.len - 1
       /\ \A j \in Index \ {i} : s[j] = t[j]
  BY <1>1, <1>2, <1>6
<1>11. s \in Table /\ InMemory(s)
  BY <1>1, <1>2, <1>3, <1>4, <1>6, <1>8, <1>10 DEF Good, Table, Bucket, InMemory
<1>12. Placed(s)
  <2> SUFFICES ASSUME NEW j \in Index, NEW q \in 1 .. s[j].len,
                      NEW r \in 1 .. s[j].len
               PROVE  /\ IndexOf(s[j].memory[q].key) = j
                      /\ s[j].memory[q].key = s[j].memory[r].key => q = r
    BY DEF Placed
  <2>1. CASE j # i
    BY <2>1, <1>10 DEF Good, Placed
  <2>2. CASE j = i
    <3> DEFINE From(x) == IF x < p THEN x ELSE x + 1
    <3>1. q \in 1 .. b.len - 1 /\ r \in 1 .. b.len - 1
      BY <2>2, <1>10
    <3>2. /\ From(q) \in 1 .. b.len /\ From(r) \in 1 .. b.len
          /\ From(q) = From(r) => q = r
      BY <3>1, <1>3, <1>4
    <3>3. /\ s[j].memory[q] = b.memory[From(q)]
          /\ s[j].memory[r] = b.memory[From(r)]
      BY <3>1, <2>2, <1>9, <1>10
    <3> HIDE DEF From
    <3>. QED BY <3>2, <3>3, <2>2 DEF Good, Placed
  <2>. QED BY <2>1, <2>2
<1>. QED BY <1>8, <1>9, <1>10, <1>11, <1>12 DEF Good, s, p

-----------------------------------------------------------------------------
(* What the operations make of the entries as find sees them.              *)

LEMMA SubscriptMap ==
  ASSUME NEW t, Good(t), NEW k \in Key
  PROVE  LET s == Subscript(t, k)
         IN /\ Good(s)
            /\ Has(s, k)
            /\ \A l \in Key \ {k} : Has(s, l) <=> Has(t, l)
            /\ \A l \in Key : Has(t, l) => At(s, l) = At(t, l)
<1> DEFINE s == Subscript(t, k)
           i == IndexOf(k)
<1>1. CASE Has(t, k)
  BY <1>1 DEF Subscript
<1>2. CASE ~ Has(t, k)
  <2>1. i \in Index /\ t[i].len \in Nat
    BY IndexType DEF Good, Table, Bucket
  <2>2. /\ Good(s)
        /\ s[i].len = t[i].len + 1
        /\ s[i].memory[t[i].len + 1].key = k
        /\ \A p \in 1 .. t[i].len : s[i].memory[p] = t[i].memory[p]
        /\ \A j \in Index \ {i} : s[j] = t[j]
    BY <1>2, SubscriptNew
  <2> HIDE DEF s, i
  <2>3. Has(s, k)
    BY <2>1, <2>2, Entry
  <2>4. ASSUME NEW l \in Key, Has(t, l)
        PROVE  Has(s, l) /\ At(s, l) = At(t, l)
    <3> DEFINE j == IndexOf(l)
               p == Position(t, l)
    <3>1. j \in Index /\ p \in 1 .. t[j].len /\ t[j].memory[p].key = l
      BY <2>4, IndexType, Found
    <3>2. p \in 1 .. s[j].len /\ s[j].memory[p] = t[j].memory[p]
      BY <2>1, <2>2, <3>1
    <3>3. At(t, l) = t[j].memory[p].value
      BY DEF At
    <3> HIDE DEF j, p
    <3>. QED BY <2>2, <3>1, <3>2, <3>3, Entry
  <2>5. ASSUME NEW l \in Key \ {k}, Has(s, l)
        PROVE  Has(t, l)
    <3> DEFINE j == IndexOf(l)
               p == Position(s, l)
    <3>1. j \in Index /\ p \in 1 .. s[j].len /\ s[j].memory[p].key = l
      BY <2>2, <2>5, IndexType, Found
    <3>2. p \in 1 .. t[j].len /\ s[j].memory[p] = t[j].memory[p]
      BY <2>1, <2>2, <3>1
    <3> HIDE DEF j, p
    <3>. QED BY <3>1, <3>2, Entry
  <2>. QED BY <2>2, <2>3, <2>4, <2>5 DEF s
<1>. QED BY <1>1, <1>2

LEMMA StoreMap ==
  ASSUME NEW t, Good(t), NEW k \in Key, NEW v \in Value
  PROVE  LET s == Store(t, k, v)
         IN /\ Good(s)
            /\ Has(s, k) /\ At(s, k) = v
            /\ \A l \in Key \ {k} : Has(s, l) <=> Has(t, l)
            /\ \A l \in Key \ {k} : Has(t, l) => At(s, l) = At(t, l)
<1> DEFINE u == Subscript(t, k)
           i == IndexOf(k)
           p == Position(u, k)
           s == Write(u, i, p, v)
<1>1. /\ Good(u) /\ Has(u, k)
      /\ \A l \in Key \ {k} : Has(u, l) <=> Has(t, l)
      /\ \A l \in Key : Has(t, l) => At(u, l) = At(t, l)
  BY SubscriptMap
<1>2. Store(t, k, v) = s
  BY DEF Store
<1> HIDE DEF u
<1>3. i \in Index /\ p \in 1 .. u[i].len /\ u[i].memory[p].key = k
  BY <1>1, IndexType, Found
<1>4. \A j \in Index : /\ u[j].len \in Nat /\ u[j].len <= Len(u[j].memory)
                       /\ Len(u[j].memory) \in Nat
  BY <1>1 DEF Good, Table, Bucket, InMemory
<1>5. p \in 1 .. Len(u[i].memory)
  BY <1>3, <1>4
<1>6. /\ Good(s)
      /\ s[i].len = u[i].len
      /\ \A q \in 1 .. Len(u[i].memory) :
           /\ s[i].memory[q].key = u[i].memory[q].key
           /\ s[i].memory[q].value = IF q = p THEN v ELSE u[i].memory[q].value
      /\ \A j \in Index \ {i} : s[j] = u[j]
  BY <1>1, <1>3, <1>5, Written
<1> HIDE DEF s, i, p
<1>7. \A j \in Index : \A q \in 1 .. u[j].len :
        /\ q \in 1 .. s[j].len
        /\ s[j].memory[q].key = u[j].memory[q].key
        /\ (j = i /\ q = p) => s[j].memory[q].value = v
        /\ ~ (j = i /\ q = p) => s[j].memory[q].value = u[j].memory[q].value
  BY <1>4, <1>6
<1>8. Has(s, k) /\ At(s, k) = v
  BY <1>3, <1>6, <1>7, Entry
<1>9. ASSUME NEW l \in Key \ {k}, Has(u, l)
      PROVE  Has(s, l) /\ At(s, l) = At(u, l)
  <2> DEFINE j == IndexOf(l)
             q == Position(u, l)
  <2>1. j \in Index /\ q \in 1 .. u[j].len /\ u[j].memory[q].key = l
    BY <1>1, <1>9, IndexType, Found
  <2>2. At(u, l) = u[j].memory[q].value
    BY DEF At
  <2> HIDE DEF j, q
  <2>3. ~ (j = i /\ q = p)
    BY <1>3, <2>1
  <2>4. /\ q \in 1 .. s[j].len /\ s[j].memory[q].key = l
        /\ s[j].memory[q].value = u[j].memory[q].value
    BY <1>7, <2>1, <2>3
  <2>. QED BY <1>6, <2>1, <2>2, <2>4, Entry
<1>10. ASSUME NEW l \in Key \ {k}, Has(s, l)
       PROVE  Has(u, l)
  <2> DEFINE j == IndexOf(l)
             q == Position(s, l)
  <2>1. j \in Index /\ q \in 1 .. s[j].len /\ s[j].memory[q].key = l
    BY <1>6, <1>10, IndexType, Found
  <2> HIDE DEF j, q
  <2>2. q \in 1 .. u[j].len
    BY <1>6, <2>1
  <2>3. u[j].memory[q].key = l
    BY <1>7, <2>1, <2>2
  <2>. QED BY <1>1, <2>1, <2>2, <2>3, Entry
<1>. QED BY <1>1, <1>2, <1>6, <1>8, <1>9, <1>10

LEMMA EraseMap ==
  ASSUME NEW t, Good(t), NEW k \in Key, Has(t, k)
  PROVE  LET s == Erase(t, k)
         IN /\ Good(s)
            /\ ~ Has(s, k)
            /\ \A l \in Key \ {k} : Has(s, l) <=> Has(t, l)
            /\ \A l \in Key \ {k} : Has(t, l) => At(s, l) = At(t, l)
<1> DEFINE s == Erase(t, k)
           i == IndexOf(k)
           p == Position(t, k)
           From(x) == IF x < p THEN x ELSE x + 1
<1>1. /\ Good(s)
      /\ s[i].len = t[i].len - 1
      /\ \A q \in 1 .. t[i].len - 1 :
           s[i].memory[q] = t[i].memory[IF q < p THEN q ELSE q + 1]
      /\ \A j \in Index \ {i} : s[j] = t[j]
  BY Erased
<1>2. i \in Index /\ p \in 1 .. t[i].len /\ t[i].memory[p].key = k
  BY IndexType, Found
<1>3. t[i].len \in Nat
  BY <1>2 DEF Good, Table, Bucket
<1> HIDE DEF s, i, p
<1>4. ~ Has(s, k)
  <2>1. SUFFICES ASSUME Has(s, k) PROVE FALSE
    OBVIOUS
  <2> DEFINE q == Position(s, k)
  <2>2. q \in 1 .. s[i].len /\ s[i].memory[q].key = k
    BY <1>1, <2>1, Found DEF i
  <2> HIDE DEF q
  <2>3. /\ From(q) \in 1 .. t[i].len /\ From(q) # p
        /\ t[i].memory[From(q)].key = k
    BY <1>1, <1>2, <1>3, <2>2
  <2> HIDE DEF From
  <2>4. From(q) = Position(t, k)
    BY <1>2, <2>3, Entry
  <2>. QED BY <2>3, <2>4 DEF p
<1>5. ASSUME NEW l \in Key \ {k}, Has(t, l)
      PROVE  Has(s, l) /\ At(s, l) = At(t, l)
  <2> DEFINE j == IndexOf(l)
             q == Position(t, l)
             r == IF j = i /\ q > p THEN q - 1 ELSE q
  <2>1. j \in Index /\ q \in 1 .. t[j].len /\ t[j].memory[q].key = l
    BY <1>5, IndexType, Found
  <2>2. At(t, l) = t[j].memory[q].value
    BY DEF At
  <2> HIDE DEF j, q
  <2>3. ~ (j = i /\ q = p)
    BY <1>2, <2>1
  <2>4. r \in 1 .. s[j].len /\ s[j].memory[r] = t[j].memory[q]
    BY <1>1, <1>2, <1>3, <2>1, <2>3
  <2> HIDE DEF r
  <2>. QED BY <1>1, <2>1, <2>2, <2>4, Entry
<1>6. ASSUME NEW l \in Key \ {k}, Has(s, l)
      PROVE  Has(t, l)
  <2> DEFINE j == IndexOf(l)
             q == Position(s, l)
             r == IF j = i THEN From(q) ELSE q
  <2>1. j \in Index /\ q \in 1 .. s[j].len /\ s[j].memory[q].key = l
    BY <1>1, <1>6, IndexType, Found
  <2> HIDE DEF j, q
  <2>2. r \in 1 .. t[j].len /\ t[j].memory[r].key = l
    BY <1>1, <1>2, <1>3, <2>1
  <2> HIDE DEF r
  <2>. QED BY <2>1, <2>2, Entry
<1>. QED BY <1>1, <1>4, <1>5, <1>6 DEF s

-----------------------------------------------------------------------------
(* The memory behind the entries.                                         *)

\* Whatever was erased, a node in memory has a key of the bucket it is in.
MemoryPlaced(t) ==
  \A i \in Index : \A p \in 1 .. Len(t[i].memory) : IndexOf(t[i].memory[p].key) = i

LEMMA AddedMemory ==
  ASSUME NEW b \in Bucket, b.len <= Len(b.memory), NEW k \in Key, NEW i,
         IndexOf(k) = i, \A p \in 1 .. Len(b.memory) : IndexOf(b.memory[p].key) = i
  PROVE  \A p \in 1 .. Len(AddEntry(b, k).memory) : IndexOf(AddEntry(b, k).memory[p].key) = i
<1> DEFINE n == b.len + 1
           kept == Reallocated(b.memory, n)
           node == [key |-> k, value |-> Zero]
<1>1. /\ b.memory \in Seq(Node) /\ b.len \in Nat /\ n \in Nat
      /\ Len(b.memory) \in Nat
      /\ Spare \in Nat
  BY SpareAssumption DEF Bucket
<1>2. /\ kept \in Seq(Node) /\ Len(kept) \in Nat
      /\ \A p \in 1 .. Len(kept) : IndexOf(kept[p].key) = i
  <2>1. CASE Len(b.memory) <= n + Spare
    BY <1>1, <2>1 DEF Reallocated
  <2>2. CASE ~(Len(b.memory) <= n + Spare)
    <3>1. n + Spare \in Nat /\ n + Spare <= Len(b.memory)
      BY <1>1, <2>2
    <3>2. \A q \in 1..(n + Spare) : b.memory[q] \in Node
      BY <1>1, <3>1
    <3>3. kept = SubSeq(b.memory, 1, n + Spare)
      BY <2>2 DEF Reallocated
    <3> HIDE DEF kept, n
    <3>4. kept \in Seq(Node) /\ Len(kept) = n + Spare /\ \A p \in 1..(n + Spare) : kept[p] = b.memory[p]
      BY <1>1, <3>1, <3>2, <3>3, SubSeqProperties
    <3> QED BY <1>1, <3>1, <3>4
  <2> QED BY <2>1, <2>2
<1>3. CASE n <= Len(kept)
  <2> DEFINE s == [kept EXCEPT ![n].key = k]
  <2>1. n \in 1 .. Len(kept)
    BY <1>1, <1>2, <1>3
  <2>2. kept[n] \in Node
    BY <2>1, <1>2, ElementOfSeq
  <2>3. [kept[n] EXCEPT !.key = k] \in Node
    BY <2>2 DEF Node
  <2>4. s \in Seq(Node) /\ Len(s) = Len(kept)
    BY <2>1, <2>3, <1>2, ExceptSeq
  <2>5. s[n].key = k /\ \A p \in 1 .. Len(kept) : p # n => s[p] = kept[p]
    BY <2>1, <2>2, <1>1, <1>2 DEF Node
  <2>6. AddEntry(b, k).memory = s
    BY <1>3 DEF AddEntry
  <2> HIDE DEF s, kept, n
  <2>7. \A p \in 1 .. Len(kept) : IndexOf(s[p].key) = i
    BY <1>2, <2>5
  <2>. QED BY <2>4, <2>6, <2>7
<1>4. CASE ~ (n <= Len(kept))
  <2> DEFINE s == Append(kept, node)
  <2>2. node \in Node /\ node.key = k
    BY ZeroAssumption DEF Node
  <2> HIDE DEF node
  <2>3. /\ s \in Seq(Node) /\ Len(s) = Len(kept) + 1 /\ s[Len(kept) + 1] = node
        /\ \A p \in 1 .. Len(kept) : s[p] = kept[p]
    BY <2>2, <1>2, AppendProperties
  <2>4. AddEntry(b, k).memory = s
    BY <1>4 DEF AddEntry, node
  <2> HIDE DEF s, kept
  <2>5. ASSUME NEW p \in 1 .. Len(kept) + 1
        PROVE  IndexOf(s[p].key) = i
    <3>1. p \in 1 .. Len(kept) \/ p = Len(kept) + 1
      BY <1>2
    <3>. QED BY <1>2, <2>2, <2>3, <3>1
  <2>. QED BY <2>3, <2>4, <2>5
<1>. QED BY <1>3, <1>4

LEMMA SubscriptMemory ==
  ASSUME NEW t, Good(t), MemoryPlaced(t), NEW k \in Key
  PROVE  MemoryPlaced(Subscript(t, k))
<1> DEFINE i == IndexOf(k)
           s == Subscript(t, k)
<1>1. CASE Has(t, k)
  BY <1>1 DEF Subscript
<1>2. CASE ~ Has(t, k)
  <2>1. i \in Index
    BY IndexType
  <2>2. t[i] \in Bucket /\ t[i].len <= Len(t[i].memory) /\ t \in [Index -> Bucket]
    BY <2>1 DEF Good, Table, InMemory
  <2>3. s = [t EXCEPT ![i] = AddEntry(t[i], k)]
    BY <1>2 DEF Subscript
  <2>4. s[i] = AddEntry(t[i], k) /\ \A j \in Index \ {i} : s[j] = t[j]
    BY <2>1, <2>2, <2>3
  <2>5. \A p \in 1 .. Len(t[i].memory) : IndexOf(t[i].memory[p].key) = i
    BY <2>1 DEF MemoryPlaced
  <2>6. \A p \in 1 .. Len(AddEntry(t[i], k).memory) : IndexOf(AddEntry(t[i], k).memory[p].key) = i
    BY <2>2, <2>5, AddedMemory
  <2> HIDE DEF s, i
  <2>7. MemoryPlaced(s)
    BY <2>4, <2>6 DEF MemoryPlaced
  <2>. QED BY <2>7 DEF s
<1>. QED BY <1>1, <1>2

LEMMA WriteMemory ==
  ASSUME NEW t, Good(t), MemoryPlaced(t), NEW i \in Index, NEW p \in 1 .. Len(t[i].memory),
         NEW v \in Value
  PROVE  MemoryPlaced(Write(t, i, p, v))
<1> DEFINE s == Write(t, i, p, v)
<1>1. /\ \A q \in 1 .. Len(t[i].memory) : s[i].memory[q].key = t[i].memory[q].key
      /\ \A j \in Index \ {i} : s[j] = t[j]
      /\ Len(s[i].memory) = Len(t[i].memory)
  BY Written
<1> HIDE DEF s
<1>2. MemoryPlaced(s)
  BY <1>1 DEF MemoryPlaced
<1>. QED BY <1>2 DEF s

LEMMA StoreMemory ==
  ASSUME NEW t, Good(t), MemoryPlaced(t), NEW k \in Key, NEW v \in Value
  PROVE  MemoryPlaced(Store(t, k, v))
<1> DEFINE s == Subscript(t, k)  i == IndexOf(k)  p == Position(s, k)
<1>1. Good(s) /\ Has(s, k) /\ MemoryPlaced(s)
  BY SubscriptMap, SubscriptMemory
<1>2. i \in Index /\ p \in 1 .. s[i].len
  BY <1>1, Found, IndexType
<1> HIDE DEF s
<1>3. s[i].len \in Nat /\ Len(s[i].memory) \in Nat /\ s[i].len <= Len(s[i].memory)
  BY <1>1, <1>2, LenProperties DEF Good, Table, Bucket, InMemory
<1>4. p \in 1 .. Len(s[i].memory)
  BY <1>2, <1>3
<1> HIDE DEF p, i
<1>5. MemoryPlaced(Write(s, i, p, v))
  BY <1>1, <1>2, <1>4, WriteMemory
<1>. QED BY <1>5 DEF Store, s, p, i

LEMMA EraseMemory ==
  ASSUME NEW t, Good(t), MemoryPlaced(t), NEW k \in Key, Has(t, k)
  PROVE  MemoryPlaced(Erase(t, k))
<1> DEFINE s == Erase(t, k)
           i == IndexOf(k)
           p == Position(t, k)
           b == t[i]
           m == [q \in DOMAIN b.memory |-> IF q \in p .. b.len - 1
                                          THEN b.memory[q + 1]
                                          ELSE b.memory[q]]
<1>1. i \in Index
  BY IndexType
<1>2. b \in Bucket /\ t \in [Index -> Bucket] /\ b.len <= Len(b.memory)
  BY <1>1 DEF Good, Table, InMemory
<1>3. b.memory \in Seq(Node) /\ b.len \in Nat /\ Len(b.memory) \in Nat
  BY <1>2 DEF Bucket
<1>4. p \in 1 .. b.len
  BY Found
<1>5. s = [t EXCEPT ![i] = [memory |-> m, len |-> b.len - 1]]
  BY <1>1, <1>2 DEF Erase
<1>6. DOMAIN b.memory = 1 .. Len(b.memory)
  BY <1>3
<1>7. Len(s[i].memory) = Len(b.memory)
  BY Erased
<1>8. \A q \in 1 .. Len(b.memory) : \E r \in 1 .. Len(b.memory) : m[q] = b.memory[r]
  <2> SUFFICES ASSUME NEW q \in 1 .. Len(b.memory)
               PROVE  \E r \in 1 .. Len(b.memory) : m[q] = b.memory[r]
    OBVIOUS
  <2>1. CASE q \in p .. b.len - 1
    <3>1. m[q] = b.memory[q + 1]
      BY <1>6, <2>1
    <3>2. q + 1 \in 1 .. Len(b.memory)
      BY <1>2, <1>3, <1>4, <2>1
    <3> HIDE DEF m
    <3>. QED BY <3>1, <3>2
  <2>2. CASE q \notin p .. b.len - 1
    <3>1. m[q] = b.memory[q]
      BY <1>6, <2>2
    <3> HIDE DEF m
    <3>. QED BY <3>1
  <2>. QED BY <2>1, <2>2
<1> HIDE DEF m, s, p
<1>9. s[i].memory = m /\ \A j \in Index \ {i} : s[j] = t[j]
  BY <1>1, <1>2, <1>5
<1>10. \A q \in 1 .. Len(b.memory) : IndexOf(b.memory[q].key) = i
  BY <1>1 DEF MemoryPlaced
<1>11. \A q \in 1 .. Len(s[i].memory) : IndexOf(s[i].memory[q].key) = i
  <2>1. ASSUME NEW q \in 1 .. Len(b.memory) PROVE IndexOf(m[q].key) = i
    <3>1. PICK r \in 1 .. Len(b.memory) : m[q] = b.memory[r]
      BY <1>8
    <3>. QED BY <1>10, <3>1
  <2>. QED BY <1>7, <1>9, <2>1
<1> HIDE DEF i
<1>12. MemoryPlaced(s)
  BY <1>9, <1>11 DEF MemoryPlaced
<1>. QED BY <1>12 DEF s

-----------------------------------------------------------------------------
(* What is past the entries.                                               *)

\* The new entry is the node after the last one, with the value it has, and
\* those behind it stay or are given back.
LEMMA AddedPast ==
  ASSUME NEW b \in Bucket, b.len <= Len(b.memory), NEW k \in Key
  PROVE  LET a == AddEntry(b, k)
         IN /\ a.memory[b.len + 1].value =
                 IF b.len < Len(b.memory) THEN b.memory[b.len + 1].value ELSE Zero
            /\ \A q \in (b.len + 2) .. Len(a.memory) :
                 q <= Len(b.memory) /\ a.memory[q] = b.memory[q]
            /\ b.len = Len(b.memory) => Len(a.memory) = b.len + 1
<1> DEFINE n == b.len + 1
           kept == Reallocated(b.memory, n)
           node == [key |-> k, value |-> Zero]
<1>1. /\ b.memory \in Seq(Node) /\ b.len \in Nat /\ n \in Nat
      /\ Len(b.memory) \in Nat
      /\ Spare \in Nat
  BY SpareAssumption DEF Bucket
<1>2. /\ kept \in Seq(Node) /\ Len(kept) \in Nat
      /\ b.len <= Len(kept) /\ Len(kept) <= Len(b.memory)
      /\ b.len < Len(b.memory) => n <= Len(kept)
      /\ \A p \in 1 .. Len(kept) : kept[p] = b.memory[p]
  <2>1. CASE Len(b.memory) <= n + Spare
    BY <1>1, <2>1 DEF Reallocated
  <2>2. CASE ~(Len(b.memory) <= n + Spare)
    <3>1. n + Spare \in Nat /\ n + Spare <= Len(b.memory)
      BY <1>1, <2>2
    <3>2. \A q \in 1..(n + Spare) : b.memory[q] \in Node
      BY <1>1, <3>1
    <3>3. kept = SubSeq(b.memory, 1, n + Spare)
      BY <2>2 DEF Reallocated
    <3> HIDE DEF kept
    <3>4. kept \in Seq(Node) /\ Len(kept) = n + Spare /\ \A p \in 1..(n + Spare) : kept[p] = b.memory[p]
      <4> HIDE DEF n
      <4> QED BY <1>1, <3>1, <3>2, <3>3, SubSeqProperties
    <3> QED BY <1>1, <3>1, <3>4
  <2> QED BY <2>1, <2>2
<1>3. CASE n <= Len(kept)
  <2> DEFINE s == [kept EXCEPT ![n].key = k]
  <2>1. n \in 1 .. Len(kept)
    BY <1>1, <1>2, <1>3
  <2>2. kept[n] \in Node
    BY <2>1, <1>2, ElementOfSeq
  <2>3. [kept[n] EXCEPT !.key = k] \in Node
    BY <2>2 DEF Node
  <2>4. s \in Seq(Node) /\ Len(s) = Len(kept)
    BY <2>1, <2>3, <1>2, ExceptSeq
  <2>5. s[n].value = kept[n].value /\ \A p \in 1 .. Len(kept) : p # n => s[p] = kept[p]
    BY <2>1, <2>2, <1>1, <1>2 DEF Node
  <2>6. AddEntry(b, k).memory = s
    BY <1>3 DEF AddEntry
  <2> HIDE DEF s, kept
  <2>7. /\ s[n].value = b.memory[n].value /\ b.len < Len(b.memory)
        /\ \A q \in (b.len + 2) .. Len(s) : q <= Len(b.memory) /\ s[q] = b.memory[q]
        /\ b.len = Len(b.memory) => Len(s) = b.len + 1
    BY <1>1, <1>2, <1>3, <2>1, <2>4, <2>5
  <2>. QED BY <2>6, <2>7
<1>4. CASE ~ (n <= Len(kept))
  <2> DEFINE s == Append(kept, node)
  <2>2. node \in Node /\ node.value = Zero
    BY ZeroAssumption DEF Node
  <2> HIDE DEF node
  <2>3. /\ s \in Seq(Node) /\ Len(s) = Len(kept) + 1 /\ s[Len(kept) + 1] = node
        /\ \A p \in 1 .. Len(kept) : s[p] = kept[p]
    BY <2>2, <1>2, AppendProperties
  <2>4. AddEntry(b, k).memory = s
    BY <1>4 DEF AddEntry, node
  <2> HIDE DEF s, kept
  <2>5. Len(kept) = b.len /\ b.len = Len(b.memory)
    BY <1>1, <1>2, <1>4
  <2>6. /\ s[b.len + 1].value = Zero
        /\ ~(b.len < Len(b.memory))
        /\ \A q \in (b.len + 2) .. Len(s) : q <= Len(b.memory) /\ s[q] = b.memory[q]
        /\ Len(s) = b.len + 1
    BY <1>1, <2>2, <2>3, <2>5
  <2>. QED BY <2>4, <2>6
<1>. QED BY <1>3, <1>4

LEMMA SubscriptPast ==
  ASSUME NEW t, Good(t), NEW k \in Key, ~ Has(t, k)
  PROVE  LET s == Subscript(t, k)
             i == IndexOf(k)
         IN /\ s[i].len = t[i].len + 1
            /\ At(s, k) = IF t[i].len < Len(t[i].memory)
                          THEN t[i].memory[t[i].len + 1].value ELSE Zero
            /\ \A q \in (t[i].len + 2) .. Len(s[i].memory) :
                 q <= Len(t[i].memory) /\ s[i].memory[q] = t[i].memory[q]
            /\ t[i].len = Len(t[i].memory) => Len(s[i].memory) = t[i].len + 1
            /\ \A j \in Index \ {i} : s[j] = t[j]
<1> DEFINE i == IndexOf(k)
           s == Subscript(t, k)
<1>1. i \in Index
  BY IndexType
<1>2. t[i] \in Bucket /\ t[i].len <= Len(t[i].memory) /\ t \in [Index -> Bucket] /\ t[i].len \in Nat
  BY <1>1 DEF Good, Table, InMemory, Bucket
<1>3. s = [t EXCEPT ![i] = AddEntry(t[i], k)]
  BY DEF Subscript
<1>4. s[i] = AddEntry(t[i], k)
  BY <1>1, <1>2, <1>3
<1>5. /\ Good(s)
      /\ s[i].len = t[i].len + 1
      /\ s[i].memory[t[i].len + 1].key = k
      /\ \A j \in Index \ {i} : s[j] = t[j]
  BY SubscriptNew
<1>6. At(s, k) = s[i].memory[t[i].len + 1].value
  <2> HIDE DEF s, i
  <2>1. t[i].len + 1 \in 1 .. s[i].len
    BY <1>2, <1>5
  <2>. QED BY <1>1, <1>5, <2>1, Entry
<1> HIDE DEF s, i
<1>7. /\ s[i].memory[t[i].len + 1].value =
           IF t[i].len < Len(t[i].memory) THEN t[i].memory[t[i].len + 1].value ELSE Zero
      /\ \A q \in (t[i].len + 2) .. Len(s[i].memory) :
           q <= Len(t[i].memory) /\ s[i].memory[q] = t[i].memory[q]
      /\ t[i].len = Len(t[i].memory) => Len(s[i].memory) = t[i].len + 1
  <2> DEFINE b == t[i]
  <2>1. b \in Bucket /\ b.len <= Len(b.memory)
    BY <1>2
  <2> HIDE DEF b
  <2>2. /\ AddEntry(b, k).memory[b.len + 1].value =
             IF b.len < Len(b.memory) THEN b.memory[b.len + 1].value ELSE Zero
        /\ \A q \in (b.len + 2) .. Len(AddEntry(b, k).memory) :
             q <= Len(b.memory) /\ AddEntry(b, k).memory[q] = b.memory[q]
        /\ b.len = Len(b.memory) => Len(AddEntry(b, k).memory) = b.len + 1
    BY <2>1, AddedPast
  <2>. QED BY <1>4, <2>2 DEF b
<1>. QED BY <1>5, <1>6, <1>7 DEF s, i

\* erase leaves the last entry where it was, behind the entries.
LEMMA ErasedPast ==
  ASSUME NEW t, Good(t), NEW k \in Key, Has(t, k)
  PROVE  LET s == Erase(t, k)
             i == IndexOf(k)
         IN \A q \in t[i].len .. Len(t[i].memory) : s[i].memory[q] = t[i].memory[q]
<1> DEFINE s == Erase(t, k)
           i == IndexOf(k)
           p == Position(t, k)
           b == t[i]
           m == [q \in DOMAIN b.memory |-> IF q \in p .. b.len - 1
                                          THEN b.memory[q + 1]
                                          ELSE b.memory[q]]
<1>1. i \in Index
  BY IndexType
<1>2. b \in Bucket /\ t \in [Index -> Bucket] /\ b.len <= Len(b.memory)
  BY <1>1 DEF Good, Table, InMemory
<1>3. b.memory \in Seq(Node) /\ b.len \in Nat /\ Len(b.memory) \in Nat
  BY <1>2 DEF Bucket
<1>4. p \in 1 .. b.len
  BY Found
<1>5. s = [t EXCEPT ![i] = [memory |-> m, len |-> b.len - 1]]
  BY <1>1, <1>2 DEF Erase
<1>6. DOMAIN b.memory = 1 .. Len(b.memory)
  BY <1>3
<1>7. \A q \in b.len .. Len(b.memory) : m[q] = b.memory[q]
  BY <1>3, <1>4, <1>6
<1> HIDE DEF m, s, p
<1>8. s[i].memory = m
  BY <1>1, <1>2, <1>5
<1>. QED BY <1>7, <1>8 DEF s

-----------------------------------------------------------------------------
(* Indexes and buckets.                                                    *)

LEMMA IndexFacts ==
  /\ HASH_SIZE \in Nat
  /\ \A i : i \in Index <=> i \in Nat /\ i < HASH_SIZE
BY SizeAssumption DEF Index

LEMMA BucketFacts ==
  ASSUME NEW t, Good(t), NEW i \in Index
  PROVE  /\ t[i].memory \in Seq(Node)
         /\ t[i].len \in Nat /\ Len(t[i].memory) \in Nat
         /\ t[i].len <= Len(t[i].memory)
         /\ t[i].memory = <<>> => t[i].len = 0
<1>1. t[i].memory \in Seq(Node) /\ t[i].len \in Nat /\ t[i].len <= Len(t[i].memory)
  BY DEF Good, Table, Bucket, InMemory
<1>. QED BY <1>1, EmptySeq, LenProperties
=============================================================================
