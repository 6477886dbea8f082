--------------------------- MODULE DatabasesProofs ---------------------------
(***************************************************************************)
(* InMemoryDatabase stands in for SqliteDatabase: the vectors hold the     *)
(* SQLite rows and orphans apart from them, and the look-ups agree, for    *)
(* any clients, addresses, ids and calls up to the first SQLite refuses.   *)
(***************************************************************************)
EXTENDS Databases, FiniteSetTheorems, TLAPS

-----------------------------------------------------------------------------
(* What the methods of Vec return. *)

(* A set of naturals has a least element. *)
LEMMA LeastNumber ==
    ASSUME NEW T, T \subseteq Nat, T # {}
    PROVE  \E x \in T : \A y \in T : x <= y
<1>0. \A x, y \in Nat : ~ (y < x) => x <= y
  OBVIOUS
<1> DEFINE R == OpToRel(<, Nat)
<1>1. IsWellFoundedOn(R, Nat)
  BY NatLessThanWellFounded
<1>2. PICK x \in T : \A y \in T : ~ (<<y, x>> \in R)
  <2> HIDE DEF R
  <2> QED
    BY <1>1, WFMin
<1>3. \A y \in T : ~ (y < x)
  BY <1>2 DEF OpToRel
<1> QED
  BY <1>0, <1>3, Zenon

(* find() finds a row exactly if there is one to find. *)
LEMMA FirstFound ==
    ASSUME NEW S, NEW vec \in Seq(S), NEW wanted
    PROVE  /\ First(vec, wanted) \subseteq RowsOf(vec) \cap wanted
           /\ First(vec, wanted) = {} => RowsOf(vec) \cap wanted = {}
<1>1. First(vec, wanted) \subseteq RowsOf(vec) \cap wanted
  BY DEF First, FirstAt, RowsOf
<1>2. ASSUME RowsOf(vec) \cap wanted # {}
      PROVE  First(vec, wanted) # {}
  <2> DEFINE T == {i \in DOMAIN vec : vec[i] \in wanted}
  <2>1. T \subseteq Nat /\ T # {}
    BY <1>2 DEF RowsOf
  <2>2. PICK i \in T : \A j \in T : i <= j
    <3> HIDE DEF T
    <3> QED
      BY <2>1, LeastNumber
  <2>3. i \in FirstAt(vec, wanted)
    BY <2>2 DEF FirstAt
  <2> QED
    BY <2>3 DEF First
<1> QED
  BY <1>1, <1>2

(* The recurrence of Retain, up to a position. *)
Filters(f, m, vec, kept) ==
    f = [i \in 0..m |->
            IF i = 0 THEN <<>>
            ELSE IF vec[i] \in kept THEN Append(f[i - 1], vec[i]) ELSE f[i - 1]]

LEMMA FilterExists ==
    ASSUME NEW S, NEW vec \in Seq(S), NEW kept
    PROVE  \E f : Filters(f, Len(vec), vec, kept)
<1> DEFINE Bad == {m \in 0..Len(vec) : ~ \E f : Filters(f, m, vec, kept)}
<1> SUFFICES ASSUME Bad # {} PROVE FALSE
  <2>1. Len(vec) \in 0..Len(vec)
    OBVIOUS
  <2> QED
    BY <2>1, Zenon
<1>1. PICK m \in Bad : \A y \in Bad : m <= y
  <2>1. Bad \subseteq Nat
    OBVIOUS
  <2> HIDE DEF Bad
  <2> QED
    BY <2>1, LeastNumber
<1>2. CASE m = 0
  <2>1. Filters([i \in 0..0 |-> <<>>], 0, vec, kept)
    BY DEF Filters
  <2> QED
    BY <1>1, <1>2, <2>1
<1>3. CASE m > 0
  <2>1. m - 1 \in 0..Len(vec) /\ m - 1 \notin Bad
    BY <1>1, <1>3
  <2>2. PICK f : Filters(f, m - 1, vec, kept)
    BY <2>1
  <2> DEFINE last == IF vec[m] \in kept THEN Append(f[m - 1], vec[m]) ELSE f[m - 1]
             g == [i \in 0..m |-> IF i = m THEN last ELSE f[i]]
  <2> HIDE DEF last
  <2>3. \A i \in 0..m : g[i] = IF i = m THEN last ELSE f[i]
    OBVIOUS
  <2>4. \A i \in 0..(m - 1) : f[i] = IF i = 0 THEN <<>>
            ELSE IF vec[i] \in kept THEN Append(f[i - 1], vec[i]) ELSE f[i - 1]
    BY <2>2 DEF Filters
  <2>5. ASSUME NEW i \in 0..m
        PROVE g[i] = IF i = 0 THEN <<>>
            ELSE IF vec[i] \in kept THEN Append(g[i - 1], vec[i]) ELSE g[i - 1]
    <3>1. CASE i = m
      <4>1. g[i] = last /\ g[i - 1] = f[i - 1] /\ i # 0
        BY <1>1, <1>3, <2>3, <3>1
      <4> QED
      BY <4>1, <3>1 DEF last
    <3>2. CASE i = 0
      <4>1. g[i] = f[i]
        BY <1>1, <1>3, <2>3, <3>2
      <4> QED
      BY <1>1, <1>3, <4>1, <2>4, <3>2
    <3>3. CASE i # m /\ i # 0
      <4>1. g[i] = f[i] /\ g[i - 1] = f[i - 1] /\ i \in 0..(m-1)
        BY <1>1, <1>3, <2>3, <3>3
      <4> QED
      BY <4>1, <2>4, <3>3
    <3> QED BY <3>1, <3>2, <3>3
  <2>6. Filters(g, m, vec, kept)
    <3> HIDE DEF g
    <3>1. DOMAIN g = 0..m /\ g = [i \in 0..m |-> g[i]]
      BY DEF g
    <3> QED
    BY <2>5, <3>1 DEF Filters
  <2> QED
    BY <1>1, <2>6
<1> QED
  BY <1>1, <1>2, <1>3

LEMMA RetainRecurrence ==
    ASSUME NEW S, NEW vec \in Seq(S), NEW kept
    PROVE  \E f : /\ Retain(vec, kept) = f[Len(vec)]
                  /\ f[0] = <<>>
                  /\ \A i \in 1..Len(vec) :
                        f[i] = IF vec[i] \in kept THEN Append(f[i - 1], vec[i]) ELSE f[i - 1]
<1> DEFINE g == CHOOSE f : Filters(f, Len(vec), vec, kept)
<1>1. Filters(g, Len(vec), vec, kept)
  BY FilterExists, Zenon
<1>2. Retain(vec, kept) = g[Len(vec)]
  BY DEF Retain, Filters
<1> HIDE DEF g
<1>3. \A i \in 0..Len(vec) :
        g[i] = IF i = 0 THEN <<>>
               ELSE IF vec[i] \in kept THEN Append(g[i - 1], vec[i]) ELSE g[i - 1]
  BY <1>1, Zenon DEF Filters
<1>4. g[0] = <<>> /\ \A i \in 1..Len(vec) :
                        g[i] = IF vec[i] \in kept THEN Append(g[i - 1], vec[i]) ELSE g[i - 1]
  BY <1>3
<1> QED
  BY <1>2, <1>4

(* out holds the rows of vec to keep up to position m, each at one place   *)
(* for each place it has there.                                            *)
KeptTo(out, m, S, vec, kept) ==
    /\ out \in Seq(S)
    /\ \A k \in 1..Len(out) : \E j \in 1..m : out[k] = vec[j] /\ vec[j] \in kept
    /\ \A j \in 1..m : vec[j] \in kept => \E k \in 1..Len(out) : out[k] = vec[j]
    /\ \A k, l \in 1..Len(out) :
          k # l => \E h, j \in 1..m : h # j /\ out[k] = vec[h] /\ out[l] = vec[j]

LEMMA KeepOne ==
    ASSUME NEW S, NEW vec \in Seq(S), NEW kept, NEW a, NEW i \in 1..Len(vec),
           KeptTo(a, i - 1, S, vec, kept)
    PROVE  KeptTo(IF vec[i] \in kept THEN Append(a, vec[i]) ELSE a, i, S, vec, kept)
<1>0. /\ i \in Nat /\ i - 1 \in Nat /\ i \in 1..i /\ i \notin 1..(i - 1)
      /\ \A j : j \in 1..i <=> j \in 1..(i - 1) \/ j = i
  OBVIOUS
<1>1. a \in Seq(S) /\ vec[i] \in S
  BY DEF KeptTo
<1>2. /\ \A k \in 1..Len(a) : \E j \in 1..(i - 1) : a[k] = vec[j] /\ vec[j] \in kept
      /\ \A j \in 1..(i - 1) : vec[j] \in kept => \E k \in 1..Len(a) : a[k] = vec[j]
      /\ \A k, l \in 1..Len(a) :
            k # l => \E h, j \in 1..(i - 1) : h # j /\ a[k] = vec[h] /\ a[l] = vec[j]
  BY DEF KeptTo
<1>3. CASE vec[i] \notin kept
  <2>1. \A k \in 1..Len(a) : \E j \in 1..i : a[k] = vec[j] /\ vec[j] \in kept
    BY <1>0, <1>2
  <2>2. \A j \in 1..i : vec[j] \in kept => \E k \in 1..Len(a) : a[k] = vec[j]
    BY <1>0, <1>2, <1>3
  <2>3. ASSUME NEW k \in 1..Len(a), NEW l \in 1..Len(a), k # l
        PROVE  \E h, j \in 1..i : h # j /\ a[k] = vec[h] /\ a[l] = vec[j]
    <3>1. PICK h \in 1..(i - 1), j \in 1..(i - 1) :
              h # j /\ a[k] = vec[h] /\ a[l] = vec[j]
      BY <1>2, <2>3, Zenon
    <3> QED
      BY <1>0, <3>1
  <2>4. KeptTo(a, i, S, vec, kept)
    BY <1>1, <2>1, <2>2, <2>3, Zenon DEF KeptTo
  <2> QED
    BY <1>3, <2>4
<1>4. CASE vec[i] \in kept
  <2> DEFINE b == Append(a, vec[i])
  <2>1. /\ b \in Seq(S) /\ Len(b) = Len(a) + 1 /\ Len(a) \in Nat
        /\ \A k \in 1..Len(a) : b[k] = a[k]
        /\ b[Len(a) + 1] = vec[i]
    BY <1>1
  <2> HIDE DEF b
  <2>2. \A k : k \in 1..Len(b) <=> k \in 1..Len(a) \/ k = Len(a) + 1
    BY <2>1
  <2>3. ASSUME NEW k \in 1..Len(b)
        PROVE  \E j \in 1..i : b[k] = vec[j] /\ vec[j] \in kept
    <3>1. CASE k \in 1..Len(a)
      <4>1. PICK j \in 1..(i - 1) : a[k] = vec[j] /\ vec[j] \in kept
        BY <1>2, <3>1, Zenon
      <4> QED
        BY <1>0, <2>1, <3>1, <4>1
    <3>2. CASE k = Len(a) + 1
      BY <1>0, <1>4, <2>1, <3>2
    <3> QED
      BY <2>2, <3>1, <3>2
  <2>4. ASSUME NEW j \in 1..i, vec[j] \in kept
        PROVE  \E k \in 1..Len(b) : b[k] = vec[j]
    <3>1. CASE j \in 1..(i - 1)
      <4>1. PICK k \in 1..Len(a) : a[k] = vec[j]
        BY <1>2, <2>4, <3>1, Zenon
      <4> QED
        BY <2>1, <2>2, <4>1
    <3>2. CASE j = i
      BY <2>1, <2>2, <3>2
    <3> QED
      BY <1>0, <3>1, <3>2
  <2>5. ASSUME NEW k \in 1..Len(b), NEW l \in 1..Len(b), k # l
        PROVE  \E h, j \in 1..i : h # j /\ b[k] = vec[h] /\ b[l] = vec[j]
    <3>1. CASE k \in 1..Len(a) /\ l \in 1..Len(a)
      <4>1. PICK h \in 1..(i - 1), j \in 1..(i - 1) :
                h # j /\ a[k] = vec[h] /\ a[l] = vec[j]
        BY <1>2, <2>5, <3>1, Zenon
      <4> QED
        BY <1>0, <2>1, <3>1, <4>1
    <3>2. CASE k = Len(a) + 1 /\ l \in 1..Len(a)
      <4>1. PICK j \in 1..(i - 1) : a[l] = vec[j]
        BY <1>2, <3>2, Zenon
      <4> QED
        BY <1>0, <2>1, <3>2, <4>1
    <3>3. CASE k \in 1..Len(a) /\ l = Len(a) + 1
      <4>1. PICK h \in 1..(i - 1) : a[k] = vec[h]
        BY <1>2, <3>3, Zenon
      <4> QED
        BY <1>0, <2>1, <3>3, <4>1
    <3> QED
      BY <2>2, <2>5, <3>1, <3>2, <3>3, Zenon
  <2>6. KeptTo(b, i, S, vec, kept)
    BY <2>1, <2>3, <2>4, <2>5, Zenon DEF KeptTo
  <2> QED
    BY <1>4, <2>6 DEF b
<1> QED
  BY <1>3, <1>4

(***************************************************************************)
(* retain() keeps the rows it is told to keep, each at one place for each  *)
(* place it had.                                                           *)
(***************************************************************************)
LEMMA RetainRows ==
    ASSUME NEW S, NEW vec \in Seq(S), NEW kept
    PROVE  /\ Retain(vec, kept) \in Seq(S)
           /\ RowsOf(Retain(vec, kept)) = RowsOf(vec) \cap kept
           /\ \A k, l \in DOMAIN Retain(vec, kept) :
                 k # l => \E i, j \in DOMAIN vec : /\ i # j
                                                  /\ Retain(vec, kept)[k] = vec[i]
                                                  /\ Retain(vec, kept)[l] = vec[j]
<1> DEFINE n == Len(vec)
<1>1. PICK f : /\ Retain(vec, kept) = f[n]
               /\ f[0] = <<>>
               /\ \A i \in 1..n :
                     f[i] = IF vec[i] \in kept THEN Append(f[i - 1], vec[i]) ELSE f[i - 1]
  BY RetainRecurrence
<1>2. n \in Nat /\ DOMAIN vec = 1..n
  OBVIOUS
<1>3. KeptTo(f[0], 0, S, vec, kept)
  BY <1>1 DEF KeptTo
<1>4. ASSUME NEW i \in 1..n, KeptTo(f[i - 1], i - 1, S, vec, kept)
      PROVE  KeptTo(f[i], i, S, vec, kept)
  <2>1. KeptTo(IF vec[i] \in kept THEN Append(f[i - 1], vec[i]) ELSE f[i - 1],
               i, S, vec, kept)
    BY <1>4, KeepOne
  <2> QED
    BY <1>1, <2>1
<1>5. KeptTo(f[n], n, S, vec, kept)
  <2> DEFINE Bad == {i \in 0..n : ~ KeptTo(f[i], i, S, vec, kept)}
  <2> HIDE DEF n
  <2> SUFFICES ASSUME n \in Bad PROVE FALSE
    BY <1>2
  <2>1. Bad \subseteq Nat /\ Bad # {}
    OBVIOUS
  <2>2. PICK i \in Bad : \A j \in Bad : i <= j
    <3> HIDE DEF Bad
    <3> QED
      BY <2>1, LeastNumber
  <2>3. i # 0 /\ i \in 1..n /\ i - 1 \in 0..n
    BY <1>2, <1>3, <2>2
  <2>4. KeptTo(f[i - 1], i - 1, S, vec, kept)
    BY <1>2, <2>2, <2>3
  <2> QED
    BY <1>4, <2>2, <2>3, <2>4
<1> DEFINE out == Retain(vec, kept)
<1>6. KeptTo(out, n, S, vec, kept)
  BY <1>1, <1>5
<1> HIDE DEF n, out
<1>7. out \in Seq(S) /\ DOMAIN out = 1..Len(out)
  BY <1>6 DEF KeptTo
<1>8. \A k \in DOMAIN out : \E j \in DOMAIN vec : out[k] = vec[j] /\ vec[j] \in kept
  BY <1>2, <1>6, <1>7, Zenon DEF KeptTo
<1>9. \A j \in DOMAIN vec : vec[j] \in kept => \E k \in DOMAIN out : out[k] = vec[j]
  BY <1>2, <1>6, <1>7, Zenon DEF KeptTo
<1>10. RowsOf(out) = RowsOf(vec) \cap kept
  BY <1>8, <1>9 DEF RowsOf
<1>11. ASSUME NEW k \in DOMAIN out, NEW l \in DOMAIN out, k # l
       PROVE  \E i, j \in DOMAIN vec : i # j /\ out[k] = vec[i] /\ out[l] = vec[j]
  <2>1. \A x, y \in 1..Len(out) :
          x # y => \E h, j \in 1..n : h # j /\ out[x] = vec[h] /\ out[y] = vec[j]
    BY <1>6, Zenon DEF KeptTo
  <2>2. PICK h \in 1..n, j \in 1..n : h # j /\ out[k] = vec[h] /\ out[l] = vec[j]
    BY <1>7, <1>11, <2>1, Zenon
  <2> QED
    BY <1>2, <2>2
<1> QED
  BY <1>7, <1>10, <1>11 DEF out

-----------------------------------------------------------------------------
(* A vector and the SQLite table it stands for. *)

(* No two rows of a vector have one id, and the counter is ahead of them. *)
Numbered(vec, next) ==
    /\ \A i, j \in DOMAIN vec : vec[i].id = vec[j].id => i = j
    /\ \A i \in DOMAIN vec : vec[i].id < next

(* A table that nothing but its own statements changes. *)
Twin(vec, next, S, rows) ==
    /\ vec \in Seq(S)
    /\ Numbered(vec, next)
    /\ RowsOf(vec) = rows

(* A table with a foreign key: besides the rows of the subnets in ids the  *)
(* vector has orphans, and no row in it waits for a subnet still to come.  *)
Child(vec, next, S, rows, ids, bound) ==
    /\ vec \in Seq(S)
    /\ Numbered(vec, next)
    /\ \A i \in DOMAIN vec : vec[i].subnet_id < bound
    /\ {r \in RowsOf(vec) : r.subnet_id \in ids} = rows

LEMMA PushNumbered ==
    ASSUME NEW S, \A r \in S : r.id \in Nat, NEW vec \in Seq(S), NEW next \in Nat,
           Numbered(vec, next), NEW row \in S, row.id = next
    PROVE  /\ Append(vec, row) \in Seq(S)
           /\ Numbered(Append(vec, row), next + 1)
           /\ RowsOf(Append(vec, row)) = RowsOf(vec) \cup {row}
           /\ \A i \in DOMAIN Append(vec, row) :
                 \/ i \in DOMAIN vec /\ Append(vec, row)[i] = vec[i]
                 \/ Append(vec, row)[i] = row
<1> DEFINE out == Append(vec, row)
           n == Len(vec)
<1>1. /\ out \in Seq(S) /\ n \in Nat /\ DOMAIN vec = 1..n /\ DOMAIN out = 1..(n + 1)
      /\ \A i \in 1..n : out[i] = vec[i] /\ vec[i] \in S
      /\ out[n + 1] = row
  OBVIOUS
<1> HIDE DEF out, n
<1>2. \A i \in DOMAIN out :
        \/ i \in DOMAIN vec /\ out[i] = vec[i]
        \/ i = n + 1 /\ out[i] = row
  BY <1>1
<1>3. \A i \in DOMAIN vec : i \in DOMAIN out /\ vec[i].id \in Nat /\ vec[i].id < next
  BY <1>1 DEF Numbered
<1>4. Numbered(out, next + 1)
  <2>1. \A i \in DOMAIN out : out[i].id < next + 1
    BY <1>2, <1>3
  <2>2. \A i, j \in DOMAIN vec : vec[i].id = vec[j].id => i = j
    BY DEF Numbered
  <2>3. ASSUME NEW i \in DOMAIN out, NEW j \in DOMAIN out, out[i].id = out[j].id
        PROVE  i = j
    BY <1>2, <1>3, <2>2, <2>3
  <2> QED
    BY <2>1, <2>3 DEF Numbered
<1>5. RowsOf(out) = RowsOf(vec) \cup {row}
  <2>1. n + 1 \in DOMAIN out
    BY <1>1
  <2> QED
    BY <1>1, <1>2, <1>3, <2>1 DEF RowsOf
<1> QED
  BY <1>1, <1>2, <1>4, <1>5 DEF out

LEMMA RetainNumbered ==
    ASSUME NEW S, NEW vec \in Seq(S), NEW next, Numbered(vec, next), NEW kept
    PROVE  Numbered(Retain(vec, kept), next)
<1> DEFINE out == Retain(vec, kept)
<1>1. /\ RowsOf(out) = RowsOf(vec) \cap kept
      /\ \A k, l \in DOMAIN out :
            k # l => \E i, j \in DOMAIN vec : i # j /\ out[k] = vec[i] /\ out[l] = vec[j]
  BY RetainRows
<1> HIDE DEF out
<1>2. \A k \in DOMAIN out : \E i \in DOMAIN vec : out[k] = vec[i]
  BY <1>1 DEF RowsOf
<1>3. \A k \in DOMAIN out : out[k].id < next
  BY <1>2 DEF Numbered
<1>4. ASSUME NEW k \in DOMAIN out, NEW l \in DOMAIN out, out[k].id = out[l].id, k # l
      PROVE  FALSE
  <2>1. PICK i \in DOMAIN vec, j \in DOMAIN vec : i # j /\ out[k] = vec[i] /\ out[l] = vec[j]
    BY <1>1, <1>4
  <2> QED
    BY <1>4, <2>1 DEF Numbered
<1> QED
  BY <1>3, <1>4 DEF Numbered, out

(* An update by id overwrites the first row with the id by a function of it. *)
Overwrite(vec, id, g) ==
    [i \in DOMAIN vec |->
        IF i \in FirstAt(vec, {r \in RowsOf(vec) : r.id = id}) THEN g[vec[i]] ELSE vec[i]]

(* In SQL, every row with the id. *)
Updated(rows, id, g) == {IF r.id = id THEN g[r] ELSE r : r \in rows}

LEMMA ReplaceNumbered ==
    ASSUME NEW S, NEW vec \in Seq(S), NEW next, Numbered(vec, next), NEW id,
           NEW g \in [S -> S], \A r \in S : r.id = id => g[r].id = id
    PROVE  /\ Overwrite(vec, id, g) \in Seq(S)
           /\ Numbered(Overwrite(vec, id, g), next)
           /\ RowsOf(Overwrite(vec, id, g)) = Updated(RowsOf(vec), id, g)
<1> DEFINE n == Len(vec)
           out == Overwrite(vec, id, g)
<1> SUFFICES /\ out \in Seq(S) /\ Numbered(out, next)
             /\ RowsOf(out) = {IF r.id = id THEN g[r] ELSE r : r \in RowsOf(vec)}
  BY DEF Updated
<1>1. n \in Nat /\ DOMAIN vec = 1..n /\ \A i \in 1..n : vec[i] \in S
  OBVIOUS
<1>2. \A i \in DOMAIN vec :
        i \in FirstAt(vec, {r \in RowsOf(vec) : r.id = id}) <=> vec[i].id = id
  <2>1. ASSUME NEW i \in DOMAIN vec, vec[i].id = id, NEW k \in 1..(i - 1)
        PROVE  vec[k] \notin {r \in RowsOf(vec) : r.id = id}
    <3>1. k \in DOMAIN vec /\ k # i
      BY <1>1
    <3> QED
      BY <2>1, <3>1 DEF Numbered
  <2> QED
    BY <2>1 DEF FirstAt, RowsOf
<1>3. DOMAIN out = DOMAIN vec
      /\ \A i \in DOMAIN vec : out[i] = IF vec[i].id = id THEN g[vec[i]] ELSE vec[i]
  BY <1>2 DEF Overwrite
<1>4. out = [i \in DOMAIN vec |-> out[i]]
  BY DEF Overwrite
<1> HIDE DEF out
<1>5. out \in Seq(S)
  <2>1. \A i \in 1..n : out[i] \in S
    BY <1>1, <1>3
  <2>2. out \in [1..n -> S]
    BY <1>1, <1>4, <2>1
  <2> QED
    BY <1>1, <2>2
<1>6. \A i \in DOMAIN vec : out[i].id = vec[i].id
  BY <1>1, <1>3
<1>7. Numbered(out, next)
  BY <1>3, <1>6 DEF Numbered
<1>8. RowsOf(out) = {IF r.id = id THEN g[r] ELSE r : r \in RowsOf(vec)}
  <2>1. \A i \in DOMAIN vec :
          out[i] \in {IF r.id = id THEN g[r] ELSE r : r \in RowsOf(vec)}
    BY <1>3 DEF RowsOf
  <2>2. ASSUME NEW r \in RowsOf(vec)
        PROVE  (IF r.id = id THEN g[r] ELSE r) \in RowsOf(out)
    <3>1. PICK i \in DOMAIN vec : r = vec[i]
      BY DEF RowsOf
    <3>2. out[i] = IF r.id = id THEN g[r] ELSE r
      BY <1>3, <3>1
    <3> QED
      BY <1>3, <3>2 DEF RowsOf
  <2>3. RowsOf(out) \subseteq {IF r.id = id THEN g[r] ELSE r : r \in RowsOf(vec)}
    BY <1>3, <2>1 DEF RowsOf
  <2> QED
    BY <2>2, <2>3
<1> QED
  BY <1>5, <1>7, <1>8

LEMMA TwinPush ==
    ASSUME NEW S, \A r \in S : r.id \in Nat, NEW vec, NEW next \in Nat, NEW rows,
           Twin(vec, next, S, rows), NEW row \in S, row.id = next
    PROVE  Twin(Append(vec, row), next + 1, S, rows \cup {row})
  BY PushNumbered DEF Twin

LEMMA TwinRetain ==
    ASSUME NEW S, NEW vec, NEW next, NEW rows, Twin(vec, next, S, rows), NEW kept
    PROVE  Twin(Retain(vec, kept), next, S, rows \cap kept)
  BY RetainRows, RetainNumbered DEF Twin

LEMMA TwinReplace ==
    ASSUME NEW S, NEW vec, NEW next, NEW rows, Twin(vec, next, S, rows), NEW id,
           NEW g \in [S -> S], \A r \in S : r.id = id => g[r].id = id
    PROVE  Twin(Overwrite(vec, id, g), next, S, Updated(rows, id, g))
  BY ReplaceNumbered DEF Twin

LEMMA ChildPush ==
    ASSUME NEW S, \A r \in S : r.id \in Nat, NEW vec, NEW next \in Nat, NEW rows, NEW ids,
           NEW bound, Child(vec, next, S, rows, ids, bound),
           NEW row \in S, row.id = next, row.subnet_id \in ids, row.subnet_id < bound
    PROVE  Child(Append(vec, row), next + 1, S, rows \cup {row}, ids, bound)
<1> DEFINE out == Append(vec, row)
<1>1. /\ out \in Seq(S)
      /\ Numbered(out, next + 1)
      /\ RowsOf(out) = RowsOf(vec) \cup {row}
      /\ \A i \in DOMAIN out :
            \/ i \in DOMAIN vec /\ out[i] = vec[i]
            \/ out[i] = row
  BY PushNumbered DEF Child
<1> HIDE DEF out
<1>2. {r \in RowsOf(out) : r.subnet_id \in ids} = rows \cup {row}
  BY <1>1 DEF Child
<1>3. \A i \in DOMAIN out : out[i].subnet_id < bound
  BY <1>1 DEF Child
<1> QED
  BY <1>1, <1>2, <1>3 DEF Child, out

LEMMA ChildRetain ==
    ASSUME NEW S, NEW vec, NEW next, NEW rows, NEW ids, NEW bound,
           Child(vec, next, S, rows, ids, bound), NEW kept
    PROVE  Child(Retain(vec, kept), next, S, rows \cap kept, ids, bound)
<1> DEFINE out == Retain(vec, kept)
<1>1. out \in Seq(S) /\ RowsOf(out) = RowsOf(vec) \cap kept /\ Numbered(out, next)
  BY RetainRows, RetainNumbered DEF Child
<1> HIDE DEF out
<1>2. \A i \in DOMAIN out : \E j \in DOMAIN vec : out[i] = vec[j]
  BY <1>1 DEF RowsOf
<1>3. \A i \in DOMAIN out : out[i].subnet_id < bound
  BY <1>2 DEF Child
<1>4. {r \in RowsOf(out) : r.subnet_id \in ids} = rows \cap kept
  BY <1>1 DEF Child
<1> QED
  BY <1>1, <1>3, <1>4 DEF Child, out

(* A new subnet takes an id no row names, so no orphan becomes its child. *)
LEMMA ChildOfNew ==
    ASSUME NEW S, \A r \in S : r.subnet_id \in Nat, NEW vec, NEW next, NEW rows, NEW ids,
           NEW bound \in Nat, Child(vec, next, S, rows, ids, bound)
    PROVE  Child(vec, next, S, rows, ids \cup {bound}, bound + 1)
<1>1. \A i \in DOMAIN vec : vec[i].subnet_id \in Nat /\ vec[i].subnet_id < bound
  BY DEF Child
<1>2. \A i \in DOMAIN vec : vec[i].subnet_id < bound + 1 /\ vec[i].subnet_id # bound
  BY <1>1
<1>3. \A r \in RowsOf(vec) : r.subnet_id # bound
  BY <1>2 DEF RowsOf
<1>4. {r \in RowsOf(vec) : r.subnet_id \in ids \cup {bound}} = rows
  BY <1>3 DEF Child
<1> QED
  BY <1>2, <1>4 DEF Child

(* The cascade takes exactly the rows that become orphans. *)
LEMMA ChildOfGone ==
    ASSUME NEW S, NEW vec, NEW next, NEW rows, NEW ids, NEW bound,
           Child(vec, next, S, rows, ids, bound), NEW id,
           NEW left, left = {r \in rows : r.subnet_id # id}
    PROVE  Child(vec, next, S, left, ids \ {id}, bound)
  BY DEF Child

-----------------------------------------------------------------------------
(* Static assignments: two SQLite columns sets for one vector. *)

HostRow    == [ip : Addr, mac : MacText, subnet_id : Nat, hostname : Hostname]
SqlRow(s)  == [ip |-> s.ip, mac |-> s.mac, subnet_id |-> s.subnet_id]
NameRow(s) == [ip |-> s.ip, hostname |-> s.hostname]

Reserved(vec, rows, named, ids, bound) ==
    /\ vec \in Seq(HostRow)
    /\ \A i \in DOMAIN vec : vec[i].subnet_id < bound
    /\ \A i, j \in DOMAIN vec :
          vec[i].subnet_id \in ids /\ vec[j].subnet_id \in ids /\ vec[i].ip = vec[j].ip => i = j
    /\ rows = {SqlRow(vec[i]) : i \in {j \in DOMAIN vec : vec[j].subnet_id \in ids}}
    /\ named = {NameRow(vec[i]) : i \in {j \in DOMAIN vec : vec[j].subnet_id \in ids}}

LEMMA ReservedOfNew ==
    ASSUME NEW vec, NEW rows, NEW named, NEW ids, NEW bound \in Nat,
           Reserved(vec, rows, named, ids, bound)
    PROVE  Reserved(vec, rows, named, ids \cup {bound}, bound + 1)
<1>0. vec \in Seq(HostRow) /\ \A r \in HostRow : r.subnet_id \in Nat
  BY DEF Reserved, HostRow
<1>1. \A i \in DOMAIN vec : vec[i].subnet_id \in Nat /\ vec[i].subnet_id < bound
  BY <1>0 DEF Reserved
<1>2. \A i \in DOMAIN vec : vec[i].subnet_id < bound + 1 /\ vec[i].subnet_id # bound
  BY <1>1
<1>3. {j \in DOMAIN vec : vec[j].subnet_id \in ids}
        = {j \in DOMAIN vec : vec[j].subnet_id \in ids \cup {bound}}
  BY <1>2
<1>4. \A i \in DOMAIN vec : vec[i].subnet_id \in ids \cup {bound} => vec[i].subnet_id \in ids
  BY <1>2
<1> QED
  BY <1>2, <1>3, <1>4 DEF Reserved

(* The host names that a statement on the assignments leaves. *)
Following(named, rows) == {h \in named : \E s \in rows : s.ip = h.ip}

LEMMA ReservedFollow ==
    ASSUME NEW vec, NEW rows, NEW named, NEW ids, NEW bound,
           Reserved(vec, rows, named, ids, bound)
    PROVE  Following(named, rows) = named
<1> DEFINE D == {j \in DOMAIN vec : vec[j].subnet_id \in ids}
<1>1. rows = {SqlRow(vec[i]) : i \in D} /\ named = {NameRow(vec[i]) : i \in D}
  BY DEF Reserved
<1>2. \A i \in D : SqlRow(vec[i]).ip = NameRow(vec[i]).ip
  BY DEF SqlRow, NameRow
<1> HIDE DEF D
<1> QED
  BY <1>1, <1>2 DEF Following

LEMMA ReservedOfGone ==
    ASSUME NEW vec, NEW rows, NEW named, NEW ids, NEW bound,
           Reserved(vec, rows, named, ids, bound), NEW id,
           NEW left, left = {s \in rows : s.subnet_id # id}
    PROVE  Reserved(vec, left, Following(named, left), ids \ {id}, bound)
<1> DEFINE D == {j \in DOMAIN vec : vec[j].subnet_id \in ids}
           E == {j \in DOMAIN vec : vec[j].subnet_id \in ids \ {id}}
<1>1. E \subseteq D /\ \A i \in D : i \in E <=> vec[i].subnet_id # id
  OBVIOUS
<1>2. rows = {SqlRow(vec[i]) : i \in D} /\ named = {NameRow(vec[i]) : i \in D}
      /\ \A i, j \in D : vec[i].ip = vec[j].ip => i = j
  BY DEF Reserved
<1>3. \A i \in D : SqlRow(vec[i]).ip = vec[i].ip /\ NameRow(vec[i]).ip = vec[i].ip
                  /\ SqlRow(vec[i]).subnet_id = vec[i].subnet_id
  BY DEF SqlRow, NameRow
<1>4. left = {SqlRow(vec[i]) : i \in E}
  <2> HIDE DEF D, E
  <2> QED
    BY <1>1, <1>2, <1>3
<1>5. Following(named, left) = {NameRow(vec[i]) : i \in E}
  <2> HIDE DEF D, E
  <2> QED
    BY <1>1, <1>2, <1>3, <1>4 DEF Following
<1> QED
  BY <1>4, <1>5 DEF Reserved

LEMMA ReservedPush ==
    ASSUME NEW vec, NEW rows, NEW named, NEW ids, NEW bound,
           Reserved(vec, rows, named, ids, bound),
           NEW row \in HostRow, row.subnet_id \in ids, row.subnet_id < bound,
           ~ \E s \in rows : s.ip = row.ip
    PROVE  Reserved(Append(vec, row), rows \cup {SqlRow(row)}, named \cup {NameRow(row)},
                    ids, bound)
<1> DEFINE out == Append(vec, row)
           n == Len(vec)
           D == {j \in DOMAIN vec : vec[j].subnet_id \in ids}
           E == {j \in DOMAIN out : out[j].subnet_id \in ids}
<1>1. /\ vec \in Seq(HostRow)
      /\ \A i \in DOMAIN vec : vec[i].subnet_id < bound
      /\ \A i, j \in D : vec[i].ip = vec[j].ip => i = j
      /\ rows = {SqlRow(vec[i]) : i \in D}
      /\ named = {NameRow(vec[i]) : i \in D}
  BY DEF Reserved
<1>2. /\ out \in Seq(HostRow) /\ n \in Nat /\ DOMAIN vec = 1..n /\ DOMAIN out = 1..(n + 1)
      /\ \A i \in 1..n : out[i] = vec[i]
      /\ out[n + 1] = row
  BY <1>1
<1> HIDE DEF out, n
<1>3. DOMAIN out = DOMAIN vec \cup {n + 1} /\ n + 1 \notin DOMAIN vec
  BY <1>2
<1>4. \A i \in DOMAIN vec : out[i] = vec[i]
  BY <1>2
<1>5. E = D \cup {n + 1} /\ n + 1 \notin D /\ D \subseteq DOMAIN vec
  BY <1>2, <1>3, <1>4
<1>6. ASSUME NEW i \in D
      PROVE  vec[i].ip # row.ip
  <2>1. SqlRow(vec[i]) \in rows
    BY <1>1
  <2>2. SqlRow(vec[i]).ip = vec[i].ip
    BY DEF SqlRow
  <2> QED
    BY <2>1, <2>2
<1>7. \A i \in DOMAIN out : out[i].subnet_id < bound
  BY <1>1, <1>2, <1>3, <1>4
<1>8. \A i \in DOMAIN out : out[i].subnet_id \in ids <=> i \in E
  OBVIOUS
<1> HIDE DEF D, E
<1>9. \A i, j \in E : out[i].ip = out[j].ip => i = j
  BY <1>1, <1>2, <1>4, <1>5, <1>6
<1>10. rows \cup {SqlRow(row)} = {SqlRow(out[i]) : i \in E}
  BY <1>1, <1>2, <1>4, <1>5
<1>11. named \cup {NameRow(row)} = {NameRow(out[i]) : i \in E}
  BY <1>1, <1>2, <1>4, <1>5
<1> QED
  BY <1>2, <1>7, <1>8, <1>9, <1>10, <1>11 DEF Reserved, out, E

LEMMA ReservedRetain ==
    ASSUME NEW vec, NEW rows, NEW named, NEW ids, NEW bound,
           Reserved(vec, rows, named, ids, bound), NEW ip,
           NEW left, left = {s \in rows : s.ip # ip},
           NEW kept, \A r : r \in kept <=> r \in RowsOf(vec) /\ r.ip # ip
    PROVE  Reserved(Retain(vec, kept), left, Following(named, left), ids, bound)
<1> DEFINE out == Retain(vec, kept)
           D == {j \in DOMAIN vec : vec[j].subnet_id \in ids}
           E == {j \in DOMAIN out : out[j].subnet_id \in ids}
<1>1. /\ vec \in Seq(HostRow)
      /\ \A i \in DOMAIN vec : vec[i].subnet_id < bound
      /\ \A i, j \in D : vec[i].ip = vec[j].ip => i = j
      /\ rows = {SqlRow(vec[i]) : i \in D}
      /\ named = {NameRow(vec[i]) : i \in D}
  BY DEF Reserved
<1>2. /\ out \in Seq(HostRow)
      /\ RowsOf(out) = RowsOf(vec) \cap kept
      /\ \A k, l \in DOMAIN out :
            k # l => \E i, j \in DOMAIN vec : i # j /\ out[k] = vec[i] /\ out[l] = vec[j]
  BY <1>1, RetainRows
<1> HIDE DEF out
<1>3. \A k \in DOMAIN out : \E i \in DOMAIN vec : out[k] = vec[i] /\ vec[i].ip # ip
  BY <1>2 DEF RowsOf
<1>4. \A i \in DOMAIN vec : vec[i].ip # ip => \E k \in DOMAIN out : out[k] = vec[i]
  BY <1>2 DEF RowsOf
<1>5. \A k \in E : \E i \in D : out[k] = vec[i] /\ vec[i].ip # ip
  BY <1>3
<1>6. \A i \in D : vec[i].ip # ip => \E k \in E : out[k] = vec[i]
  BY <1>4
<1>7. \A i \in DOMAIN out : out[i].subnet_id < bound
  BY <1>1, <1>3
<1>8. ASSUME NEW k \in E, NEW l \in E, out[k].ip = out[l].ip, k # l
      PROVE  FALSE
  <2>1. PICK i \in DOMAIN vec, j \in DOMAIN vec : i # j /\ out[k] = vec[i] /\ out[l] = vec[j]
    BY <1>2, <1>8
  <2>2. i \in D /\ j \in D
    BY <2>1
  <2> QED
    BY <1>1, <1>8, <2>1, <2>2
<1>9. \A i \in DOMAIN out : out[i].subnet_id \in ids <=> i \in E
  OBVIOUS
<1>10. \A i : /\ SqlRow(vec[i]).ip = vec[i].ip
              /\ NameRow(vec[i]).ip = vec[i].ip
  BY DEF SqlRow, NameRow
<1> HIDE DEF D, E
<1>11. left = {SqlRow(out[k]) : k \in E}
  BY <1>1, <1>5, <1>6, <1>10
<1>12. Following(named, left) = {NameRow(out[k]) : k \in E}
  <2>1. \A h \in named : (\E s \in left : s.ip = h.ip) <=> h.ip # ip
    BY <1>1, <1>10
  <2>2. Following(named, left) = {h \in named : h.ip # ip}
    BY <2>1 DEF Following
  <2> QED
    BY <1>1, <1>5, <1>6, <1>10, <2>2
<1> QED
  BY <1>2, <1>7, <1>8, <1>9, <1>11, <1>12 DEF Reserved, out, E

(* A renaming by address, in memory and in SQL. *)
WithIp(vec, ip) == {r \in RowsOf(vec) : r.ip = ip}

Rename(vec, ip, name) ==
    [i \in DOMAIN vec |-> IF i \in FirstAt(vec, WithIp(vec, ip))
                          THEN [vec[i] EXCEPT !.hostname = name] ELSE vec[i]]

Renamed(named, ip, name) ==
    {IF h.ip = ip THEN [ip |-> ip, hostname |-> name] ELSE h : h \in named}

LEMMA ReservedRename ==
    ASSUME NEW vec, NEW rows, NEW named, NEW ids, NEW bound,
           Reserved(vec, rows, named, ids, bound), NEW ip, NEW name \in Hostname,
           \A s \in First(vec, WithIp(vec, ip)) : s.subnet_id \in ids
    PROVE  Reserved(Rename(vec, ip, name), rows, Renamed(named, ip, name), ids, bound)
<1> DEFINE out == Rename(vec, ip, name)
           F == FirstAt(vec, WithIp(vec, ip))
           n == Len(vec)
           D == {j \in DOMAIN vec : vec[j].subnet_id \in ids}
           E == {j \in DOMAIN out : out[j].subnet_id \in ids}
<1>1. /\ vec \in Seq(HostRow)
      /\ \A i \in DOMAIN vec : vec[i].subnet_id < bound
      /\ \A i, j \in D : vec[i].ip = vec[j].ip => i = j
      /\ rows = {SqlRow(vec[i]) : i \in D}
      /\ named = {NameRow(vec[i]) : i \in D}
  BY DEF Reserved
<1>2. n \in Nat /\ DOMAIN vec = 1..n /\ \A i \in 1..n : vec[i] \in HostRow
  BY <1>1
<1>3. \A i \in F : i \in D /\ vec[i].ip = ip
  BY DEF FirstAt, First, WithIp
<1>4. ASSUME NEW i \in D, vec[i].ip = ip
      PROVE  i \in F
  <2>1. First(vec, WithIp(vec, ip)) # {}
    <3>1. RowsOf(vec) \cap WithIp(vec, ip) # {}
      BY <1>4 DEF RowsOf, WithIp
    <3> QED
      BY <1>1, <3>1, FirstFound
  <2>2. PICK j : j \in F
    BY <2>1 DEF First
  <2> QED
    BY <1>1, <1>3, <1>4, <2>2
<1>5. \A i \in D : i \in F <=> vec[i].ip = ip
  BY <1>3, <1>4
<1>6. /\ DOMAIN out = DOMAIN vec
      /\ \A i \in DOMAIN vec : out[i] = IF i \in F THEN [vec[i] EXCEPT !.hostname = name]
                                                   ELSE vec[i]
      /\ out = [i \in DOMAIN vec |-> out[i]]
  BY DEF Rename
<1> HIDE DEF F, out
<1>7. ASSUME NEW i \in DOMAIN vec
      PROVE  /\ out[i] \in HostRow
             /\ out[i].ip = vec[i].ip
             /\ out[i].mac = vec[i].mac
             /\ out[i].subnet_id = vec[i].subnet_id
             /\ out[i].hostname = IF i \in F THEN name ELSE vec[i].hostname
  BY <1>2, <1>6 DEF HostRow
<1>8. out \in Seq(HostRow)
  <2>1. out \in [1..n -> HostRow]
    BY <1>2, <1>6, <1>7
  <2> QED
    BY <1>2, <2>1
<1>9. E = D /\ D \subseteq DOMAIN vec
  BY <1>6, <1>7
<1>10. \A i \in D : SqlRow(out[i]) = SqlRow(vec[i])
  BY <1>7 DEF SqlRow
<1>11. \A i \in D : NameRow(vec[i]).ip = vec[i].ip
  BY DEF NameRow
<1>12. \A i \in D : NameRow(out[i]) = IF vec[i].ip = ip THEN [ip |-> ip, hostname |-> name]
                                                       ELSE NameRow(vec[i])
  BY <1>5, <1>7 DEF NameRow
<1>13. /\ \A i \in DOMAIN out : out[i].subnet_id < bound
       /\ \A i, j \in E : out[i].ip = out[j].ip => i = j
  BY <1>1, <1>6, <1>7, <1>9
<1>14. \A i \in DOMAIN out : out[i].subnet_id \in ids <=> i \in E
  OBVIOUS
<1> HIDE DEF D
<1>15. rows = {SqlRow(out[i]) : i \in E}
  <2> HIDE DEF E
  <2> QED
    BY <1>1, <1>9, <1>10
<1> DEFINE To(h) == IF h.ip = ip THEN [ip |-> ip, hostname |-> name] ELSE h
           renamed == {To(h) : h \in named}
<1>16. \A i \in D : NameRow(out[i]) = To(NameRow(vec[i]))
  BY <1>11, <1>12
<1> HIDE DEF To
<1>17. renamed = {NameRow(out[i]) : i \in E}
  <2> HIDE DEF E
  <2> QED
    BY <1>1, <1>9, <1>16
<1> HIDE DEF renamed
<1>18. \A i, j \in DOMAIN out :
          out[i].subnet_id \in ids /\ out[j].subnet_id \in ids /\ out[i].ip = out[j].ip => i = j
  BY <1>13, <1>14
<1>19. Reserved(out, rows, renamed, ids, bound)
  BY <1>8, <1>13, <1>15, <1>17, <1>18 DEF Reserved
<1> QED
  BY <1>19 DEF renamed, To, Renamed, out

-----------------------------------------------------------------------------
(* The inductive invariant. *)

PrefixRow == [id : Nat, interface : Interface, body : Body]
TokenRow  == [id : Nat, name : TokenName, enabled : BOOLEAN]

MemTables == {"subnets", "ranges", "leases", "prefixes", "tokens", "statics"}
MemCounts == {"subnets", "ranges", "leases", "prefixes", "tokens"}
SqlCounts == {"subnets", "ranges", "leases"}

MemTypes ==
    /\ mem = [t \in MemTables |-> mem[t]]
    /\ next_id \in [MemCounts -> Nat]
    /\ seq \in [SqlCounts -> Nat]
    /\ seq6 \in [{"prefixes", "tokens"} -> Nat]
    /\ now \in Nat

(* Both databases give the same id to the next row of a table. *)
SameCounters ==
    /\ next_id.subnets = seq.subnets + 1
    /\ next_id.ranges = seq.ranges + 1
    /\ next_id.leases = seq.leases + 1
    /\ next_id.prefixes = seq6.prefixes + 1
    /\ next_id.tokens = seq6.tokens + 1

SubnetTwin == Twin(mem.subnets, next_id.subnets, SubnetRow, subnets)
PrefixTwin == Twin(mem.prefixes, next_id.prefixes, PrefixRow, prefixes)
TokenTwin  == Twin(mem.tokens, next_id.tokens, TokenRow, tokens)
RangeTwin  == Child(mem.ranges, next_id.ranges, RangeRow, ranges, SubnetIds, next_id.subnets)
LeaseTwin  == Child(mem.leases, next_id.leases, LeaseRow, leases, SubnetIds, next_id.subnets)
StaticTwin == Reserved(mem.statics, statics, hosts, SubnetIds, next_id.subnets)

(* The ends of the leases are bounded, so one of several ends last. *)
LeasesEnd == \E n \in Nat : \A l \in RowsOf(mem.leases) : l.lease_end <= n

Twins ==
    /\ MemTypes /\ SameCounters
    /\ SubnetTwin /\ PrefixTwin /\ TokenTwin /\ RangeTwin /\ LeaseTwin /\ StaticTwin
    /\ LeasesEnd

(***************************************************************************)
(* Neither property is inductive: that a new subnet adopts no orphan needs *)
(* the counters to agree and to be ahead of every row in memory, and that  *)
(* an update by id or address hits the row SQLite hits needs the vectors   *)
(* to hold no two of them.                                                 *)
(***************************************************************************)
TwinInv == ~ parted => Twins

LEMMA RowTypes ==
    /\ \A r \in SubnetRow : r.id \in Nat
    /\ \A r \in PrefixRow : r.id \in Nat
    /\ \A r \in TokenRow : r.id \in Nat
    /\ \A r \in RangeRow : r.id \in Nat /\ r.subnet_id \in Nat
    /\ \A r \in LeaseRow : r.id \in Nat /\ r.subnet_id \in Nat /\ r.lease_end \in Nat
  BY DEF SubnetRow, PrefixRow, TokenRow, RangeRow, LeaseRow

LEMMA EmptyTwins ==
    ASSUME NEW S, NEW next \in Nat, NEW bound \in Nat
    PROVE  /\ Twin(<<>>, next, S, {})
           /\ Child(<<>>, next, S, {}, {}, bound)
           /\ Reserved(<<>>, {}, {}, {}, bound)
  BY DEF Twin, Child, Reserved, Numbered, RowsOf

LEMMA TwinInit == Init => TwinInv
<1> SUFFICES ASSUME Init PROVE Twins
  BY DEF TwinInv
<1>1. MemTypes /\ SameCounters
  BY DEF Init, MemInit, MemTypes, SameCounters, MemTables, MemCounts, SqlCounts
<1>2. SubnetIds = {} /\ next_id.subnets = 1 /\ next_id.ranges = 1 /\ next_id.leases = 1
      /\ next_id.prefixes = 1 /\ next_id.tokens = 1
  BY DEF Init, MemInit, SubnetIds
<1>3. /\ mem.subnets = <<>> /\ mem.ranges = <<>> /\ mem.statics = <<>> /\ mem.leases = <<>>
      /\ mem.prefixes = <<>> /\ mem.tokens = <<>>
  BY DEF Init, MemInit
<1>4. SubnetTwin /\ PrefixTwin /\ TokenTwin /\ RangeTwin /\ LeaseTwin /\ StaticTwin
  BY <1>2, <1>3, EmptyTwins DEF Init, SubnetTwin, PrefixTwin, TokenTwin, RangeTwin, LeaseTwin,
     StaticTwin
<1>5. LeasesEnd
  BY <1>3 DEF LeasesEnd, RowsOf
<1> QED
  BY <1>1, <1>4, <1>5 DEF Twins

(* What an action on one vector changes. *)
LEMMA FieldsWritten ==
    ASSUME MemTypes, NEW t \in MemTables, NEW vec, Write(t, vec)
    PROVE  /\ mem' = [u \in MemTables |-> mem'[u]]
           /\ mem'[t] = vec
           /\ \A u \in MemTables \ {t} : mem'[u] = mem[u]
           /\ next_id' = next_id
  BY DEF MemTypes, Write

LEMMA FieldsPushed ==
    ASSUME MemTypes, NEW t \in MemCounts, NEW row, Push(t, row)
    PROVE  /\ mem' = [u \in MemTables |-> mem'[u]]
           /\ mem'[t] = Append(mem[t], row)
           /\ \A u \in MemTables \ {t} : mem'[u] = mem[u]
           /\ next_id' \in [MemCounts -> Nat]
           /\ next_id[t] \in Nat
           /\ next_id'[t] = next_id[t] + 1
           /\ \A u \in MemCounts \ {t} : next_id'[u] = next_id[u]
<1>1. next_id[t] \in Nat /\ next_id[t] + 1 \in Nat
  BY DEF MemTypes
<1>2. t \in MemTables
  BY DEF MemTables, MemCounts
<1> QED
  BY <1>1, <1>2 DEF MemTypes, Push

(* What a statement keeps of the tables it does not name. *)
LEMMA SubnetsKept ==
    ASSUME Twins, UNCHANGED <<subnets, ranges, statics, leases, seq, hosts, now>>,
           mem'.subnets = mem.subnets, mem'.ranges = mem.ranges, mem'.leases = mem.leases,
           mem'.statics = mem.statics,
           next_id'.subnets = next_id.subnets, next_id'.ranges = next_id.ranges,
           next_id'.leases = next_id.leases
    PROVE  /\ SubnetTwin' /\ RangeTwin' /\ LeaseTwin' /\ StaticTwin' /\ LeasesEnd'
  BY DEF Twins, SubnetTwin, RangeTwin, LeaseTwin, StaticTwin, LeasesEnd, SubnetIds

LEMMA TwinPrefixes ==
    ASSUME Twins, CallCreatePrefix \/ CallUpdatePrefix \/ CallDeletePrefix
    PROVE  Twins'
<1>0. /\ MemTypes /\ SameCounters /\ PrefixTwin /\ TokenTwin
  BY DEF Twins
<1> SUFFICES /\ MemTypes' /\ SameCounters' /\ PrefixTwin'
             /\ UNCHANGED <<subnets, ranges, statics, leases, seq, hosts, now, tokens>>
             /\ \A t \in MemTables \ {"prefixes"} : mem'[t] = mem[t]
             /\ \A t \in MemCounts \ {"prefixes"} : next_id'[t] = next_id[t]
  <2>1. TokenTwin'
    BY <1>0 DEF TokenTwin, MemTables, MemCounts
  <2> QED
    BY <2>1, SubnetsKept DEF Twins, MemTables, MemCounts
<1>1. CASE CallCreatePrefix
  <2>1. PICK i \in Interface, b \in Body :
          mem_create_ia_prefix(i, b) /\ create_ia_prefix(i, b) /\ Called(FALSE)
    BY <1>1 DEF CallCreatePrefix
  <2> DEFINE row == [id |-> next_id.prefixes, interface |-> i, body |-> b]
  <2>2. /\ Push("prefixes", row)
        /\ UNCHANGED <<subnets, ranges, statics, leases, seq, hosts, tokens, now>>
        /\ prefixes' = prefixes \cup {[id |-> seq6.prefixes + 1, interface |-> i, body |-> b]}
        /\ seq6' = [seq6 EXCEPT !.prefixes = seq6.prefixes + 1]
    BY <2>1 DEF mem_create_ia_prefix, create_ia_prefix, Called, RowsIn4
  <2>3. /\ mem' = [u \in MemTables |-> mem'[u]]
        /\ mem'["prefixes"] = Append(mem["prefixes"], row)
        /\ \A u \in MemTables \ {"prefixes"} : mem'[u] = mem[u]
        /\ next_id' \in [MemCounts -> Nat]
        /\ next_id["prefixes"] \in Nat
        /\ next_id'["prefixes"] = next_id["prefixes"] + 1
        /\ \A u \in MemCounts \ {"prefixes"} : next_id'[u] = next_id[u]
    <3> HIDE DEF row
    <3>1. "prefixes" \in MemCounts
      BY DEF MemCounts
    <3> QED
      BY <1>0, <2>2, <3>1, FieldsPushed
  <2>4. row \in PrefixRow /\ row.id = next_id.prefixes /\ prefixes' = prefixes \cup {row}
    BY <1>0, <2>2, <2>3 DEF PrefixRow, SameCounters
  <2> HIDE DEF row
  <2>5. seq6' \in [{"prefixes", "tokens"} -> Nat] /\ seq6'.prefixes = seq6.prefixes + 1
        /\ seq6'.tokens = seq6.tokens
    BY <1>0, <2>2 DEF MemTypes
  <2>6. MemTypes' /\ SameCounters'
    BY <1>0, <2>2, <2>3, <2>5 DEF MemTypes, SameCounters, MemCounts
  <2>7. PrefixTwin'
    <3>1. Twin(Append(mem.prefixes, row), next_id.prefixes + 1, PrefixRow, prefixes \cup {row})
      BY <1>0, <2>3, <2>4, RowTypes, TwinPush DEF PrefixTwin
    <3> QED
      BY <2>3, <2>4, <3>1 DEF PrefixTwin
  <2> QED
    BY <2>2, <2>3, <2>6, <2>7
<1>2. CASE CallUpdatePrefix
  <2>1. PICK id \in Ids, i \in Interface, b \in Body :
          mem_update_ia_prefix(id, i, b) /\ update_ia_prefix(id, i, b) /\ Called(FALSE)
    BY <1>2 DEF CallUpdatePrefix
  <2> DEFINE row == [id |-> id, interface |-> i, body |-> b]
             g == [p \in PrefixRow |-> row]
             new == ReplaceFirst(mem.prefixes, {p \in Rows("prefixes") : p.id = id},
                                 LAMBDA p : [id |-> id, interface |-> i, body |-> b])
  <2>2. /\ Write("prefixes", new)
        /\ UNCHANGED <<subnets, ranges, statics, leases, seq, hosts, tokens, now, seq6>>
        /\ prefixes' = {IF p.id = id THEN row ELSE p : p \in prefixes}
    BY <2>1, Zenon DEF mem_update_ia_prefix, update_ia_prefix, Called, RowsIn4
  <2>3. row \in PrefixRow /\ row.id = id
    BY DatabasesAssumption DEF PrefixRow
  <2>4. new = [k \in DOMAIN mem.prefixes |->
                 IF k \in FirstAt(mem.prefixes, {p \in RowsOf(mem.prefixes) : p.id = id})
                 THEN row ELSE mem.prefixes[k]]
    BY Zenon DEF ReplaceFirst, Rows
  <2> HIDE DEF row, new
  <2>5. mem.prefixes \in Seq(PrefixRow) /\ Numbered(mem.prefixes, next_id.prefixes)
        /\ RowsOf(mem.prefixes) = prefixes
    BY <1>0 DEF PrefixTwin, Twin
  <2>6. Twin(new, next_id.prefixes, PrefixRow, prefixes')
    <3>1. g \in [PrefixRow -> PrefixRow] /\ \A r \in PrefixRow : g[r] = row
      BY <2>3
    <3> HIDE DEF g
    <3>2. \A k \in DOMAIN mem.prefixes :
             mem.prefixes[k] \in PrefixRow /\ g[mem.prefixes[k]] = row
      BY <2>5, <3>1
    <3>3. new = Overwrite(mem.prefixes, id, g)
      BY <2>4, <3>2 DEF Overwrite
    <3>4. Twin(new, next_id.prefixes, PrefixRow, Updated(prefixes, id, g))
      BY <1>0, <2>3, <3>1, <3>3, TwinReplace DEF PrefixTwin
    <3>5. prefixes \subseteq PrefixRow
      BY <2>5 DEF RowsOf
    <3>6. Updated(prefixes, id, g) = prefixes'
      BY <2>2, <3>1, <3>5 DEF Updated
    <3> QED
      BY <3>4, <3>6
  <2>7. /\ mem' = [u \in MemTables |-> mem'[u]]
        /\ mem'["prefixes"] = new
        /\ \A u \in MemTables \ {"prefixes"} : mem'[u] = mem[u]
        /\ next_id' = next_id
    <3>1. "prefixes" \in MemTables
      BY DEF MemTables
    <3> QED
      BY <1>0, <2>2, <3>1, FieldsWritten
  <2>8. MemTypes' /\ SameCounters' /\ PrefixTwin'
    BY <1>0, <2>2, <2>6, <2>7 DEF MemTypes, SameCounters, PrefixTwin
  <2> QED
    BY <2>2, <2>7, <2>8
<1>3. CASE CallDeletePrefix
  <2>1. PICK id \in Ids :
          mem_delete_ia_prefix(id) /\ delete_ia_prefix(id) /\ Called(FALSE)
    BY <1>3 DEF CallDeletePrefix
  <2> DEFINE kept == {r \in RowsOf(mem.prefixes) : r.id # id}
  <2>2. /\ Write("prefixes", Retain(mem.prefixes, kept))
        /\ UNCHANGED <<subnets, ranges, statics, leases, seq, hosts, tokens, now, seq6>>
        /\ prefixes' = {p \in prefixes : p.id # id}
    BY <2>1 DEF mem_delete_ia_prefix, RemoveId, Rows, delete_ia_prefix, Called, RowsIn4
  <2>3. prefixes' = prefixes \cap kept
    BY <1>0, <2>2 DEF PrefixTwin, Twin
  <2> HIDE DEF kept
  <2>4. Twin(Retain(mem.prefixes, kept), next_id.prefixes, PrefixRow, prefixes \cap kept)
    BY <1>0, TwinRetain DEF PrefixTwin
  <2>5. /\ mem' = [u \in MemTables |-> mem'[u]]
        /\ mem'["prefixes"] = Retain(mem.prefixes, kept)
        /\ \A u \in MemTables \ {"prefixes"} : mem'[u] = mem[u]
        /\ next_id' = next_id
    <3>1. "prefixes" \in MemTables
      BY DEF MemTables
    <3> QED
      BY <1>0, <2>2, <3>1, FieldsWritten
  <2>6. MemTypes' /\ SameCounters' /\ PrefixTwin'
    BY <1>0, <2>2, <2>3, <2>4, <2>5 DEF MemTypes, SameCounters, PrefixTwin
  <2> QED
    BY <2>2, <2>5, <2>6
<1> QED
  BY <1>1, <1>2, <1>3

LEMMA TwinTokens ==
    ASSUME Twins, CallCreateToken \/ CallToggleToken \/ CallDeleteToken, ~ parted'
    PROVE  Twins'
<1>0. /\ MemTypes /\ SameCounters /\ PrefixTwin /\ TokenTwin
  BY DEF Twins
<1> SUFFICES /\ MemTypes' /\ SameCounters' /\ TokenTwin'
             /\ UNCHANGED <<subnets, ranges, statics, leases, seq, hosts, now, prefixes>>
             /\ \A t \in MemTables \ {"tokens"} : mem'[t] = mem[t]
             /\ \A t \in MemCounts \ {"tokens"} : next_id'[t] = next_id[t]
  <2>1. PrefixTwin'
    BY <1>0 DEF PrefixTwin, MemTables, MemCounts
  <2> QED
    BY <2>1, SubnetsKept DEF Twins, MemTables, MemCounts
<1>1. CASE CallCreateToken
  <2>1. PICK name \in TokenName :
          mem_create_token(name) /\ create_token(name) /\ Called(FALSE)
    BY <1>1 DEF CallCreateToken, Refused, Called
  <2> DEFINE row == [id |-> next_id.tokens, name |-> name, enabled |-> TRUE]
  <2>2. /\ Push("tokens", row)
        /\ UNCHANGED <<subnets, ranges, statics, leases, seq, hosts, prefixes, now>>
        /\ tokens' = tokens \cup {[id |-> seq6.tokens + 1, name |-> name, enabled |-> TRUE]}
        /\ seq6' = [seq6 EXCEPT !.tokens = seq6.tokens + 1]
    BY <2>1 DEF mem_create_token, create_token, Called, RowsIn4
  <2>3. /\ mem' = [u \in MemTables |-> mem'[u]]
        /\ mem'["tokens"] = Append(mem["tokens"], row)
        /\ \A u \in MemTables \ {"tokens"} : mem'[u] = mem[u]
        /\ next_id' \in [MemCounts -> Nat]
        /\ next_id["tokens"] \in Nat
        /\ next_id'["tokens"] = next_id["tokens"] + 1
        /\ \A u \in MemCounts \ {"tokens"} : next_id'[u] = next_id[u]
    <3> HIDE DEF row
    <3>1. "tokens" \in MemCounts
      BY DEF MemCounts
    <3> QED
      BY <1>0, <2>2, <3>1, FieldsPushed
  <2>4. row \in TokenRow /\ row.id = next_id.tokens /\ tokens' = tokens \cup {row}
    BY <1>0, <2>2, <2>3 DEF TokenRow, SameCounters
  <2> HIDE DEF row
  <2>5. seq6' \in [{"prefixes", "tokens"} -> Nat] /\ seq6'.tokens = seq6.tokens + 1
        /\ seq6'.prefixes = seq6.prefixes
    BY <1>0, <2>2 DEF MemTypes
  <2>6. MemTypes' /\ SameCounters'
    BY <1>0, <2>2, <2>3, <2>5 DEF MemTypes, SameCounters, MemCounts
  <2>7. TokenTwin'
    <3>1. Twin(Append(mem.tokens, row), next_id.tokens + 1, TokenRow, tokens \cup {row})
      BY <1>0, <2>3, <2>4, RowTypes, TwinPush DEF TokenTwin
    <3> QED
      BY <2>3, <2>4, <3>1 DEF TokenTwin
  <2> QED
    BY <2>2, <2>3, <2>6, <2>7
<1>2. CASE CallToggleToken
  <2>1. PICK id \in Ids, e \in BOOLEAN :
          mem_toggle_token(id, e) /\ toggle_token(id, e) /\ Called(FALSE)
    BY <1>2 DEF CallToggleToken
  <2> DEFINE g == [t \in TokenRow |-> [t EXCEPT !.enabled = e]]
             new == ReplaceFirst(mem.tokens, {t \in Rows("tokens") : t.id = id},
                                 LAMBDA t : [t EXCEPT !.enabled = e])
  <2>2. /\ Write("tokens", new)
        /\ UNCHANGED <<subnets, ranges, statics, leases, seq, hosts, prefixes, now, seq6>>
        /\ tokens' = {IF t.id = id THEN [t EXCEPT !.enabled = e] ELSE t : t \in tokens}
    BY <2>1, Zenon DEF mem_toggle_token, toggle_token, Called, RowsIn4
  <2>4. new = [k \in DOMAIN mem.tokens |->
                 IF k \in FirstAt(mem.tokens, {t \in RowsOf(mem.tokens) : t.id = id})
                 THEN [mem.tokens[k] EXCEPT !.enabled = e] ELSE mem.tokens[k]]
    BY Zenon DEF ReplaceFirst, Rows
  <2> HIDE DEF new
  <2>5. mem.tokens \in Seq(TokenRow) /\ RowsOf(mem.tokens) = tokens
    BY <1>0 DEF TokenTwin, Twin
  <2>6. Twin(new, next_id.tokens, TokenRow, tokens')
    <3>1. /\ g \in [TokenRow -> TokenRow]
          /\ \A r \in TokenRow : g[r] = [r EXCEPT !.enabled = e] /\ g[r].id = r.id
      BY DEF TokenRow
    <3> HIDE DEF g
    <3>2. \A k \in DOMAIN mem.tokens :
             mem.tokens[k] \in TokenRow /\ g[mem.tokens[k]] = [mem.tokens[k] EXCEPT !.enabled = e]
      BY <2>5, <3>1
    <3>3. new = Overwrite(mem.tokens, id, g)
      BY <2>4, <3>2 DEF Overwrite
    <3>4. Twin(new, next_id.tokens, TokenRow, Updated(tokens, id, g))
      BY <1>0, <3>1, <3>3, TwinReplace DEF TokenTwin
    <3>5. tokens \subseteq TokenRow
      BY <2>5 DEF RowsOf
    <3>6. Updated(tokens, id, g) = tokens'
      BY <2>2, <3>1, <3>5 DEF Updated
    <3> QED
      BY <3>4, <3>6
  <2>7. /\ mem' = [u \in MemTables |-> mem'[u]]
        /\ mem'["tokens"] = new
        /\ \A u \in MemTables \ {"tokens"} : mem'[u] = mem[u]
        /\ next_id' = next_id
    <3>1. "tokens" \in MemTables
      BY DEF MemTables
    <3> QED
      BY <1>0, <2>2, <3>1, FieldsWritten
  <2>8. MemTypes' /\ SameCounters' /\ TokenTwin'
    BY <1>0, <2>2, <2>6, <2>7 DEF MemTypes, SameCounters, TokenTwin
  <2> QED
    BY <2>2, <2>7, <2>8
<1>3. CASE CallDeleteToken
  <2>1. PICK id \in Ids :
          mem_delete_token(id) /\ delete_token(id) /\ Called(FALSE)
    BY <1>3 DEF CallDeleteToken
  <2> DEFINE kept == {r \in RowsOf(mem.tokens) : r.id # id}
  <2>2. /\ Write("tokens", Retain(mem.tokens, kept))
        /\ UNCHANGED <<subnets, ranges, statics, leases, seq, hosts, prefixes, now, seq6>>
        /\ tokens' = {p \in tokens : p.id # id}
    BY <2>1 DEF mem_delete_token, RemoveId, Rows, delete_token, Called, RowsIn4
  <2>3. tokens' = tokens \cap kept
    BY <1>0, <2>2 DEF TokenTwin, Twin
  <2> HIDE DEF kept
  <2>4. Twin(Retain(mem.tokens, kept), next_id.tokens, TokenRow, tokens \cap kept)
    BY <1>0, TwinRetain DEF TokenTwin
  <2>5. /\ mem' = [u \in MemTables |-> mem'[u]]
        /\ mem'["tokens"] = Retain(mem.tokens, kept)
        /\ \A u \in MemTables \ {"tokens"} : mem'[u] = mem[u]
        /\ next_id' = next_id
    <3>1. "tokens" \in MemTables
      BY DEF MemTables
    <3> QED
      BY <1>0, <2>2, <3>1, FieldsWritten
  <2>6. MemTypes' /\ SameCounters' /\ TokenTwin'
    BY <1>0, <2>2, <2>3, <2>4, <2>5 DEF MemTypes, SameCounters, TokenTwin
  <2> QED
    BY <2>2, <2>5, <2>6
<1> QED
  BY <1>1, <1>2, <1>3

(* The tables of IPv6 prefixes and tokens in a statement on the others. *)
LEMMA OthersKept ==
    ASSUME Twins, UNCHANGED <<prefixes, tokens>>,
           mem'.prefixes = mem.prefixes, mem'.tokens = mem.tokens,
           next_id'.prefixes = next_id.prefixes, next_id'.tokens = next_id.tokens
    PROVE  PrefixTwin' /\ TokenTwin'
  BY DEF Twins, PrefixTwin, TokenTwin

LEMMA TwinCreateSubnet ==
    ASSUME Twins, CallCreateSubnet, ~ parted'
    PROVE  Twins'
<1>0. /\ MemTypes /\ SameCounters /\ SubnetTwin /\ RangeTwin /\ LeaseTwin /\ StaticTwin
      /\ LeasesEnd
  BY DEF Twins
<1>1. PICK n \in NewSubnets : mem_create_subnet(n.network, n.netmask)
                              /\ InsertSubnet(n.network, n.netmask) /\ Statement
  BY DEF CallCreateSubnet, Refused, Called
<1> DEFINE row == [id |-> next_id.subnets, network |-> n.network, netmask |-> n.netmask]
<1>2. /\ Push("subnets", row)
      /\ UNCHANGED <<ranges, statics, leases, prefixes, tokens, seq6, now>>
      /\ subnets' = subnets \cup {[id |-> seq.subnets + 1, network |-> n.network,
                                   netmask |-> n.netmask]}
      /\ seq' = [seq EXCEPT !.subnets = seq.subnets + 1]
      /\ hosts' = Following(hosts, statics')
  BY <1>1 DEF mem_create_subnet, InsertSubnet, Statement, Called, Aside, HostsFollow, Following
<1>3. /\ mem' = [u \in MemTables |-> mem'[u]]
      /\ mem'["subnets"] = Append(mem["subnets"], row)
      /\ \A u \in MemTables \ {"subnets"} : mem'[u] = mem[u]
      /\ next_id' \in [MemCounts -> Nat]
      /\ next_id["subnets"] \in Nat
      /\ next_id'["subnets"] = next_id["subnets"] + 1
      /\ \A u \in MemCounts \ {"subnets"} : next_id'[u] = next_id[u]
  <2> HIDE DEF row
  <2>1. "subnets" \in MemCounts
    BY DEF MemCounts
  <2> QED
    BY <1>0, <1>2, <2>1, FieldsPushed
<1>4. row \in SubnetRow /\ row.id = next_id.subnets /\ subnets' = subnets \cup {row}
  BY <1>0, <1>2, <1>3, DatabasesAssumption DEF SubnetRow, SameCounters
<1> HIDE DEF row
<1>5. /\ seq' \in [SqlCounts -> Nat] /\ seq'.subnets = seq.subnets + 1
      /\ seq'.ranges = seq.ranges /\ seq'.leases = seq.leases
  BY <1>0, <1>2 DEF MemTypes, SqlCounts
<1>6. MemTypes' /\ SameCounters'
  BY <1>0, <1>2, <1>3, <1>5 DEF MemTypes, SameCounters, MemCounts
<1>7. SubnetTwin'
  <2>1. Twin(Append(mem.subnets, row), next_id.subnets + 1, SubnetRow, subnets \cup {row})
    BY <1>0, <1>3, <1>4, RowTypes, TwinPush DEF SubnetTwin
  <2> QED
    BY <1>3, <1>4, <2>1 DEF SubnetTwin
<1>8. SubnetIds' = SubnetIds \cup {next_id.subnets}
  BY <1>4 DEF SubnetIds
<1>9. /\ mem'.ranges = mem.ranges /\ mem'.leases = mem.leases /\ mem'.statics = mem.statics
      /\ mem'.prefixes = mem.prefixes /\ mem'.tokens = mem.tokens
      /\ next_id'.ranges = next_id.ranges /\ next_id'.leases = next_id.leases
      /\ next_id'.prefixes = next_id.prefixes /\ next_id'.tokens = next_id.tokens
  BY <1>3 DEF MemTables, MemCounts
<1>10. RangeTwin'
  <2>1. Child(mem.ranges, next_id.ranges, RangeRow, ranges, SubnetIds \cup {next_id.subnets},
              next_id.subnets + 1)
    BY <1>0, <1>3, RowTypes, ChildOfNew DEF RangeTwin
  <2> QED
    BY <1>2, <1>3, <1>8, <1>9, <2>1 DEF RangeTwin
<1>11. LeaseTwin'
  <2>1. Child(mem.leases, next_id.leases, LeaseRow, leases, SubnetIds \cup {next_id.subnets},
              next_id.subnets + 1)
    BY <1>0, <1>3, RowTypes, ChildOfNew DEF LeaseTwin
  <2> QED
    BY <1>2, <1>3, <1>8, <1>9, <2>1 DEF LeaseTwin
<1>12. StaticTwin'
  <2>1. Reserved(mem.statics, statics, hosts, SubnetIds \cup {next_id.subnets},
                 next_id.subnets + 1)
    BY <1>0, <1>3, ReservedOfNew DEF StaticTwin
  <2>2. hosts' = hosts
    BY <1>0, <1>2, ReservedFollow DEF StaticTwin
  <2> QED
    BY <1>2, <1>3, <1>8, <1>9, <2>1, <2>2 DEF StaticTwin
<1>13. LeasesEnd'
  BY <1>0, <1>2, <1>9 DEF LeasesEnd
<1> QED
  BY <1>2, <1>6, <1>7, <1>9, <1>10, <1>11, <1>12, <1>13, OthersKept DEF Twins

LEMMA TwinUpdateSubnet ==
    ASSUME Twins, CallUpdateSubnet, ~ parted'
    PROVE  Twins'
<1>0. /\ MemTypes /\ SameCounters /\ SubnetTwin /\ RangeTwin /\ LeaseTwin /\ StaticTwin
      /\ LeasesEnd
  BY DEF Twins
<1>1. PICK id \in Ids, n \in NewSubnets :
        /\ mem_update_subnet(id, n.network, n.netmask)
        /\ Called(FALSE)
        /\ \/ id \in SubnetIds /\ UpdateSubnet(id, n.network, n.netmask) /\ Statement
           \/ id \notin SubnetIds /\ UNCHANGED sqlVars
  BY DEF CallUpdateSubnet, Refused, Called, Statement
<1> DEFINE row == [id |-> id, network |-> n.network, netmask |-> n.netmask]
           g == [s \in SubnetRow |-> row]
           new == ReplaceFirst(mem.subnets, {s \in Rows("subnets") : s.id = id},
                     LAMBDA s : [id |-> id, network |-> n.network, netmask |-> n.netmask])
<1>2. row \in SubnetRow /\ row.id = id
  BY DatabasesAssumption DEF SubnetRow
<1>3. Write("subnets", new)
  BY <1>1, Zenon DEF mem_update_subnet
<1>4. new = [k \in DOMAIN mem.subnets |->
               IF k \in FirstAt(mem.subnets, {s \in RowsOf(mem.subnets) : s.id = id})
               THEN row ELSE mem.subnets[k]]
  BY Zenon DEF ReplaceFirst, Rows
<1> HIDE DEF new
<1>5. hosts' = hosts
  <2>1. CASE Statement /\ UNCHANGED statics
    BY <1>0, <2>1, ReservedFollow DEF Statement, HostsFollow, Following, StaticTwin
  <2>2. CASE UNCHANGED sqlVars
    BY <2>2 DEF sqlVars
  <2> QED
    BY <1>1, <2>1, <2>2 DEF UpdateSubnet
<1>6. /\ UNCHANGED <<ranges, statics, leases, prefixes, tokens, seq, seq6, now>>
      /\ subnets' = {IF s.id = id THEN row ELSE s : s \in subnets}
  <2>1. CASE id \in SubnetIds /\ UpdateSubnet(id, n.network, n.netmask) /\ Statement
    BY <2>1 DEF UpdateSubnet, Statement, Called, Aside
  <2>2. CASE id \notin SubnetIds /\ UNCHANGED sqlVars
    <3>1. \A s \in subnets : s.id # id
      BY <2>2 DEF SubnetIds
    <3>2. subnets = {IF s.id = id THEN row ELSE s : s \in subnets}
      BY <3>1
    <3> QED
      BY <1>1, <2>2, <3>2 DEF sqlVars, Called
  <2> QED
    BY <1>1, <2>1, <2>2
<1> HIDE DEF row
<1>7. mem.subnets \in Seq(SubnetRow) /\ RowsOf(mem.subnets) = subnets
  BY <1>0 DEF SubnetTwin, Twin
<1>8. Twin(new, next_id.subnets, SubnetRow, subnets')
  <2>1. g \in [SubnetRow -> SubnetRow] /\ \A r \in SubnetRow : g[r] = row
    BY <1>2
  <2> HIDE DEF g
  <2>2. \A k \in DOMAIN mem.subnets : mem.subnets[k] \in SubnetRow /\ g[mem.subnets[k]] = row
    BY <1>7, <2>1
  <2>3. new = Overwrite(mem.subnets, id, g)
    BY <1>4, <2>2 DEF Overwrite
  <2>4. Twin(new, next_id.subnets, SubnetRow, Updated(subnets, id, g))
    BY <1>0, <1>2, <2>1, <2>3, TwinReplace DEF SubnetTwin
  <2>5. subnets \subseteq SubnetRow
    BY <1>7 DEF RowsOf
  <2>6. Updated(subnets, id, g) = subnets'
    BY <1>6, <2>1, <2>5 DEF Updated
  <2> QED
    BY <2>4, <2>6
<1>9. SubnetIds' = SubnetIds
  BY <1>2, <1>6 DEF SubnetIds
<1>10. /\ mem' = [u \in MemTables |-> mem'[u]]
       /\ mem'["subnets"] = new
       /\ \A u \in MemTables \ {"subnets"} : mem'[u] = mem[u]
       /\ next_id' = next_id
  <2>1. "subnets" \in MemTables
    BY DEF MemTables
  <2> QED
    BY <1>0, <1>3, <2>1, FieldsWritten
<1>11. MemTypes' /\ SameCounters' /\ SubnetTwin'
  BY <1>0, <1>6, <1>8, <1>10 DEF MemTypes, SameCounters, SubnetTwin
<1>12. /\ mem'.ranges = mem.ranges /\ mem'.leases = mem.leases /\ mem'.statics = mem.statics
       /\ mem'.prefixes = mem.prefixes /\ mem'.tokens = mem.tokens
  BY <1>10 DEF MemTables
<1>13. RangeTwin' /\ LeaseTwin' /\ StaticTwin' /\ LeasesEnd'
  BY <1>0, <1>5, <1>6, <1>9, <1>10, <1>12 DEF RangeTwin, LeaseTwin, StaticTwin, LeasesEnd
<1> QED
  BY <1>6, <1>10, <1>11, <1>12, <1>13, OthersKept DEF Twins

LEMMA TwinDeleteSubnet ==
    ASSUME Twins, CallDeleteSubnet
    PROVE  Twins'
<1>0. /\ MemTypes /\ SameCounters /\ SubnetTwin /\ RangeTwin /\ LeaseTwin /\ StaticTwin
      /\ LeasesEnd
  BY DEF Twins
<1>1. PICK id \in Ids : mem_delete_subnet(id) /\ DeleteSubnet(id) /\ Statement
  BY DEF CallDeleteSubnet
<1> DEFINE kept == {r \in RowsOf(mem.subnets) : r.id # id}
<1>2. /\ Write("subnets", Retain(mem.subnets, kept))
      /\ UNCHANGED <<prefixes, tokens, seq, seq6, now>>
      /\ subnets' = {s \in subnets : s.id # id}
      /\ ranges' = {r \in ranges : r.subnet_id # id}
      /\ leases' = {l \in leases : l.subnet_id # id}
      /\ statics' = {s \in statics : s.subnet_id # id}
      /\ hosts' = Following(hosts, statics')
  BY <1>1 DEF mem_delete_subnet, RemoveId, Rows, DeleteSubnet, Statement, Called, Aside,
     HostsFollow, Following
<1>3. subnets' = subnets \cap kept
  BY <1>0, <1>2 DEF SubnetTwin, Twin
<1>4. SubnetIds' = SubnetIds \ {id}
  BY <1>2 DEF SubnetIds
<1> HIDE DEF kept
<1>5. Twin(Retain(mem.subnets, kept), next_id.subnets, SubnetRow, subnets \cap kept)
  BY <1>0, TwinRetain DEF SubnetTwin
<1>6. /\ mem' = [u \in MemTables |-> mem'[u]]
      /\ mem'["subnets"] = Retain(mem.subnets, kept)
      /\ \A u \in MemTables \ {"subnets"} : mem'[u] = mem[u]
      /\ next_id' = next_id
  <2>1. "subnets" \in MemTables
    BY DEF MemTables
  <2> QED
    BY <1>0, <1>2, <2>1, FieldsWritten
<1>7. MemTypes' /\ SameCounters' /\ SubnetTwin'
  BY <1>0, <1>2, <1>3, <1>5, <1>6 DEF MemTypes, SameCounters, SubnetTwin
<1>8. /\ mem'.ranges = mem.ranges /\ mem'.leases = mem.leases /\ mem'.statics = mem.statics
      /\ mem'.prefixes = mem.prefixes /\ mem'.tokens = mem.tokens
  BY <1>6 DEF MemTables
<1>9. Child(mem.ranges, next_id.ranges, RangeRow, ranges', SubnetIds \ {id}, next_id.subnets)
  BY <1>0, <1>2, ChildOfGone DEF RangeTwin
<1>10. Child(mem.leases, next_id.leases, LeaseRow, leases', SubnetIds \ {id}, next_id.subnets)
  BY <1>0, <1>2, ChildOfGone DEF LeaseTwin
<1>11. Reserved(mem.statics, statics', hosts', SubnetIds \ {id}, next_id.subnets)
  BY <1>0, <1>2, ReservedOfGone DEF StaticTwin
<1>12. RangeTwin' /\ LeaseTwin' /\ StaticTwin' /\ LeasesEnd'
  BY <1>0, <1>2, <1>4, <1>6, <1>8, <1>9, <1>10, <1>11
     DEF RangeTwin, LeaseTwin, StaticTwin, LeasesEnd
<1> QED
  BY <1>2, <1>6, <1>7, <1>8, <1>12, OthersKept DEF Twins

LEMMA SubnetIdsBelow ==
    ASSUME Twins
    PROVE  \A id \in SubnetIds : id < next_id.subnets
  BY DEF Twins, SubnetTwin, Twin, Numbered, RowsOf, SubnetIds

LEMMA TwinRanges ==
    ASSUME Twins, CallCreateRange \/ CallDeleteRange, ~ parted'
    PROVE  Twins'
<1>0. /\ MemTypes /\ SameCounters /\ SubnetTwin /\ RangeTwin /\ LeaseTwin /\ StaticTwin
      /\ LeasesEnd
  BY DEF Twins
<1> SUFFICES /\ MemTypes' /\ SameCounters' /\ RangeTwin'
             /\ UNCHANGED <<subnets, leases, statics, prefixes, tokens, now>>
             /\ hosts' = Following(hosts, statics')
             /\ \A t \in MemTables \ {"ranges"} : mem'[t] = mem[t]
             /\ \A t \in MemCounts \ {"ranges"} : next_id'[t] = next_id[t]
  <2>1. /\ mem'.subnets = mem.subnets /\ mem'.leases = mem.leases
        /\ mem'.statics = mem.statics /\ mem'.prefixes = mem.prefixes
        /\ mem'.tokens = mem.tokens
        /\ next_id'.subnets = next_id.subnets /\ next_id'.leases = next_id.leases
        /\ next_id'.prefixes = next_id.prefixes /\ next_id'.tokens = next_id.tokens
    BY DEF MemTables, MemCounts
  <2>2. hosts' = hosts
    BY <1>0, ReservedFollow DEF StaticTwin
  <2>3. SubnetTwin' /\ LeaseTwin' /\ StaticTwin' /\ LeasesEnd'
    BY <1>0, <2>1, <2>2 DEF SubnetTwin, LeaseTwin, StaticTwin, LeasesEnd, SubnetIds
  <2> QED
    BY <2>1, <2>3, OthersKept DEF Twins
<1>1. CASE CallCreateRange
  <2>1. PICK id \in Ids, ip \in LeaseIps :
          mem_create_range(id, ip, ip, TRUE) /\ InsertRange(id, ip, ip, TRUE) /\ Statement
    BY <1>1 DEF CallCreateRange, Refused, Called
  <2> DEFINE row == [id |-> next_id.ranges, subnet_id |-> id, range_start |-> ip,
                     range_end |-> ip, enabled |-> TRUE]
  <2>2. /\ Push("ranges", row)
        /\ id \in SubnetIds
        /\ UNCHANGED <<subnets, leases, statics, prefixes, tokens, seq6, now>>
        /\ hosts' = Following(hosts, statics')
        /\ ranges' = ranges \cup {[id |-> seq.ranges + 1, subnet_id |-> id,
                                   range_start |-> ip, range_end |-> ip, enabled |-> TRUE]}
        /\ seq' = [seq EXCEPT !.ranges = seq.ranges + 1]
    BY <2>1 DEF mem_create_range, InsertRange, Statement, Called, Aside, HostsFollow, Following
  <2>3. /\ mem' = [u \in MemTables |-> mem'[u]]
        /\ mem'["ranges"] = Append(mem["ranges"], row)
        /\ \A u \in MemTables \ {"ranges"} : mem'[u] = mem[u]
        /\ next_id' \in [MemCounts -> Nat]
        /\ next_id["ranges"] \in Nat
        /\ next_id'["ranges"] = next_id["ranges"] + 1
        /\ \A u \in MemCounts \ {"ranges"} : next_id'[u] = next_id[u]
    <3> HIDE DEF row
    <3>1. "ranges" \in MemCounts
      BY DEF MemCounts
    <3> QED
      BY <1>0, <2>2, <3>1, FieldsPushed
  <2>4. /\ row \in RangeRow /\ row.id = next_id.ranges /\ row.subnet_id = id
        /\ ranges' = ranges \cup {row}
    BY <1>0, <2>2, <2>3, DatabasesAssumption DEF RangeRow, SameCounters
  <2> HIDE DEF row
  <2>5. /\ seq' \in [SqlCounts -> Nat] /\ seq'.ranges = seq.ranges + 1
        /\ seq'.subnets = seq.subnets /\ seq'.leases = seq.leases
    BY <1>0, <2>2 DEF MemTypes, SqlCounts
  <2>6. MemTypes' /\ SameCounters'
    BY <1>0, <2>2, <2>3, <2>5 DEF MemTypes, SameCounters, MemCounts
  <2>7. RangeTwin'
    <3>1. Child(Append(mem.ranges, row), next_id.ranges + 1, RangeRow, ranges \cup {row},
                SubnetIds, next_id.subnets)
      BY <1>0, <2>2, <2>3, <2>4, RowTypes, SubnetIdsBelow, ChildPush DEF RangeTwin
    <3>2. next_id'.subnets = next_id.subnets /\ SubnetIds' = SubnetIds
      BY <2>2, <2>3 DEF MemCounts, SubnetIds
    <3> QED
      BY <2>3, <2>4, <3>1, <3>2 DEF RangeTwin
  <2> QED
    BY <2>2, <2>3, <2>6, <2>7
<1>2. CASE CallDeleteRange
  <2>1. PICK id \in Ids : mem_delete_range(id) /\ DeleteRange(id) /\ Statement
    BY <1>2 DEF CallDeleteRange
  <2> DEFINE kept == {r \in RowsOf(mem.ranges) : r.id # id}
  <2>2. /\ Write("ranges", Retain(mem.ranges, kept))
        /\ UNCHANGED <<subnets, leases, statics, prefixes, tokens, seq, seq6, now>>
        /\ hosts' = Following(hosts, statics')
        /\ ranges' = {r \in ranges : r.id # id}
    BY <2>1 DEF mem_delete_range, RemoveId, Rows, DeleteRange, Statement, Called, Aside,
       HostsFollow, Following
  <2>3. ranges' = ranges \cap kept
    BY <1>0, <2>2 DEF RangeTwin, Child
  <2> HIDE DEF kept
  <2>4. Child(Retain(mem.ranges, kept), next_id.ranges, RangeRow, ranges \cap kept, SubnetIds,
              next_id.subnets)
    BY <1>0, ChildRetain DEF RangeTwin
  <2>5. /\ mem' = [u \in MemTables |-> mem'[u]]
        /\ mem'["ranges"] = Retain(mem.ranges, kept)
        /\ \A u \in MemTables \ {"ranges"} : mem'[u] = mem[u]
        /\ next_id' = next_id
    <3>1. "ranges" \in MemTables
      BY DEF MemTables
    <3> QED
      BY <1>0, <2>2, <3>1, FieldsWritten
  <2>6. SubnetIds' = SubnetIds
    BY <2>2 DEF SubnetIds
  <2>7. MemTypes' /\ SameCounters' /\ RangeTwin'
    BY <1>0, <2>2, <2>3, <2>4, <2>5, <2>6 DEF MemTypes, SameCounters, RangeTwin
  <2> QED
    BY <2>2, <2>5, <2>7
<1> QED
  BY <1>1, <1>2

LEMMA TwinLeases ==
    ASSUME Twins, CallCreateLease \/ CallExpireLease \/ CallDeleteExpired, ~ parted'
    PROVE  Twins'
<1>0. /\ MemTypes /\ SameCounters /\ SubnetTwin /\ RangeTwin /\ LeaseTwin /\ StaticTwin
      /\ LeasesEnd
  BY DEF Twins
<1> SUFFICES /\ MemTypes' /\ SameCounters' /\ LeaseTwin' /\ LeasesEnd'
             /\ UNCHANGED <<subnets, ranges, statics, prefixes, tokens, now>>
             /\ hosts' = Following(hosts, statics')
             /\ \A t \in MemTables \ {"leases"} : mem'[t] = mem[t]
             /\ \A t \in MemCounts \ {"leases"} : next_id'[t] = next_id[t]
  <2>1. /\ mem'.subnets = mem.subnets /\ mem'.ranges = mem.ranges
        /\ mem'.statics = mem.statics /\ mem'.prefixes = mem.prefixes
        /\ mem'.tokens = mem.tokens
        /\ next_id'.subnets = next_id.subnets /\ next_id'.ranges = next_id.ranges
        /\ next_id'.prefixes = next_id.prefixes /\ next_id'.tokens = next_id.tokens
    BY DEF MemTables, MemCounts
  <2>2. hosts' = hosts
    BY <1>0, ReservedFollow DEF StaticTwin
  <2>3. SubnetTwin' /\ RangeTwin' /\ StaticTwin'
    BY <1>0, <2>1, <2>2 DEF SubnetTwin, RangeTwin, StaticTwin, SubnetIds
  <2> QED
    BY <2>1, <2>3, OthersKept DEF Twins
<1>1. CASE CallCreateLease
  <2>1. PICK id \in Ids, mac \in Mac, ip \in LeaseIps, d \in LeaseTimes :
          /\ mem_create_lease(id, mac, ip, now + d)
          /\ id \in SubnetIds /\ create_lease(id, mac, ip, now + d) /\ Statement
    BY <1>1 DEF CallCreateLease, Refused, Called
  <2> DEFINE row == [id |-> next_id.leases, subnet_id |-> id, mac |-> mac, ip |-> ip,
                     lease_end |-> now + d]
  <2>2. /\ Push("leases", row)
        /\ id \in SubnetIds
        /\ UNCHANGED <<subnets, ranges, statics, prefixes, tokens, seq6, now>>
        /\ hosts' = Following(hosts, statics')
        /\ leases' = leases \cup {[id |-> seq.leases + 1, subnet_id |-> id, mac |-> mac,
                                   ip |-> ip, lease_end |-> now + d]}
        /\ seq' = [seq EXCEPT !.leases = seq.leases + 1]
    BY <2>1 DEF mem_create_lease, create_lease, Statement, Called, Aside, HostsFollow, Following
  <2>3. /\ mem' = [u \in MemTables |-> mem'[u]]
        /\ mem'["leases"] = Append(mem["leases"], row)
        /\ \A u \in MemTables \ {"leases"} : mem'[u] = mem[u]
        /\ next_id' \in [MemCounts -> Nat]
        /\ next_id["leases"] \in Nat
        /\ next_id'["leases"] = next_id["leases"] + 1
        /\ \A u \in MemCounts \ {"leases"} : next_id'[u] = next_id[u]
    <3> HIDE DEF row
    <3>1. "leases" \in MemCounts
      BY DEF MemCounts
    <3> QED
      BY <1>0, <2>2, <3>1, FieldsPushed
  <2>4. now \in Nat /\ now + d \in Nat
    BY <1>0, DatabasesAssumption DEF MemTypes
  <2>5. /\ row \in LeaseRow /\ row.id = next_id.leases /\ row.subnet_id = id
        /\ leases' = leases \cup {row} /\ row.lease_end = now + d
    BY <1>0, <2>2, <2>3, <2>4, DatabasesAssumption DEF LeaseRow, SameCounters
  <2> HIDE DEF row
  <2>6. /\ seq' \in [SqlCounts -> Nat] /\ seq'.leases = seq.leases + 1
        /\ seq'.subnets = seq.subnets /\ seq'.ranges = seq.ranges
    BY <1>0, <2>2 DEF MemTypes, SqlCounts
  <2>7. MemTypes' /\ SameCounters'
    BY <1>0, <2>2, <2>3, <2>6 DEF MemTypes, SameCounters, MemCounts
  <2>8. LeaseTwin'
    <3>1. Child(Append(mem.leases, row), next_id.leases + 1, LeaseRow, leases \cup {row},
                SubnetIds, next_id.subnets)
      BY <1>0, <2>2, <2>3, <2>5, RowTypes, SubnetIdsBelow, ChildPush DEF LeaseTwin
    <3>2. next_id'.subnets = next_id.subnets /\ SubnetIds' = SubnetIds
      BY <2>2, <2>3 DEF MemCounts, SubnetIds
    <3> QED
      BY <2>3, <2>5, <3>1, <3>2 DEF LeaseTwin
  <2>9. LeasesEnd'
    <3>1. RowsOf(Append(mem.leases, row)) = RowsOf(mem.leases) \cup {row}
      <4>1. mem.leases \in Seq(LeaseRow) /\ Numbered(mem.leases, next_id.leases)
        BY <1>0 DEF LeaseTwin, Child
      <4> QED
        BY <2>3, <2>5, <4>1, RowTypes, PushNumbered
    <3>2. PICK n \in Nat : \A l \in RowsOf(mem.leases) : l.lease_end <= n
      BY <1>0 DEF LeasesEnd
    <3>3. \A l \in RowsOf(mem.leases) : l.lease_end \in Nat
      BY <1>0, RowTypes DEF LeaseTwin, Child, RowsOf
    <3>4. \A l \in RowsOf(mem.leases) \cup {row} : l.lease_end <= n + (now + d)
      BY <2>4, <2>5, <3>2, <3>3
    <3>5. n + (now + d) \in Nat
      BY <2>4
    <3> QED
      BY <2>3, <3>1, <3>4, <3>5 DEF LeasesEnd
  <2> QED
    BY <2>2, <2>3, <2>7, <2>8, <2>9
<1> SUFFICES ASSUME NEW kept, Write("leases", Retain(mem.leases, kept)),
                    UNCHANGED <<subnets, ranges, statics, prefixes, tokens, seq, seq6, now>>,
                    hosts' = Following(hosts, statics'),
                    leases' = leases \cap kept
             PROVE  /\ MemTypes' /\ SameCounters' /\ LeaseTwin' /\ LeasesEnd'
                    /\ \A t \in MemTables \ {"leases"} : mem'[t] = mem[t]
                    /\ next_id' = next_id
  <2>1. CASE CallExpireLease
    <3>1. PICK id \in Ids : mem_expire_lease(id) /\ expire_lease(id) /\ Statement
      BY <2>1 DEF CallExpireLease
    <3> DEFINE K == {l \in RowsOf(mem.leases) : l.id # id}
    <3>2. /\ Write("leases", Retain(mem.leases, K))
          /\ UNCHANGED <<subnets, ranges, statics, prefixes, tokens, seq, seq6, now>>
          /\ hosts' = Following(hosts, statics')
          /\ leases' = {l \in leases : l.id # id}
      BY <3>1 DEF mem_expire_lease, RemoveId, Rows, expire_lease, Statement, Called, Aside,
         HostsFollow, Following
    <3>3. leases' = leases \cap K
      BY <1>0, <3>2 DEF LeaseTwin, Child
    <3> HIDE DEF K
    <3> QED
      BY <3>2, <3>3
  <2>2. CASE CallDeleteExpired
    <3> DEFINE K == {l \in RowsOf(mem.leases) : l.lease_end >= now}
    <3>1. /\ Write("leases", Retain(mem.leases, K))
          /\ UNCHANGED <<subnets, ranges, statics, prefixes, tokens, seq, seq6, now>>
          /\ hosts' = Following(hosts, statics')
          /\ leases' = {l \in leases : ~ l.lease_end < now}
      BY <2>2 DEF CallDeleteExpired, mem_delete_expired_leases, Rows, delete_expired_leases,
         Statement, Called, Aside, HostsFollow, Following
    <3>2. leases \subseteq LeaseRow /\ now \in Nat /\ leases \subseteq RowsOf(mem.leases)
      <4>1. /\ mem.leases \in Seq(LeaseRow)
            /\ leases = {r \in RowsOf(mem.leases) : r.subnet_id \in SubnetIds}
        BY <1>0 DEF LeaseTwin, Child
      <4>2. RowsOf(mem.leases) \subseteq LeaseRow
        BY <4>1 DEF RowsOf
      <4> QED
        BY <1>0, <4>1, <4>2 DEF MemTypes
    <3>3. \A l \in leases : ~ l.lease_end < now <=> l.lease_end >= now
      BY <3>2, RowTypes
    <3>4. leases' = leases \cap K
      BY <3>1, <3>2, <3>3
    <3> HIDE DEF K
    <3> QED
      BY <3>1, <3>4
  <2> QED
    BY <1>1, <2>1, <2>2
<1>2. Child(Retain(mem.leases, kept), next_id.leases, LeaseRow, leases \cap kept, SubnetIds,
            next_id.subnets)
  BY <1>0, ChildRetain DEF LeaseTwin
<1>3. /\ mem' = [u \in MemTables |-> mem'[u]]
      /\ mem'["leases"] = Retain(mem.leases, kept)
      /\ \A u \in MemTables \ {"leases"} : mem'[u] = mem[u]
      /\ next_id' = next_id
  <2>1. "leases" \in MemTables
    BY DEF MemTables
  <2> QED
    BY <1>0, <2>1, FieldsWritten
<1>4. SubnetIds' = SubnetIds
  BY DEF SubnetIds
<1>5. MemTypes' /\ SameCounters' /\ LeaseTwin'
  BY <1>0, <1>2, <1>3, <1>4 DEF MemTypes, SameCounters, LeaseTwin
<1>6. LeasesEnd'
  <2>1. RowsOf(Retain(mem.leases, kept)) = RowsOf(mem.leases) \cap kept
    BY <1>0, RetainRows DEF LeaseTwin, Child
  <2> QED
    BY <1>0, <1>3, <2>1 DEF LeasesEnd
<1> QED
  BY <1>3, <1>5, <1>6

LEMMA AliveById ==
    ASSUME SubnetTwin, NEW r
    PROVE  Alive(r) <=> r.subnet_id \in SubnetIds
  BY DEF SubnetTwin, Twin, RowsOf, Alive, SubnetIds

LEMMA TwinStatics ==
    ASSUME Twins, CallCreateStatic \/ CallUpdateHostname \/ CallDeleteStatic, ~ parted'
    PROVE  Twins'
<1>0. /\ MemTypes /\ SameCounters /\ SubnetTwin /\ RangeTwin /\ LeaseTwin /\ StaticTwin
      /\ LeasesEnd
  BY DEF Twins
<1>1. "statics" \in MemTables
  BY DEF MemTables
<1> SUFFICES ASSUME NEW new, Write("statics", new),
                    UNCHANGED <<subnets, ranges, leases, prefixes, tokens, seq, seq6, now>>,
                    Reserved(new, statics', hosts', SubnetIds, next_id.subnets)
             PROVE  Twins'
  <2>1. CASE CallCreateStatic
    <3>1. PICK id \in Ids, ip \in LeaseIps, mac \in MacText, h \in Hostname :
            /\ mem_create_static_ip(ip, mac, id, h)
            /\ InsertStatic(ip, mac, id)
            /\ hosts' = hosts \cup {[ip |-> ip, hostname |-> h]}
            /\ Called(FALSE) /\ Aside
      BY <2>1 DEF CallCreateStatic, Refused, Called
    <3> DEFINE row == [ip |-> ip, mac |-> mac, subnet_id |-> id, hostname |-> h]
    <3>2. /\ Write("statics", Append(mem.statics, row))
          /\ UNCHANGED <<subnets, ranges, leases, prefixes, tokens, seq, seq6, now>>
          /\ id \in SubnetIds
          /\ ~ \E s \in statics : s.ip = ip
          /\ statics' = statics \cup {[ip |-> ip, mac |-> mac, subnet_id |-> id]}
          /\ hosts' = hosts \cup {[ip |-> ip, hostname |-> h]}
      BY <3>1 DEF mem_create_static_ip, InsertStatic, Called, Aside
    <3>3. /\ row \in HostRow /\ row.subnet_id = id /\ row.ip = ip
          /\ SqlRow(row) = [ip |-> ip, mac |-> mac, subnet_id |-> id]
          /\ NameRow(row) = [ip |-> ip, hostname |-> h]
      BY DatabasesAssumption DEF HostRow, SqlRow, NameRow
    <3> HIDE DEF row
    <3>4. Reserved(Append(mem.statics, row), statics \cup {SqlRow(row)},
                   hosts \cup {NameRow(row)}, SubnetIds, next_id.subnets)
      BY <1>0, <3>2, <3>3, SubnetIdsBelow, ReservedPush DEF StaticTwin
    <3> QED
      BY <3>2, <3>3, <3>4
  <2>2. CASE CallUpdateHostname
    <3>1. PICK ip \in LeaseIps, h \in Hostname :
            /\ mem_update_static_ip_hostname(ip, h)
            /\ update_static_ip_hostname(ip, h)
            /\ Called(\E s \in First(mem.statics, {r \in Rows("statics") : r.ip = ip}) : ~ Alive(s))
      BY <2>2 DEF CallUpdateHostname
    <3> DEFINE V == ReplaceFirst(mem.statics, {s \in Rows("statics") : s.ip = ip},
                                 LAMBDA s : [s EXCEPT !.hostname = h])
    <3>2. /\ Write("statics", V)
          /\ UNCHANGED <<subnets, ranges, leases, statics, prefixes, tokens, seq, seq6, now>>
          /\ hosts' = {IF k.ip = ip THEN [ip |-> ip, hostname |-> h] ELSE k : k \in hosts}
      BY <3>1, Zenon DEF mem_update_static_ip_hostname, update_static_ip_hostname, Called
    <3>3. V = Rename(mem.statics, ip, h) /\ hosts' = Renamed(hosts, ip, h)
      BY <3>2, Zenon DEF ReplaceFirst, Rows, Rename, WithIp, Renamed
    <3>4. \A s \in First(mem.statics, WithIp(mem.statics, ip)) : s.subnet_id \in SubnetIds
      <4>1. \A s \in First(mem.statics, WithIp(mem.statics, ip)) : Alive(s)
        BY <3>1, Zenon DEF Called, Rows, WithIp
      <4> QED
        BY <1>0, <4>1, AliveById
    <3> HIDE DEF V
    <3>5. Reserved(Rename(mem.statics, ip, h), statics, Renamed(hosts, ip, h), SubnetIds,
                   next_id.subnets)
      BY <1>0, <3>4, ReservedRename DEF StaticTwin
    <3>6. Reserved(V, statics', hosts', SubnetIds, next_id.subnets)
      BY <3>2, <3>3, <3>5
    <3> QED
      BY <3>2, <3>6
  <2>3. CASE CallDeleteStatic
    <3>1. PICK ip \in LeaseIps : mem_delete_static_ip(ip) /\ DeleteStatic(ip) /\ Statement
      BY <2>3 DEF CallDeleteStatic
    <3> DEFINE K == {s \in RowsOf(mem.statics) : s.ip # ip}
    <3>2. /\ Write("statics", Retain(mem.statics, K))
          /\ UNCHANGED <<subnets, ranges, leases, prefixes, tokens, seq, seq6, now>>
          /\ statics' = {s \in statics : s.ip # ip}
          /\ hosts' = Following(hosts, statics')
      BY <3>1 DEF mem_delete_static_ip, Rows, DeleteStatic, Statement, Called, Aside,
         HostsFollow, Following
    <3>3. \A r : r \in K <=> r \in RowsOf(mem.statics) /\ r.ip # ip
      OBVIOUS
    <3> HIDE DEF K
    <3>4. Reserved(Retain(mem.statics, K), statics', hosts', SubnetIds, next_id.subnets)
      BY <1>0, <3>2, <3>3, ReservedRetain DEF StaticTwin
    <3> QED
      BY <3>2, <3>4
  <2> QED
    BY <2>1, <2>2, <2>3
<1>2. /\ mem' = [u \in MemTables |-> mem'[u]]
      /\ mem'["statics"] = new
      /\ \A u \in MemTables \ {"statics"} : mem'[u] = mem[u]
      /\ next_id' = next_id
  BY <1>0, <1>1, FieldsWritten
<1>3. /\ mem'.subnets = mem.subnets /\ mem'.ranges = mem.ranges /\ mem'.leases = mem.leases
      /\ mem'.prefixes = mem.prefixes /\ mem'.tokens = mem.tokens
  BY <1>2 DEF MemTables
<1>4. MemTypes' /\ SameCounters'
  BY <1>0, <1>2 DEF MemTypes, SameCounters
<1>5. SubnetIds' = SubnetIds
  BY DEF SubnetIds
<1>6. SubnetTwin' /\ RangeTwin' /\ LeaseTwin' /\ StaticTwin' /\ LeasesEnd'
  BY <1>0, <1>2, <1>3, <1>5 DEF SubnetTwin, RangeTwin, LeaseTwin, StaticTwin, LeasesEnd
<1> QED
  BY <1>2, <1>3, <1>4, <1>6, OthersKept DEF Twins

LEMMA TwinsUnread ==
    ASSUME Twins, UNCHANGED sqlVars, UNCHANGED memVars, now' \in Nat
    PROVE  Twins'
  BY DEF sqlVars, memVars, Twins, MemTypes, SameCounters, SubnetTwin, PrefixTwin, TokenTwin,
     RangeTwin, LeaseTwin, StaticTwin, LeasesEnd, SubnetIds

LEMMA TwinStep == TwinInv /\ [Next]_vars => TwinInv'
<1> SUFFICES ASSUME TwinInv, [Next]_vars, ~ parted'
             PROVE  Twins'
  BY DEF TwinInv
<1>1. CASE UNCHANGED vars
  <2>1. Twins /\ UNCHANGED sqlVars /\ UNCHANGED memVars /\ now' = now
    BY <1>1 DEF TwinInv, vars, storeVars, sqlVars, memVars
  <2>2. now' \in Nat
    BY <2>1 DEF Twins, MemTypes
  <2> QED
    BY <2>1, <2>2, TwinsUnread
<1>2. CASE Tick
  <2>1. Twins /\ UNCHANGED sqlVars /\ UNCHANGED memVars /\ now' = now + 1
    BY <1>2 DEF TwinInv, Tick
  <2>2. now' \in Nat
    BY <2>1 DEF Twins, MemTypes
  <2> QED
    BY <2>1, <2>2, TwinsUnread
<1>3. CASE CallTokenLastUsed
  <2>1. Twins /\ UNCHANGED sqlVars /\ UNCHANGED memVars /\ now' = now
    BY <1>3 DEF TwinInv, CallTokenLastUsed, mem_update_token_last_used, Called
  <2>2. now' \in Nat
    BY <2>1 DEF Twins, MemTypes
  <2> QED
    BY <2>1, <2>2, TwinsUnread
<1>4. CASE Done
  BY <1>1, <1>4 DEF Done
<1> DEFINE Calls == \/ CallCreateSubnet \/ CallUpdateSubnet \/ CallDeleteSubnet
                    \/ CallCreateRange \/ CallDeleteRange
                    \/ CallCreateStatic \/ CallUpdateHostname \/ CallDeleteStatic
                    \/ CallCreateLease \/ CallExpireLease \/ CallDeleteExpired
                    \/ CallCreatePrefix \/ CallUpdatePrefix \/ CallDeletePrefix
                    \/ CallCreateToken \/ CallToggleToken \/ CallDeleteToken
<1>5. ASSUME Calls PROVE Twins
  <2>1. ~ parted
    BY <1>5 DEF CallCreateSubnet, CallUpdateSubnet, CallDeleteSubnet, CallCreateRange,
       CallDeleteRange, CallCreateStatic, CallUpdateHostname, CallDeleteStatic, CallCreateLease,
       CallExpireLease, CallDeleteExpired, CallCreatePrefix, CallUpdatePrefix, CallDeletePrefix,
       CallCreateToken, CallToggleToken, CallDeleteToken, Statement, Refused, Called
  <2> QED
    BY <2>1 DEF TwinInv
<1>6. ASSUME Calls PROVE Twins'
  BY <1>5, <1>6, TwinCreateSubnet, TwinUpdateSubnet, TwinDeleteSubnet, TwinRanges, TwinStatics,
     TwinLeases, TwinPrefixes, TwinTokens, Zenon
<1> QED
  BY <1>1, <1>2, <1>3, <1>4, <1>6 DEF Next

LEMMA TwinHolds == Spec => []TwinInv
  BY TwinInit, TwinStep, PTL DEF Spec

-----------------------------------------------------------------------------
(***************************************************************************)
(* For any calls on any number of rows, up to the first that SQLite        *)
(* refuses, the vectors of InMemoryDatabase hold the rows of SqliteDatabase and,    *)
(* apart from them, only the children of deleted subnets.                  *)
(***************************************************************************)
THEOREM MemoryHoldsTheRows == Spec => []OrphansApart
<1>1. TwinInv => OrphansApart
  <2> SUFFICES ASSUME Twins PROVE ~ parted => OrphansApart
    BY DEF TwinInv, OrphansApart
  <2>1. \A r : Alive(r) <=> r.subnet_id \in SubnetIds
    BY AliveById DEF Twins
  <2>2. /\ RowsOf(mem.subnets) = subnets
        /\ RowsOf(mem.prefixes) = prefixes
        /\ RowsOf(mem.tokens) = tokens
    BY DEF Twins, SubnetTwin, PrefixTwin, TokenTwin, Twin
  <2>3. {r \in RowsOf(mem.ranges) : Alive(r)} = ranges
    BY <2>1 DEF Twins, RangeTwin, Child
  <2>4. {l \in RowsOf(mem.leases) : Alive(l)} = leases
    BY <2>1 DEF Twins, LeaseTwin, Child
  <2> DEFINE D == {i \in DOMAIN mem.statics : mem.statics[i].subnet_id \in SubnetIds}
             A == {t \in RowsOf(mem.statics) : Alive(t)}
  <2>5. A = {mem.statics[i] : i \in D}
    BY <2>1 DEF RowsOf
  <2>6. /\ statics = {SqlRow(mem.statics[i]) : i \in D}
        /\ hosts = {NameRow(mem.statics[i]) : i \in D}
    BY DEF Twins, StaticTwin, Reserved
  <2> HIDE DEF A, D
  <2>7. {SqlRow(s) : s \in A} = statics /\ {NameRow(s) : s \in A} = hosts
    BY <2>5, <2>6
  <2>8. {[ip |-> s.ip, mac |-> s.mac, subnet_id |-> s.subnet_id] : s \in A} = statics
        /\ {[ip |-> s.ip, hostname |-> s.hostname] : s \in A} = hosts
    BY <2>7 DEF SqlRow, NameRow
  <2> QED
    BY <2>2, <2>3, <2>4, <2>8 DEF OrphansApart, A
<1> QED
  BY <1>1, TwinHolds, PTL

(* A look-up by id finds in memory what it finds in SQLite. *)
WithId(rows, id) == {r \in rows : r.id = id}

LEMMA TwinFind ==
    ASSUME NEW S, NEW vec, NEW next, NEW rows, Twin(vec, next, S, rows), NEW id
    PROVE  First(vec, WithId(RowsOf(vec), id)) = WithId(rows, id)
<1> DEFINE W == WithId(rows, id)
<1>1. vec \in Seq(S) /\ RowsOf(vec) = rows
  BY DEF Twin
<1>2. /\ First(vec, W) \subseteq RowsOf(vec) \cap W
      /\ First(vec, W) = {} => RowsOf(vec) \cap W = {}
  <2> HIDE DEF W
  <2> QED
    BY <1>1, FirstFound
<1>3. \A r, s \in RowsOf(vec) : r.id = s.id => r = s
  BY DEF Twin, Numbered, RowsOf
<1>4. \A r, s \in W : r \in RowsOf(vec) /\ r = s
  BY <1>1, <1>3 DEF WithId
<1> HIDE DEF W
<1>5. First(vec, W) = W
  BY <1>2, <1>4
<1> QED
  BY <1>1, <1>5 DEF W

(* A list has the rows the closure of filter() accepts. *)
LEMMA Listed ==
    ASSUME NEW S, NEW vec \in Seq(S), NEW kept, kept \subseteq RowsOf(vec)
    PROVE  RowsOf(Retain(vec, kept)) = kept
<1>1. RowsOf(Retain(vec, kept)) = RowsOf(vec) \cap kept
  BY RetainRows
<1> QED
  BY <1>1

LEMMA RowsFinite ==
    ASSUME NEW S, NEW vec \in Seq(S)
    PROVE  IsFiniteSet(RowsOf(vec))
<1>1. Len(vec) \in Nat /\ vec \in Surjection(1..Len(vec), RowsOf(vec))
  BY DEF Surjection, RowsOf
<1>2. IsFiniteSet(1..Len(vec))
  BY <1>1, FS_Interval
<1> QED
  BY <1>1, <1>2, FS_Surjection

(* ORDER BY lease_end DESC LIMIT 1 finds a row if there is one. *)
LEMMA LatestExists ==
    ASSUME NEW L, L # {}, \A l \in L : l.lease_end \in Nat,
           NEW n \in Nat, \A l \in L : l.lease_end <= n
    PROVE  \E l \in L : \A k \in L : k.lease_end <= l.lease_end
<1> DEFINE T == {n - l.lease_end : l \in L}
<1>1. T \subseteq Nat /\ T # {}
  OBVIOUS
<1>2. PICK x \in T : \A y \in T : x <= y
  <2> HIDE DEF T
  <2> QED
    BY <1>1, LeastNumber
<1>3. PICK l \in L : x = n - l.lease_end
  BY <1>2
<1>4. \A k \in L : n - l.lease_end <= n - k.lease_end
  BY <1>2, <1>3
<1> QED
  BY <1>3, <1>4

LEMMA ListsAgree ==
    ASSUME Twins
    PROVE  /\ \A id \in SubnetIds :
                 /\ RowsOf(mem_list_ranges(id)) = list_ranges(id)
                 /\ {s.ip : s \in RowsOf(mem_list_static_ips(id))}
                       = {s.ip : s \in {t \in statics : t.subnet_id = id}}
           /\ \A i \in Interface : RowsOf(mem_list_ia_prefixes(i)) = list_ia_prefixes(i)
           /\ RowsOf(mem_list_tokens) = {t \in list_api_tokens : t.enabled}
<1>1. ASSUME NEW id \in SubnetIds
      PROVE  RowsOf(mem_list_ranges(id)) = list_ranges(id)
  <2> DEFINE K == {r \in RowsOf(mem.ranges) : r.subnet_id = id}
  <2>1. mem.ranges \in Seq(RangeRow)
        /\ ranges = {r \in RowsOf(mem.ranges) : r.subnet_id \in SubnetIds}
    BY DEF Twins, RangeTwin, Child
  <2>2. K = list_ranges(id) /\ K \subseteq RowsOf(mem.ranges)
    BY <1>1, <2>1 DEF list_ranges
  <2>3. mem_list_ranges(id) = Retain(mem.ranges, K)
    BY DEF mem_list_ranges, Rows
  <2> HIDE DEF K
  <2> QED
    BY <2>1, <2>2, <2>3, Listed
<1>2. ASSUME NEW id \in SubnetIds
      PROVE  {s.ip : s \in RowsOf(mem_list_static_ips(id))}
                = {s.ip : s \in {t \in statics : t.subnet_id = id}}
  <2> DEFINE K == {s \in RowsOf(mem.statics) : s.subnet_id = id}
             D == {j \in DOMAIN mem.statics : mem.statics[j].subnet_id \in SubnetIds}
             T == {t \in statics : t.subnet_id = id}
  <2>1. mem.statics \in Seq(HostRow) /\ statics = {SqlRow(mem.statics[i]) : i \in D}
    BY DEF Twins, StaticTwin, Reserved
  <2>2. mem_list_static_ips(id) = Retain(mem.statics, K)
    BY DEF mem_list_static_ips, Rows
  <2>3. RowsOf(mem_list_static_ips(id)) = K
    <3>1. K \subseteq RowsOf(mem.statics)
      OBVIOUS
    <3> HIDE DEF K
    <3> QED
      BY <2>1, <2>2, <3>1, Listed
  <2>4. \A s \in K : SqlRow(s) \in T /\ SqlRow(s).ip = s.ip
    <3>1. ASSUME NEW s \in K
          PROVE  SqlRow(s) \in T /\ SqlRow(s).ip = s.ip
      <4>1. PICK i \in DOMAIN mem.statics : s = mem.statics[i]
        BY DEF RowsOf
      <4>2. i \in D /\ SqlRow(s) \in statics
        BY <1>2, <2>1, <4>1
      <4> QED
        BY <4>2 DEF SqlRow
    <3> QED
      BY <3>1
  <2>5. \A t \in T : \E s \in K : s.ip = t.ip
    <3>1. ASSUME NEW t \in T
          PROVE  \E s \in K : s.ip = t.ip
      <4>1. PICK i \in D : t = SqlRow(mem.statics[i])
        BY <2>1
      <4> QED
        BY <3>1, <4>1 DEF SqlRow, RowsOf
    <3> QED
      BY <3>1
  <2> HIDE DEF K, T
  <2>6. {s.ip : s \in K} = {s.ip : s \in T}
    BY <2>4, <2>5
  <2> QED
    BY <2>3, <2>6 DEF T
<1>3. ASSUME NEW i \in Interface
      PROVE  RowsOf(mem_list_ia_prefixes(i)) = list_ia_prefixes(i)
  <2> DEFINE K == {p \in RowsOf(mem.prefixes) : p.interface = i}
  <2>1. mem.prefixes \in Seq(PrefixRow) /\ prefixes = RowsOf(mem.prefixes)
    BY DEF Twins, PrefixTwin, Twin
  <2>2. K = list_ia_prefixes(i) /\ K \subseteq RowsOf(mem.prefixes)
    BY <2>1 DEF list_ia_prefixes
  <2>3. mem_list_ia_prefixes(i) = Retain(mem.prefixes, K)
    BY DEF mem_list_ia_prefixes, Rows
  <2> HIDE DEF K
  <2> QED
    BY <2>1, <2>2, <2>3, Listed
<1>4. RowsOf(mem_list_tokens) = {t \in list_api_tokens : t.enabled}
  <2> DEFINE K == {t \in RowsOf(mem.tokens) : t.enabled}
  <2>1. mem.tokens \in Seq(TokenRow) /\ tokens = RowsOf(mem.tokens)
    BY DEF Twins, TokenTwin, Twin
  <2>2. K = {t \in list_api_tokens : t.enabled} /\ K \subseteq RowsOf(mem.tokens)
    BY <2>1 DEF list_api_tokens
  <2>3. mem_list_tokens = Retain(mem.tokens, K)
    BY DEF mem_list_tokens, Rows
  <2> HIDE DEF K
  <2>4. RowsOf(mem_list_tokens) = K
    BY <2>1, <2>2, <2>3, Listed
  <2> QED
    BY <2>2, <2>4
<1> QED
  BY <1>1, <1>2, <1>3, <1>4

(* The lists over all subnets have the SQLite rows and orphans. *)
LEMMA WholeLists ==
    ASSUME Twins
    PROVE  /\ {r \in RowsOf(mem_list_all_ranges) : mem_get_subnet(r.subnet_id) # {}} = ranges
           /\ {l \in RowsOf(mem_list_active_leases(now)) : Alive(l)} = list_active_leases
<1>1. \A r : mem_get_subnet(r.subnet_id) # {} <=> r.subnet_id \in SubnetIds
  <2>1. Twin(mem.subnets, next_id.subnets, SubnetRow, subnets)
    BY DEF Twins, SubnetTwin
  <2>2. \A id : mem_get_subnet(id) = WithId(subnets, id)
    <3>1. \A id : First(mem.subnets, WithId(RowsOf(mem.subnets), id)) = WithId(subnets, id)
      BY <2>1, TwinFind
    <3> QED
      BY <3>1 DEF mem_get_subnet, Rows, WithId
  <2> QED
    BY <2>2 DEF WithId, SubnetIds
<1>2. ranges = {r \in RowsOf(mem.ranges) : r.subnet_id \in SubnetIds}
  BY DEF Twins, RangeTwin, Child
<1>3. /\ mem.leases \in Seq(LeaseRow)
      /\ leases = {l \in RowsOf(mem.leases) : l.subnet_id \in SubnetIds}
  BY DEF Twins, LeaseTwin, Child
<1> DEFINE K == {l \in RowsOf(mem.leases) : l.lease_end > now}
<1>4. mem_list_active_leases(now) = Retain(mem.leases, K) /\ K \subseteq RowsOf(mem.leases)
  BY DEF mem_list_active_leases, Rows
<1>5. RowsOf(mem_list_active_leases(now)) = K
  <2> HIDE DEF K
  <2> QED
    BY <1>3, <1>4, Listed
<1>6. \A l : Alive(l) <=> l.subnet_id \in SubnetIds
  BY AliveById DEF Twins
<1>7. {l \in K : Alive(l)} = list_active_leases
  BY <1>3, <1>6 DEF list_active_leases
<1> QED
  BY <1>1, <1>2, <1>5, <1>7 DEF mem_list_all_ranges

LEMMA StaticLookup ==
    ASSUME Twins, NEW mac,
           \A s \in RowsOf(mem.statics) : Lower[s.mac] = mac => Alive(s)
    PROVE  LET st == mem_get_static_ip_by_mac(mac, Lower)
           IN  /\ {s.ip : s \in st} \subseteq {s.ip : s \in get_static_ip_by_mac(mac)}
               /\ st = {} <=> get_static_ip_by_mac(mac) = {}
<1> DEFINE W == {s \in RowsOf(mem.statics) : Lower[s.mac] = mac}
           D == {j \in DOMAIN mem.statics : mem.statics[j].subnet_id \in SubnetIds}
           G == get_static_ip_by_mac(mac)
<1>1. mem.statics \in Seq(HostRow) /\ statics = {SqlRow(mem.statics[i]) : i \in D}
  BY DEF Twins, StaticTwin, Reserved
<1>2. mem_get_static_ip_by_mac(mac, Lower) = First(mem.statics, W)
  BY DEF mem_get_static_ip_by_mac, Rows
<1>3. ASSUME NEW s \in W
      PROVE  SqlRow(s) \in G /\ SqlRow(s).ip = s.ip
  <2>1. PICK i \in DOMAIN mem.statics : s = mem.statics[i]
    BY DEF RowsOf
  <2>2. s.subnet_id \in SubnetIds
    BY AliveById DEF Twins
  <2>3. SqlRow(s) \in statics
    BY <1>1, <2>1, <2>2
  <2>4. SqlRow(s).mac = s.mac /\ SqlRow(s).ip = s.ip
    BY DEF SqlRow
  <2> QED
    BY <2>3, <2>4 DEF get_static_ip_by_mac
<1>4. ASSUME NEW t \in G
      PROVE  W # {}
  <2>1. t \in statics /\ Lower[t.mac] = mac
    BY DEF get_static_ip_by_mac
  <2>2. PICK i \in D : t = SqlRow(mem.statics[i])
    BY <1>1, <2>1
  <2>3. mem.statics[i].mac = t.mac /\ mem.statics[i] \in RowsOf(mem.statics)
    BY <2>2 DEF SqlRow, RowsOf
  <2> QED
    BY <2>1, <2>3
<1>5. W \subseteq RowsOf(mem.statics)
  OBVIOUS
<1> HIDE DEF W, G
<1>6. First(mem.statics, W) \subseteq W /\ (First(mem.statics, W) = {} => W = {})
  BY <1>1, <1>5, FirstFound
<1>7. {s.ip : s \in First(mem.statics, W)} \subseteq {s.ip : s \in G}
  BY <1>3, <1>6
<1>8. First(mem.statics, W) = {} <=> G = {}
  BY <1>3, <1>4, <1>6
<1> QED
  BY <1>2, <1>7, <1>8 DEF G

LEMMA LeaseLookup ==
    ASSUME Twins, NEW mac,
           \A l \in {k \in RowsOf(mem_list_active_leases(now)) : k.mac = mac} : Alive(l)
    PROVE  LET one == mem_get_active_lease(mac, now)
               mine == {l \in RowsOf(mem_list_active_leases(now)) : l.mac = mac}
           IN  /\ one = {} <=> get_active_lease(mac) = {}
               /\ Cardinality(mine) = 1 => one = get_active_lease(mac)
<1> DEFINE M == {l \in RowsOf(mem.leases) : l.mac = mac /\ l.lease_end > now}
           K == {l \in RowsOf(mem.leases) : l.lease_end > now}
           mine == {l \in RowsOf(mem_list_active_leases(now)) : l.mac = mac}
           G == get_active_lease(mac)
<1>1. /\ mem.leases \in Seq(LeaseRow)
      /\ leases = {r \in RowsOf(mem.leases) : r.subnet_id \in SubnetIds}
  BY DEF Twins, LeaseTwin, Child
<1>2. RowsOf(mem_list_active_leases(now)) = K
  <2>1. mem_list_active_leases(now) = Retain(mem.leases, K)
    BY DEF mem_list_active_leases, Rows
  <2>2. K \subseteq RowsOf(mem.leases)
    OBVIOUS
  <2> HIDE DEF K
  <2> QED
    BY <1>1, <2>1, <2>2, Listed
<1>3. mine = M
  BY <1>2
<1>4. mem_get_active_lease(mac, now) = First(mem.leases, M)
  BY DEF mem_get_active_lease, Rows
<1>5. \A l \in M : Alive(l)
  BY <1>3
<1>6. M = {l \in list_active_leases : l.mac = mac}
  <2>1. \A l \in M : l.subnet_id \in SubnetIds
    BY <1>5, AliveById DEF Twins
  <2> QED
    BY <1>1, <2>1 DEF list_active_leases
<1>7. M \subseteq RowsOf(mem.leases) /\ RowsOf(mem.leases) \subseteq LeaseRow
  BY <1>1 DEF RowsOf
<1>8. \A l \in M : l.lease_end \in Nat
  BY <1>7, RowTypes
<1>9. PICK n \in Nat : \A l \in RowsOf(mem.leases) : l.lease_end <= n
  BY DEF Twins, LeasesEnd
<1>10. G = {l \in M : \A k \in M : k.lease_end <= l.lease_end}
  BY <1>6 DEF get_active_lease
<1> HIDE DEF M, G, mine
<1>11. G = {} <=> M = {}
  <2>1. ASSUME M # {} PROVE G # {}
    BY <1>7, <1>8, <1>9, <1>10, <2>1, LatestExists
  <2> QED
    BY <1>10, <2>1
<1>12. First(mem.leases, M) \subseteq M /\ (First(mem.leases, M) = {} => M = {})
  BY <1>1, <1>7, FirstFound
<1>13. ASSUME Cardinality(mine) = 1
       PROVE  First(mem.leases, M) = G
  <2>1. IsFiniteSet(M)
    BY <1>1, <1>7, RowsFinite, FS_Subset
  <2>2. PICK x : M = {x}
    BY <1>3, <1>13, <2>1, FS_Singleton
  <2> QED
    BY <1>10, <1>11, <1>12, <2>2
<1> QED
  BY <1>4, <1>11, <1>12, <1>13 DEF G, mine

(***************************************************************************)
(* For any calls on any number of rows, up to the first one that SQLite    *)
(* refuses: what the DHCP server looks up in InMemoryDatabase is what it   *)
(* would find in SqliteDatabase, but for the ranges and leases of deleted  *)
(* subnets in the lists over all subnets.  The look-ups by MAC are         *)
(* compared for clients that have no such row, and one lease in force.     *)
(***************************************************************************)
THEOREM MemoryAnswersAlike == Spec => []LookupsAgree
<1>1. TwinInv => LookupsAgree
  <2> SUFFICES ASSUME Twins PROVE ~ parted => LookupsAgree
    BY DEF TwinInv, LookupsAgree
  <2>1. RowsOf(mem_list_subnets) = subnets
    BY DEF Twins, SubnetTwin, Twin, mem_list_subnets
  <2>2. ASSUME NEW id
        PROVE  mem_get_subnet(id) = get_subnet(id) /\ mem_get_ia_prefix(id) = get_ia_prefix(id)
    <3>1. /\ Twin(mem.subnets, next_id.subnets, SubnetRow, subnets)
          /\ Twin(mem.prefixes, next_id.prefixes, PrefixRow, prefixes)
      BY DEF Twins, SubnetTwin, PrefixTwin
    <3>2. /\ First(mem.subnets, WithId(RowsOf(mem.subnets), id)) = WithId(subnets, id)
          /\ First(mem.prefixes, WithId(RowsOf(mem.prefixes), id)) = WithId(prefixes, id)
      BY <3>1, TwinFind
    <3> QED
      BY <3>2 DEF mem_get_subnet, get_subnet, mem_get_ia_prefix, get_ia_prefix, Rows, WithId
  <2> QED
    BY <2>1, <2>2, ListsAgree, WholeLists, StaticLookup, LeaseLookup, Zenon DEF LookupsAgree
<1> QED
  BY <1>1, TwinHolds, PTL

=============================================================================
