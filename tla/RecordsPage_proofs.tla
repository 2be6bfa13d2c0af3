-------------------------- MODULE RecordsPage_proofs --------------------------
(***************************************************************************)
(* The records page for any number of records, any filters and any size of  *)
(* a page: writes go where the user saw them go, no page is shown that is   *)
(* gone, and all pages are about the same records.                          *)
(***************************************************************************)
EXTENDS RecordsPage, SharedFacts

---------------------------------------------------------------------------
(* ORDER BY.  An order on S is given by what comes before each element.     *)
Orders(before, S) ==
  /\ before \in [S -> SUBSET S]
  /\ \A r \in S : r \notin before[r]
  /\ \A r, s \in S : r = s \/ r \in before[s] \/ s \in before[r]
  /\ \A r, s \in S : r \in before[s] => before[r] \subseteq before[s]

LEMMA RankGrows ==
  ASSUME NEW S, IsFiniteSet(S), NEW before, Orders(before, S),
         NEW r \in S, NEW s \in S, r \in before[s]
  PROVE  /\ Cardinality(before[r]) \in Nat /\ Cardinality(before[s]) \in Nat
         /\ Cardinality(before[r]) < Cardinality(before[s])
<1>1. /\ before[r] \in SUBSET before[s] /\ before[s] \in SUBSET S /\ before[r] \in SUBSET S
      /\ before[r] # before[s]
  BY DEF Orders
<1>2. IsFiniteSet(before[s]) /\ IsFiniteSet(before[r])
  BY <1>1, FS_Subset
<1>3. Cardinality(before[r]) \in Nat /\ Cardinality(before[s]) \in Nat
  BY <1>2, FS_CardinalityType
<1>4. Cardinality(before[r]) <= Cardinality(before[s])
      /\ Cardinality(before[s]) # Cardinality(before[r])
  BY <1>1, <1>2, FS_Subset
<1> QED BY <1>3, <1>4

LEMMA RankIsNat ==
  ASSUME NEW S, IsFiniteSet(S), NEW before, Orders(before, S), NEW r \in S
  PROVE  Cardinality(before[r]) \in Nat
<1>1. before[r] \in SUBSET S
  BY DEF Orders
<1> QED BY <1>1, FS_Subset, FS_CardinalityType

(* Every rank is taken.                                                     *)
LEMMA RankExists ==
  ASSUME NEW S, IsFiniteSet(S), NEW before, Orders(before, S)
  PROVE  /\ Cardinality(S) \in Nat
         /\ \A n \in 1..Cardinality(S) : \E r \in S : Cardinality(before[r]) = n - 1
         /\ \A r \in S : Cardinality(before[r]) + 1 \in 1..Cardinality(S)
<1> DEFINE N == Cardinality(S)
           T == 0..N - 1
           rank == [r \in S |-> Cardinality(before[r])]
<1>1. N \in Nat
  BY FS_CardinalityType
<1>2. ASSUME NEW r \in S PROVE Cardinality(before[r]) \in Nat /\ Cardinality(before[r]) < N
  <2>1. before[r] \in SUBSET S /\ before[r] # S
    BY DEF Orders
  <2>2. IsFiniteSet(before[r]) /\ Cardinality(before[r]) <= N /\ N # Cardinality(before[r])
    BY <2>1, FS_Subset
  <2>3. Cardinality(before[r]) \in Nat
    BY <2>2, FS_CardinalityType
  <2> QED BY <1>1, <2>2, <2>3
<1>3. rank \in [S -> T]
  BY <1>1, <1>2
<1>4. ASSUME NEW r \in S, NEW s \in S, rank[r] = rank[s] PROVE r = s
  <2>1. Cardinality(before[r]) = Cardinality(before[s])
    BY <1>4
  <2>2. CASE r \in before[s]
    BY <2>1, <2>2, RankGrows
  <2>3. CASE s \in before[r]
    BY <2>1, <2>3, RankGrows
  <2> QED BY <2>2, <2>3 DEF Orders
<1> HIDE DEF rank
<1>5. rank \in Injection(S, T)
  BY <1>3, <1>4 DEF Injection, IsInjective
<1>6. IsFiniteSet(T) /\ Cardinality(T) = N
  BY <1>1, FS_Interval
<1> HIDE DEF T
<1>7. rank \in Surjection(S, T)
  BY <1>5, <1>6, FS_Injection
<1>8. \A t \in T : \E r \in S : rank[r] = t
  BY <1>7 DEF Surjection
<1> QED BY <1>1, <1>2, <1>8 DEF rank, T

(* So a sequence by rank is sorted and has all of S once.                   *)
LEMMA ByRank ==
  ASSUME NEW S, IsFiniteSet(S), NEW before, Orders(before, S),
         NEW seq, DOMAIN seq = 1..Cardinality(S),
         \A n \in 1..Cardinality(S) : seq[n] \in S /\ Cardinality(before[seq[n]]) = n - 1
  PROVE  /\ \A r \in S : \E n \in 1..Cardinality(S) : seq[n] = r
         /\ \A m, n \in 1..Cardinality(S) : m < n => seq[m] \in before[seq[n]]
<1>1. Cardinality(S) \in Nat
  BY RankExists
<1>2. ASSUME NEW r \in S, NEW s \in S, r # s, s \notin before[r]
      PROVE  Cardinality(before[r]) < Cardinality(before[s])
             /\ Cardinality(before[r]) \in Nat /\ Cardinality(before[s]) \in Nat
  BY <1>2, RankGrows DEF Orders
<1>3. ASSUME NEW r \in S PROVE \E n \in 1..Cardinality(S) : seq[n] = r
  <2> DEFINE n == Cardinality(before[r]) + 1
  <2>1. n \in 1..Cardinality(S)
    BY RankExists
  <2>2. Cardinality(before[seq[n]]) = Cardinality(before[r]) /\ seq[n] \in S
    <3>1. n \in Nat /\ Cardinality(before[r]) \in Int
      BY <2>1, <1>1, RankIsNat
    <3>2. Cardinality(before[seq[n]]) = n - 1 /\ seq[n] \in S
      BY <2>1
    <3> QED BY <3>1, <3>2
  <2>3. CASE seq[n] # r
    BY <2>2, <2>3, <1>2, RankGrows DEF Orders
  <2> QED BY <2>1, <2>3
<1>4. ASSUME NEW m \in 1..Cardinality(S), NEW n \in 1..Cardinality(S), m < n
      PROVE  seq[m] \in before[seq[n]]
  <2>1. /\ seq[m] \in S /\ seq[n] \in S
        /\ Cardinality(before[seq[m]]) = m - 1 /\ Cardinality(before[seq[n]]) = n - 1
    OBVIOUS
  <2>2. CASE seq[m] = seq[n]
    BY <1>1, <1>4, <2>1, <2>2
  <2>3. CASE seq[n] \in before[seq[m]]
    <3>1. Cardinality(before[seq[n]]) < Cardinality(before[seq[m]])
      BY <2>1, <2>3, RankGrows
    <3> QED BY <1>1, <1>4, <2>1, <3>1
  <2> QED BY <2>1, <2>2, <2>3 DEF Orders
<1> QED BY <1>3, <1>4

---------------------------------------------------------------------------
(* What the listing and the export are.                                     *)

(* Rows of a table, each with a number of its own.                          *)
Rows(S) ==
  /\ IsFiniteSet(S)
  /\ \A r \in S : IsContent(r)
  /\ \A r, s \in S : r.id = s.id => r = s

SortFields == {"timestamp", "value", "title", "category", "id"}

(* A sequence that has every row of S once, in an order.                     *)
Lists(seq, S) ==
  /\ seq \in Seq(S) /\ Len(seq) = Cardinality(S) /\ Cardinality(S) \in Nat
  /\ \A n \in 1..Cardinality(S) : seq[n] \in S
  /\ \A r \in S : \E n \in 1..Cardinality(S) : seq[n] = r

LEMMA FunctionIsSeq ==
  ASSUME NEW S, NEW n \in Nat, NEW f \in [1..n -> S]
  PROVE  f \in Seq(S) /\ Len(f) = n
<1>1. f \in Seq(S) /\ DOMAIN f = 1..n
  OBVIOUS
<1>2. Len(f) \in Nat /\ DOMAIN f = 1..Len(f)
  BY <1>1, LenProperties
<1>3. \A m \in Nat : 1..n = 1..m => m = n
  OBVIOUS
<1> QED BY <1>1, <1>2, <1>3

LEMMA ListedIs ==
  ASSUME NEW S, Rows(S), NEW sort_by \in SortFields, NEW order
  PROVE  /\ Lists(Listed(S, sort_by, order), S)
         /\ \A m, n \in 1..Cardinality(S) : m < n =>
              LET r == Listed(S, sort_by, order)[m]
                  s == Listed(S, sort_by, order)[n]
              IN  /\ r # s
                  /\ IF order = "asc" THEN r[sort_by] <= s[sort_by] ELSE r[sort_by] >= s[sort_by]
<1> DEFINE Before(r, s) ==
             \/ IF order = "asc" THEN r[sort_by] < s[sort_by] ELSE r[sort_by] > s[sort_by]
             \/ r[sort_by] = s[sort_by] /\ r.id > s.id
           before == [s \in S |-> {r \in S : Before(r, s)}]
           seq == Listed(S, sort_by, order)
<1>1. \A r \in S : r[sort_by] \in Int /\ r.id \in Int
  BY DEF Rows, IsContent, SortFields
<1>2. Orders(before, S)
  <2>1. \A r, s \in S : Before(r, s) => r # s
    BY <1>1
  <2>2. \A r, s \in S : r = s \/ Before(r, s) \/ Before(s, r)
    BY <1>1 DEF Rows
  <2>3. \A q, r, s \in S : Before(q, r) /\ Before(r, s) => Before(q, s)
    BY <1>1
  <2> HIDE DEF Before
  <2> QED BY <2>1, <2>2, <2>3 DEF Orders
<1>3. \A n \in 1..Cardinality(S) : \E r \in S : Cardinality({s \in S : Before(s, r)}) = n - 1
  <2> HIDE DEF Before, before
  <2>1. \A n \in 1..Cardinality(S) : \E r \in S : Cardinality(before[r]) = n - 1
    BY <1>2, RankExists DEF Rows
  <2> USE DEF before
  <2> HIDE DEF Before
  <2> QED BY <2>1
<1>4. seq = [n \in 1..Cardinality(S) |->
               CHOOSE r \in S : Cardinality({s \in S : Before(s, r)}) = n - 1]
  BY DEF Listed, Ranked
<1>5. Cardinality(S) \in Nat
  BY FS_CardinalityType DEF Rows
<1> HIDE DEF Before, seq
<1>6. \A n \in 1..Cardinality(S) : seq[n] \in S /\ Cardinality(before[seq[n]]) = n - 1
  <2> TAKE n \in 1..Cardinality(S)
  <2>1. seq[n] = CHOOSE r \in S : Cardinality({s \in S : Before(s, r)}) = n - 1
    BY <1>4
  <2>2. seq[n] \in S /\ Cardinality({s \in S : Before(s, seq[n])}) = n - 1
    BY <1>3, <2>1
  <2> QED BY <2>2
<1> HIDE DEF before
<1>7. DOMAIN seq = 1..Cardinality(S)
  BY <1>4
<1>8. /\ \A r \in S : \E n \in 1..Cardinality(S) : seq[n] = r
      /\ \A m, n \in 1..Cardinality(S) : m < n => seq[m] \in before[seq[n]]
  BY <1>2, <1>6, <1>7, ByRank DEF Rows
<1>9. Lists(seq, S)
  <2>1. seq \in [1..Cardinality(S) -> S]
    BY <1>4, <1>6
  <2>2. seq \in Seq(S) /\ Len(seq) = Cardinality(S)
    BY <1>5, <2>1, FunctionIsSeq
  <2> QED BY <1>5, <1>6, <1>8, <2>2 DEF Lists
<1>10. ASSUME NEW m \in 1..Cardinality(S), NEW n \in 1..Cardinality(S), m < n
       PROVE  /\ seq[m] # seq[n]
              /\ IF order = "asc" THEN seq[m][sort_by] <= seq[n][sort_by]
                                  ELSE seq[m][sort_by] >= seq[n][sort_by]
  <2>1. Before(seq[m], seq[n]) /\ seq[m] \in S /\ seq[n] \in S
    BY <1>6, <1>8, <1>10 DEF before
  <2> QED BY <1>1, <2>1 DEF Before
<1> QED BY <1>9, <1>10 DEF seq

(* OFFSET and LIMIT.  A page that is not beyond the last one has rows.       *)
LEMMA Division ==
  ASSUME NEW total \in Nat, NEW size \in Nat \ {0}, NEW p \in Nat \ {0}
  PROVE  /\ Ceiling(total, size) \in Nat
         /\ p <= Ceiling(total, size) <=> (p - 1) * size < total
         /\ (p - 1) * size \in Nat /\ p * size = (p - 1) * size + size
<1> DEFINE a == total + size - 1
           q == a \div size
           r == a % size
<1>1. a \in Nat /\ q \in Int /\ r \in 0..size - 1 /\ a = q * size + r
  OBVIOUS
<1>2. q >= 0
  OBVIOUS
<1> HIDE DEF q, r
<1>3. (p - 1) * size \in Nat /\ p * size = (p - 1) * size + size
  OBVIOUS
<1>4. CASE p <= q
  <2>1. p * size <= q * size
    BY <1>1, <1>4
  <2>2. p * size \in Int /\ q * size \in Int
    BY <1>1
  <2> QED BY <1>1, <1>2, <1>3, <1>4, <2>1, <2>2 DEF Ceiling, q
<1>5. CASE p > q
  <2>1. (p - 1) * size >= q * size
    BY <1>1, <1>5
  <2>2. (p - 1) * size \in Int /\ q * size \in Int
    BY <1>1
  <2> QED BY <1>1, <1>2, <1>3, <1>5, <2>1, <2>2 DEF Ceiling, q
<1> QED BY <1>1, <1>4, <1>5

LEMMA WindowIs ==
  ASSUME NEW S, NEW seq \in Seq(S), NEW size \in Nat \ {0}, NEW p \in Nat \ {0}
  PROVE  LET k == IF (p - 1) * size >= Len(seq) THEN 0
                  ELSE Lesser(size, Len(seq) - (p - 1) * size)
         IN  /\ k \in 0..size /\ (k = 0 <=> (p - 1) * size >= Len(seq))
             /\ Window(seq, p, size) \in Seq(S) /\ Len(Window(seq, p, size)) = k
             /\ \A n \in 1..k : /\ Window(seq, p, size)[n] = seq[(p - 1) * size + n]
                                /\ (p - 1) * size + n \in 1..Len(seq)
<1> DEFINE from == (p - 1) * size
           k == IF from >= Len(seq) THEN 0 ELSE Lesser(size, Len(seq) - from)
           next == p * size
           to == Lesser(next, Len(seq))
<1>1. Len(seq) \in Nat /\ from \in Nat /\ next = from + size
      /\ \A i \in 1..Len(seq) : seq[i] \in S
  BY LenProperties, ElementOfSeq, Division
<1> HIDE DEF from, next
<1>2. to \in Int /\ to <= Len(seq) /\ k \in 0..size /\ (k = 0 <=> from >= Len(seq))
  BY <1>1 DEF Lesser
<1>3. k = IF from + 1 <= to THEN to - (from + 1) + 1 ELSE 0
  BY <1>1 DEF Lesser
<1> HIDE DEF to
<1>4. \A i \in from + 1..to : seq[i] \in S
  BY <1>1, <1>2
<1>5. from + 1 \in Int
  BY <1>1
<1>6. /\ SubSeq(seq, from + 1, to) \in Seq(S)
      /\ Len(SubSeq(seq, from + 1, to)) = k
      /\ \A i \in 1..to - (from + 1) + 1 : SubSeq(seq, from + 1, to)[i] = seq[from + 1 + i - 1]
  BY <1>2, <1>3, <1>4, <1>5, SubSeqProperties
<1>7. ASSUME NEW n \in 1..k
      PROVE  SubSeq(seq, from + 1, to)[n] = seq[from + n] /\ from + n \in 1..Len(seq)
  <2>1. n \in 1..to - (from + 1) + 1 /\ from + 1 + n - 1 = from + n /\ from + n \in 1..Len(seq)
    BY <1>1, <1>2, <1>3
  <2> QED BY <1>6, <2>1
<1>8. Window(seq, p, size) = SubSeq(seq, from + 1, to)
  BY DEF Window, from, next, to
<1> HIDE DEF k
<1>9. k = IF (p - 1) * size >= Len(seq) THEN 0
          ELSE Lesser(size, Len(seq) - (p - 1) * size)
  BY DEF k, from
<1> QED BY <1>2, <1>6, <1>7, <1>8, <1>9 DEF from

(* Modifiable() keeps some of the rows, in their order.                     *)
LEMMA ModifiableIs ==
  ASSUME NEW records, NEW k \in Nat, DOMAIN records = 1..k, NEW who
  PROVE  \E m \in Nat :
           /\ DOMAIN Modifiable(records, who) = 1..m
           /\ \A n \in 1..m : \E i \in 1..k : Modifiable(records, who)[n] = records[i]
           /\ k = 0 => m = 0
<1> DEFINE S == {n \in DOMAIN records : CanModify(records[n], who)}
           before == [n \in S |-> {i \in S : i < n}]
           kept == Ranked(S, <)
<1>1. S \in SUBSET (1..k) /\ IsFiniteSet(1..k)
  BY FS_Interval
<1>2. IsFiniteSet(S)
  BY <1>1, FS_Subset
<1> HIDE DEF S
<1>3. Orders(before, S)
  <2>1. \A n \in S : n \in Nat
    BY <1>1
  <2>2. before \in [S -> SUBSET S]
    OBVIOUS
  <2>3. \A n, i \in S : i \in before[n] <=> i < n
    OBVIOUS
  <2> HIDE DEF before
  <2>4. ASSUME NEW n \in S, NEW m \in S, m \in before[n] PROVE before[m] \subseteq before[n]
    BY <2>1, <2>2, <2>3, <2>4
  <2> QED BY <2>1, <2>2, <2>3, <2>4 DEF Orders
<1>4. /\ Cardinality(S) \in Nat
      /\ \A n \in 1..Cardinality(S) : \E i \in S : Cardinality(before[i]) = n - 1
  <2> HIDE DEF before
  <2> QED BY <1>2, <1>3, RankExists
<1>5. kept = [n \in 1..Cardinality(S) |->
                CHOOSE i \in S : Cardinality({j \in S : j < i}) = n - 1]
  BY DEF Ranked
<1> HIDE DEF kept
<1>6. ASSUME NEW n \in 1..Cardinality(S) PROVE kept[n] \in S
  <2>1. \E i \in S : Cardinality({j \in S : j < i}) = n - 1
    BY <1>4
  <2>2. kept[n] = CHOOSE i \in S : Cardinality({j \in S : j < i}) = n - 1
    BY <1>5
  <2> QED BY <2>1, <2>2
<1>7. Modifiable(records, who) = [n \in DOMAIN kept |-> records[kept[n]]]
  BY DEF Modifiable, kept, S
<1>8. DOMAIN kept = 1..Cardinality(S)
  BY <1>5
<1>9. k = 0 => Cardinality(S) = 0
  <2>1. k = 0 => S = {}
    BY <1>1
  <2> QED BY <2>1, FS_EmptySet
<1>10. \A n \in 1..Cardinality(S) : Modifiable(records, who)[n] = records[kept[n]]
  BY <1>7, <1>8
<1>11. DOMAIN Modifiable(records, who) = 1..Cardinality(S)
  BY <1>7, <1>8
<1> QED BY <1>1, <1>4, <1>6, <1>9, <1>10, <1>11

LEMMA EditableIs ==
  ASSUME NEW records, NEW k \in Nat, DOMAIN records = 1..k
  PROVE  /\ \E m \in Nat : DOMAIN Editable(records) = 1..m
         /\ \A n \in DOMAIN Editable(records) : \E i \in 1..k : Editable(records)[n] = records[i]
         /\ Editable(records) # <<>> => 1 \in DOMAIN Editable(records)
         /\ k = 0 => Editable(records) = <<>>
<1>1. CASE MayWrite
  <2>1. Editable(records) = Modifiable(records, user)
    BY <1>1 DEF Editable
  <2>2. PICK m \in Nat :
           /\ DOMAIN Modifiable(records, user) = 1..m
           /\ \A n \in 1..m : \E i \in 1..k : Modifiable(records, user)[n] = records[i]
           /\ k = 0 => m = 0
    BY ModifiableIs
  <2>3. m = 0 => Modifiable(records, user) = <<>>
    <3>1. \E kept : Modifiable(records, user) = [n \in DOMAIN kept |-> records[kept[n]]]
      BY DEF Modifiable
    <3> QED BY <2>2, <3>1
  <2>4. m # 0 => 1 \in 1..m
    OBVIOUS
  <2> QED BY <2>1, <2>2, <2>3, <2>4
<1>2. CASE ~MayWrite
  <2>1. Editable(records) = <<>> /\ DOMAIN <<>> = 1..0 /\ 1..0 = {}
    BY <1>2 DEF Editable
  <2> QED BY <2>1
<1> QED BY <1>1, <1>2

---------------------------------------------------------------------------
(* The answer of GET /records to the page.                                   *)

LEMMA TableRows ==
  ASSUME TypeOK
  PROVE  Rows(table)
<1> DEFINE id == [r \in table |-> r.id]
<1>1. born \in Nat /\ \A r \in table : IsRecord(r) /\ \A s \in table : s.id = r.id => s = r
  BY RecordsPageAssumption DEF TypeOK
<1>2. id \in Injection(table, 1..born)
  BY <1>1 DEF IsRecord, Injection, IsInjective
<1>3. IsFiniteSet(table)
  BY <1>1, <1>2, FS_Interval, FS_Injection
<1> QED BY <1>1, <1>3 DEF Rows, IsRecord

LEMMA SomeRows ==
  ASSUME NEW S, Rows(S), NEW f
  PROVE  Rows(Filtered(S, f)) /\ Filtered(S, f) \in SUBSET S
<1>1. Filtered(S, f) \in SUBSET S
  BY DEF Filtered
<1>2. IsFiniteSet(Filtered(S, f))
  BY <1>1, FS_Subset DEF Rows
<1> QED BY <1>1, <1>2 DEF Rows

LEMMA AnswerIs ==
  ASSUME TypeOK, NEW w \in Filters, NEW p \in Nat \ {0}
  PROVE  LET answer == ListRecords(table, BuildQuery(p, w.page_size, RequestFilters(w),
                                                     w.sort_by, w.order))
             found == Filtered(table, RequestFilters(w))
         IN  /\ answer.ok
             /\ answer.items = Window(Listed(found, w.sort_by, w.order), p, w.page_size)
             /\ answer.total = Cardinality(found)
             /\ answer.pages = Ceiling(Cardinality(found), w.page_size)
             /\ Rows(found) /\ found \in SUBSET table
             /\ Lists(Listed(found, w.sort_by, w.order), found)
             /\ w.page_size \in Nat \ {0} /\ w.page_size <= MaxPageSize
<1> DEFINE size == w.page_size
           query == BuildQuery(p, size, RequestFilters(w), w.sort_by, w.order)
           found == Filtered(table, RequestFilters(w))
<1>1. MaxPageSize \in Nat /\ size \in 1..MaxPageSize /\ w.sort_by \in SortFields
  BY QueriesAssumption, RecordsPageAssumption DEF SortFields
<1>2. \A x, d : Given({x}, d) = x
  BY DEF Given
<1>3. /\ Param(query, "page") = {p} /\ Param(query, "page_size") = {size}
      /\ Param(query, "sort_by") = {w.sort_by} /\ Param(query, "order") = {w.order}
      /\ Param(query, "category") = RequestFilters(w).category
      /\ Param(query, "source") = RequestFilters(w).source
      /\ Param(query, "start") = RequestFilters(w).start
      /\ Param(query, "end") = RequestFilters(w).end
  BY DEF Param, BuildQuery
<1>4. RecordFilters(query) = RequestFilters(w)
  <2>1. \E c, s, from, to :
          RequestFilters(w) = [category |-> c, source |-> s, start |-> from, end |-> to]
    BY DEF RequestFilters
  <2> QED BY <1>3, <2>1 DEF RecordFilters
<1> HIDE DEF query
<1>5. Rows(found) /\ found \in SUBSET table
  BY TableRows, SomeRows
<1> HIDE DEF found
<1>6. Lists(Listed(found, w.sort_by, w.order), found)
  BY <1>1, <1>5, ListedIs
<1>7. ListRecords(table, query) =
        [ok |-> TRUE, items |-> Window(Listed(found, w.sort_by, w.order), p, size),
         total |-> Cardinality(found), page |-> p, page_size |-> size,
         pages |-> Ceiling(Cardinality(found), size)]
  <2>1. /\ Given(Param(query, "page"), 1) = p
        /\ Given(Param(query, "page_size"), 20) = size
        /\ Given(Param(query, "sort_by"), "timestamp") = w.sort_by
        /\ Given(Param(query, "order"), "desc") = w.order
    BY <1>2, <1>3
  <2>2. Filtered(table, RecordFilters(query)) = found
    BY <1>4 DEF found
  <2>3. ~(p < 1) /\ size \in 1..MaxPageSize
    BY <1>1
  <2> HIDE DEF size
  <2> QED BY <2>1, <2>2, <2>3, Zenon DEF ListRecords
<1> QED BY <1>1, <1>5, <1>6, <1>7 DEF query, found

---------------------------------------------------------------------------
(* The invariant.                                                           *)

(* The list on the screen is a page of the table.                           *)
Screen ==
  \E k \in 0..MaxPageSize :
    /\ DOMAIN screen.items = 1..k
    /\ screen.total > 0 => k # 0

(* A run that got as far as its request belongs to the filters and the page *)
(* on the screen; so does a click, and "Previous" only comes from a page     *)
(* that has one.                                                            *)
Paging ==
  /\ phase \in {"shown", "fetch", "act"} \/ click.on # "nothing" => signature = {widgets}
  /\ phase \in {"shown", "act"} => screen.page \in {1, page}
  /\ click.on = "previous" => page > 1

(* What is typed belongs to the record in the form, also in the run that     *)
(* handles the form's button.                                                *)
Form ==
  /\ \A input, other \in typed : input = other /\ input.value \in Typed
  /\ phase \in {"shown", "act"} /\ Editable(screen.items) # <<>> =>
       \A input \in typed : Chosen("edit")[input.field] = input.default
  /\ click.on = "save" => \A input \in typed : click.seen[input.field] = input.default

(* A confirmation is for the record of the warning.                          *)
Warning ==
  /\ phase = "shown" => click = NoClick
  /\ click.on = "confirm" => pending = {click.seen.id}

PageInv == TypeOK /\ Screen /\ Paging /\ Form /\ Warning /\ WritesAsSeen /\ NoPageBeyondEnd

(* TypeOK in parts.                                                          *)
TableOK ==
  /\ user \in Accounts /\ born \in 0..MaxId
  /\ \A r \in table : IsRecord(r) /\ \A s \in table : s.id = r.id => s = r

StoreOK ==
  /\ widgets \in Filters /\ signature \in {{}} \cup {{w} : w \in Filters}
  /\ page \in Nat \ {0}
  /\ pending \subseteq Ids /\ Cardinality(pending) <= 1
  /\ exported \in {{}} \cup {{RequestFilters(w)} : w \in Filters}
  /\ phase \in {"shown", "run", "fetch", "act"}

BoxesOK ==
  /\ choice \in [{"edit", "delete"} -> Nat \ {0}]
  /\ Editable(screen.items) # <<>> =>
       \A box \in {"edit", "delete"} : choice[box] \in DOMAIN Editable(screen.items)

LEMMA TypeParts ==
  ASSUME TypeOK
  PROVE  TableOK /\ StoreOK /\ BoxesOK
<1>1. TableOK
  BY DEF TypeOK, TableOK
<1>2. StoreOK
  BY DEF TypeOK, StoreOK
<1>3. BoxesOK
  BY DEF TypeOK, BoxesOK
<1> QED BY <1>1, <1>2, <1>3

LEMMA AtMostOne ==
  ASSUME NEW S, \A a, b \in S : a = b
  PROVE  Cardinality(S) <= 1
<1>1. CASE S = {}
  BY <1>1, FS_EmptySet
<1>2. CASE S # {}
  <2>1. PICK a : S = {a}
    BY <1>2
  <2> QED BY <2>1, FS_Singleton
<1> QED BY <1>1, <1>2

LEMMA OneId ==
  ASSUME NEW id \in Ids
  PROVE  {id} \subseteq Ids /\ Cardinality({id}) <= 1
<1>1. Cardinality({id}) = 1
  BY FS_Singleton
<1> QED BY <1>1

LEMMA NoId == {} \subseteq Ids /\ Cardinality({}) <= 1
BY FS_EmptySet

(* The record of a select box is one of those on the screen.                 *)
LEMMA ChosenIs ==
  ASSUME TypeOK, Screen, Editable(screen.items) # <<>>, NEW box \in {"edit", "delete"}
  PROVE  IsRecord(Chosen(box)) /\ Chosen(box).id \in Ids
<1>1. PICK k \in 0..MaxPageSize : DOMAIN screen.items = 1..k
  BY DEF Screen
<1>2. k \in Nat
  BY QueriesAssumption
<1>3. choice[box] \in DOMAIN Editable(screen.items)
  BY DEF TypeOK
<1>4. PICK i \in 1..k : Chosen(box) = screen.items[i]
  BY <1>1, <1>2, <1>3, EditableIs DEF Chosen
<1>5. IsRecord(screen.items[i])
  BY <1>1 DEF TypeOK
<1> QED BY <1>4, <1>5, RecordsPageAssumption DEF TypeOK, IsRecord, Ids

(* The first option is there when there are options.                         *)
LEMMA FirstIs ==
  ASSUME NEW records, NEW k \in Nat, DOMAIN records = 1..k
  PROVE  /\ First \in [{"edit", "delete"} -> Nat \ {0}]
         /\ Editable(records) # <<>> =>
              \A box \in {"edit", "delete"} : First[box] \in DOMAIN Editable(records)
BY EditableIs DEF First

(* A step that leaves the list on the screen.                                *)
LEMMA SameList ==
  ASSUME UNCHANGED <<user, screen>>
  PROVE  Editable(screen.items)' = Editable(screen.items)
BY DEF Editable, MayWrite

LEMMA SameScreen ==
  ASSUME PageInv, UNCHANGED <<user, screen>>, born' \in Nat, born' >= born,
         TableOK', StoreOK', BoxesOK', Form', Paging', Warning', WritesAsSeen',
         Cardinality(typed') <= 1, Cardinality(sent') <= 1
  PROVE  PageInv'
<1>1. \A n \in DOMAIN screen.items : IsRecord(screen.items[n])'
  BY RecordsPageAssumption DEF PageInv, TypeOK, IsRecord
<1>2. TypeOK'
  BY <1>1, Zenon DEF TypeOK, TableOK, StoreOK, BoxesOK
<1>3. Screen' /\ NoPageBeyondEnd'
  BY DEF PageInv, Screen, NoPageBeyondEnd
<1> QED BY <1>2, <1>3 DEF PageInv

---------------------------------------------------------------------------
(* The steps.                                                                *)

LEMMA OneMore ==
  ASSUME TableOK, born < MaxId, born' = born + 1, UNCHANGED user,
         table' = table \cup {Contents[born']}
  PROVE  TableOK' /\ born' \in Nat /\ born' >= born
<1>1. born \in Nat /\ born' \in 1..MaxId /\ born' \in Nat
  BY RecordsPageAssumption DEF TableOK
<1>2. IsContent(Contents[born']) /\ Contents[born'].id = born'
  BY <1>1, RecordsPageAssumption
<1>3. \A r \in table : IsContent(r) /\ r.id \in 1..born' /\ r.id # born'
  BY <1>1 DEF TableOK, IsRecord
<1>4. born' \in 0..MaxId
  BY <1>1
<1>5. born' >= born
  BY <1>1
<1> QED BY <1>1, <1>2, <1>3, <1>4, <1>5 DEF TableOK, IsRecord

LEMMA Less ==
  ASSUME TableOK, UNCHANGED <<user, born>>, table' \in SUBSET table
  PROVE  TableOK' /\ born' \in Nat /\ born' >= born
BY RecordsPageAssumption DEF TableOK, IsRecord

LEMMA OthersStep ==
  ASSUME PageInv, Insert \/ \E r \in table : Vanish(r)
  PROVE  PageInv'
<1>1. /\ UNCHANGED <<user, exported, screen, store, inputs>>
      /\ UNCHANGED <<phase, click, sent>>
  BY DEF Insert, Vanish
<1>2. TableOK' /\ born' \in Nat /\ born' >= born
  BY TypeParts, OneMore, Less DEF PageInv, Insert, Vanish
<1>3. StoreOK' /\ BoxesOK'
  BY <1>1, TypeParts, SameList DEF PageInv, StoreOK, BoxesOK, store, inputs
<1>4. Form'
  BY <1>1, SameList DEF PageInv, Form, Chosen, inputs
<1>5. Paging' /\ Warning' /\ WritesAsSeen'
  BY <1>1 DEF PageInv, Paging, Warning, WritesAsSeen, DeleteOnlyConfirmed,
              EditHitsSeenOrTwin, store, inputs
<1>6. Cardinality(typed') <= 1 /\ Cardinality(sent') <= 1
  BY <1>1 DEF PageInv, TypeOK, inputs
<1> QED BY <1>1, <1>2, <1>3, <1>4, <1>5, <1>6, SameScreen

(* An event begins a run, which forgets the last request.                     *)
LEMMA EventStep ==
  ASSUME PageInv, NEW what, Event(what), widgets' \in Filters,
         UNCHANGED store \/ (signature' = {} /\ page' = 1 /\ UNCHANGED pending),
         BoxesOK', typed' \in SUBSET typed,
         what.on = "save" => \A input \in typed' : what.seen[input.field] = input.default,
         what.on = "confirm" => pending = {what.seen.id},
         what.on # "nothing" => UNCHANGED <<store, widgets>>,
         what.on = "previous" => page > 1
  PROVE  PageInv'
<1>1. /\ UNCHANGED <<user, table, born, exported, screen>>
      /\ phase = "shown" /\ phase' = "run" /\ click' = what /\ sent' = {}
  BY DEF Event, outside, Nothing
<1>2. TableOK' /\ born' \in Nat /\ born' >= born
  BY <1>1, TypeParts, Less DEF PageInv
<1>3. StoreOK'
  BY <1>1, TypeParts DEF PageInv, StoreOK, store
<1>4. Form' /\ Cardinality(typed') <= 1
  BY <1>1, AtMostOne DEF PageInv, Form
<1>5. Paging' /\ Warning'
  BY <1>1 DEF PageInv, Paging, Warning, store
<1>6. WritesAsSeen' /\ Cardinality(sent') <= 1
  BY <1>1, FS_EmptySet DEF WritesAsSeen, DeleteOnlyConfirmed, EditHitsSeenOrTwin
<1> QED BY <1>1, <1>2, <1>3, <1>4, <1>5, <1>6, SameScreen

(* The select boxes after a run that may not have drawn them.                *)
LEMMA UndrawnStep ==
  ASSUME PageInv, UNCHANGED <<user, screen>>, Undrawn
  PROVE  BoxesOK' /\ typed' \in SUBSET typed
<1>1. PICK k \in 0..MaxPageSize : DOMAIN screen.items = 1..k
  BY DEF PageInv, Screen
<1>2. k \in Nat
  BY QueriesAssumption
<1>3. Editable(screen.items)' = Editable(screen.items) /\ BoxesOK
  BY TypeParts, SameList DEF PageInv
<1> QED BY <1>1, <1>2, <1>3, FirstIs DEF Undrawn, BoxesOK

LEMMA SameBoxes ==
  ASSUME PageInv, UNCHANGED <<user, screen, choice>>
  PROVE  BoxesOK'
BY TypeParts, SameList DEF PageInv, BoxesOK

LEMMA TypeStep ==
  ASSUME PageInv, NEW field \in EditFields, NEW value \in Typed, Type(field, value)
  PROVE  PageInv'
<1> DEFINE input == [field |-> field, default |-> Chosen("edit")[field], value |-> value]
<1>1. /\ UNCHANGED <<user, table, born, exported, screen, store, widgets, choice, phase, click, sent>>
      /\ typed' = {input} /\ phase = "shown"
  BY DEF Type, outside
<1>2. TableOK' /\ born' \in Nat /\ born' >= born
  BY <1>1, TypeParts, Less DEF PageInv
<1>3. StoreOK' /\ BoxesOK'
  BY <1>1, TypeParts, SameBoxes DEF PageInv, StoreOK, store
<1>4. Form'
  <2>1. Chosen("edit")' = Chosen("edit")
    BY <1>1, SameList DEF Chosen
  <2>2. click'.on # "save"
    BY <1>1 DEF PageInv, Warning, NoClick
  <2>3. input.value \in Typed /\ Chosen("edit")[input.field] = input.default
    OBVIOUS
  <2> HIDE DEF input
  <2> QED BY <1>1, <2>1, <2>2, <2>3 DEF Form
<1>5. Paging' /\ Warning' /\ WritesAsSeen'
  BY <1>1 DEF PageInv, Paging, Warning, WritesAsSeen, DeleteOnlyConfirmed,
              EditHitsSeenOrTwin, store
<1>6. Cardinality(typed') <= 1 /\ Cardinality(sent') <= 1
  <2>1. Cardinality({input}) = 1
    BY FS_Singleton
  <2> QED BY <1>1, <2>1 DEF PageInv, TypeOK
<1> QED BY <1>1, <1>2, <1>3, <1>4, <1>5, <1>6, SameScreen

LEMMA BrowserStep ==
  ASSUME PageInv, Browser
  PROVE  PageInv'
<1> USE DEF Event
<1>1. ASSUME NEW w \in Filters, SetFilters(w) PROVE PageInv'
  <2>1. BoxesOK'
    BY <1>1, SameBoxes DEF SetFilters, outside
  <2> QED BY <1>1, <2>1, EventStep DEF SetFilters, NoClick
<1>2. CASE ResetFilters
  <2>1. BoxesOK' /\ typed' \in SUBSET typed
    BY <1>2, UndrawnStep DEF ResetFilters, outside
  <2> QED BY <1>2, <2>1, EventStep, RecordsPageAssumption DEF ResetFilters, NoClick
<1>3. ASSUME NEW box \in {"edit", "delete"}, NEW n \in 1..MaxPageSize, Select(box, n)
      PROVE  PageInv'
  <2>1. UNCHANGED <<user, screen>> /\ n \in Nat \ {0}
    BY <1>3, QueriesAssumption DEF Select, outside
  <2>2. BoxesOK'
    BY <1>3, <2>1, TypeParts, SameList DEF PageInv, Select, BoxesOK
  <2>3. widgets' \in Filters
    BY <1>3 DEF Select, PageInv, TypeOK
  <2> QED BY <1>3, <2>2, <2>3, EventStep DEF Select, NoClick
<1>4. ASSUME NEW field \in EditFields, NEW value \in Typed, Type(field, value)
      PROVE  PageInv'
  BY <1>4, TypeStep
<1>5. ASSUME NEW button \in {"previous", "next", "export", "create"}, Press(button)
      PROVE  PageInv'
  <2>1. BoxesOK' /\ widgets' \in Filters
    BY <1>5, SameBoxes DEF Press, outside, inputs, PageInv, TypeOK
  <2>2. button = "previous" => page > 1
    BY <1>5 DEF Press, PageInv, Paging
  <2> QED BY <1>5, <2>1, <2>2, EventStep DEF Press, inputs
<1>6. ASSUME NEW button \in {"save", "delete", "confirm", "cancel"}, PressOn(button)
      PROVE  PageInv'
  <2> DEFINE r == Chosen(IF button = "save" THEN "edit" ELSE "delete")
             what == [on |-> button, seen |-> r]
  <2>1. BoxesOK' /\ widgets' \in Filters
    BY <1>6, SameBoxes DEF PressOn, outside, inputs, PageInv, TypeOK
  <2>2. button = "save" => \A input \in typed : r[input.field] = input.default
    BY <1>6 DEF PressOn, PageInv, Form
  <2>3. button = "confirm" => pending = {r.id}
    BY <1>6 DEF PressOn
  <2>4. Event(what) /\ UNCHANGED <<store, inputs>>
    BY <1>6 DEF PressOn
  <2>5. what.on = button /\ what.seen = r
    OBVIOUS
  <2> HIDE DEF what, r
  <2> QED BY <1>6, <2>1, <2>2, <2>3, <2>4, <2>5, EventStep DEF inputs
<1> QED BY <1>1, <1>2, <1>3, <1>4, <1>5, <1>6 DEF Browser

LEMMA BeginRunStep ==
  ASSUME PageInv, BeginRun
  PROVE  PageInv'
<1>1. /\ UNCHANGED <<user, table, born, exported, screen, widgets, choice, typed, pending, click>>
      /\ phase' = "fetch" /\ sent' = {} /\ signature' = {widgets}
      /\ page' = IF signature = {widgets} THEN page ELSE 1
  BY DEF BeginRun, outside, inputs, Nothing
<1>2. TableOK' /\ born' \in Nat /\ born' >= born /\ BoxesOK'
  BY <1>1, TypeParts, Less, SameBoxes DEF PageInv
<1>3. StoreOK'
  BY <1>1, TypeParts DEF PageInv, StoreOK
<1>4. Form' /\ Cardinality(typed') <= 1
  BY <1>1 DEF PageInv, Form, TypeOK
<1>5. Paging' /\ Warning'
  BY <1>1 DEF PageInv, Paging, Warning
<1>6. WritesAsSeen' /\ Cardinality(sent') <= 1
  BY <1>1, FS_EmptySet DEF WritesAsSeen, DeleteOnlyConfirmed, EditHitsSeenOrTwin
<1> QED BY <1>1, <1>2, <1>3, <1>4, <1>5, <1>6, SameScreen

(* What the list brings: rows of the table, and some when there are any.     *)
LEMMA AnswerScreen ==
  ASSUME TypeOK
  PROVE  /\ Answer.ok
         /\ Answer.pages \in Nat
         /\ \E k \in 0..MaxPageSize :
              /\ DOMAIN Answer.items = 1..k
              /\ \A n \in 1..k : Answer.items[n] \in table
              /\ Answer.total > 0 /\ page <= Greater(Answer.pages, 1) => k # 0
<1> DEFINE size == widgets.page_size
           found == Filtered(table, RequestFilters(widgets))
           seq == Listed(found, widgets.sort_by, widgets.order)
<1>1. widgets \in Filters /\ page \in Nat \ {0} /\ MaxPageSize \in Nat
  BY QueriesAssumption DEF TypeOK
<1>2. /\ Answer.ok /\ Answer.items = Window(seq, page, size)
      /\ Answer.total = Cardinality(found)
      /\ Answer.pages = Ceiling(Cardinality(found), size)
      /\ found \in SUBSET table
      /\ Lists(seq, found) /\ size \in Nat \ {0} /\ size <= MaxPageSize
  BY <1>1, AnswerIs DEF Answer
<1> HIDE DEF size, found, seq
<1>3. seq \in Seq(found) /\ Len(seq) = Cardinality(found) /\ Cardinality(found) \in Nat
  BY <1>2 DEF Lists
<1> DEFINE k == IF (page - 1) * size >= Len(seq) THEN 0
                 ELSE Lesser(size, Len(seq) - (page - 1) * size)
<1>4. /\ k \in 0..size /\ (k = 0 <=> (page - 1) * size >= Len(seq))
      /\ Window(seq, page, size) \in Seq(found) /\ Len(Window(seq, page, size)) = k
  BY <1>1, <1>2, <1>3, WindowIs
<1> HIDE DEF k
<1>5. /\ Ceiling(Cardinality(found), size) \in Nat /\ (page - 1) * size \in Nat
      /\ page <= Ceiling(Cardinality(found), size) <=> (page - 1) * size < Cardinality(found)
  BY <1>1, <1>2, <1>3, Division
<1>6. DOMAIN Answer.items = 1..k /\ \A n \in 1..k : Answer.items[n] \in found
  BY <1>2, <1>4, LenProperties, ElementOfSeq
<1>7. ASSUME Cardinality(found) > 0, page <= Greater(Ceiling(Cardinality(found), size), 1)
      PROVE  k # 0
  <2>1. (1 - 1) * size = 0
    BY <1>2
  <2>2. (1 - 1) * size < Cardinality(found) => 1 <= Ceiling(Cardinality(found), size)
    BY <1>2, <1>3, Division
  <2>3. page <= Ceiling(Cardinality(found), size)
    BY <1>1, <1>3, <1>5, <1>7, <2>1, <2>2 DEF Greater
  <2> QED BY <1>3, <1>4, <1>5, <2>3
<1>8. k \in 0..MaxPageSize
  BY <1>1, <1>2, <1>4
<1> QED BY <1>2, <1>5, <1>6, <1>7, <1>8

LEMMA ShownStep ==
  ASSUME PageInv, NEW answer, Shown(answer), phase = "fetch",
         UNCHANGED <<user, table, born, exported, widgets, signature, pending, sent>>,
         NEW k \in 0..MaxPageSize, DOMAIN answer.items = 1..k,
         \A n \in 1..k : answer.items[n] \in table,
         answer.total > 0 => k # 0,
         page <= Greater(answer.pages, 1)
  PROVE  PageInv'
<1> DEFINE options == Editable(answer.items)
           kept == Editable(screen.items)
<1>1. /\ screen' = [items |-> answer.items, total |-> answer.total,
                    page |-> page, pages |-> answer.pages]
      /\ UNCHANGED <<page, click>> /\ phase' = "act"
      /\ choice' = IF Labels(options) = Labels(kept) THEN choice ELSE First
      /\ typed' = {input \in typed : options # <<>>
                     /\ options[choice'.edit][input.field] = input.default}
  BY DEF Shown, Rendered
<1>2. /\ screen'.items = answer.items /\ screen'.total = answer.total
      /\ screen'.page = page /\ screen'.pages = answer.pages
  BY <1>1
<1>3. Editable(screen.items)' = options
  BY <1>2 DEF Editable, MayWrite
<1>4. k \in Nat /\ options # <<>> => 1 \in DOMAIN options
  BY QueriesAssumption, EditableIs
<1>5. BoxesOK'
  <2>1. CASE Labels(options) = Labels(kept)
    <3>1. DOMAIN options = DOMAIN kept
      BY <2>1 DEF Labels
    <3>2. kept = <<>> => DOMAIN kept = {}
      OBVIOUS
    <3> QED BY <1>1, <1>3, <1>4, <2>1, <3>1, <3>2, TypeParts DEF PageInv, BoxesOK
  <2>2. CASE Labels(options) # Labels(kept)
    <3>1. choice' = First /\ k \in Nat
      BY <1>1, <2>2, QueriesAssumption
    <3>2. /\ First \in [{"edit", "delete"} -> Nat \ {0}]
          /\ options # <<>> => \A box \in {"edit", "delete"} : First[box] \in DOMAIN options
      BY <3>1, FirstIs
    <3> QED BY <1>3, <3>1, <3>2 DEF BoxesOK
  <2> QED BY <2>1, <2>2
<1> HIDE DEF options, kept
<1>6. TypeOK'
  <2>1. TableOK /\ StoreOK
    BY TypeParts DEF PageInv
  <2>2. TableOK'
    BY <2>1, <1>1 DEF TableOK, IsRecord
  <2>3. StoreOK'
    BY <2>1, <1>1 DEF StoreOK
  <2>4. (\A n \in DOMAIN screen.items : IsRecord(screen.items[n]))'
    <3>1. \A n \in 1..k : IsRecord(answer.items[n])
      BY <2>1 DEF TableOK
    <3> QED BY <1>2, <3>1 DEF IsRecord
  <2>5. Cardinality(typed') <= 1 /\ Cardinality(sent') <= 1
    BY <1>1, AtMostOne DEF PageInv, TypeOK, Form
  <2> QED BY <1>5, <2>2, <2>3, <2>4, <2>5 DEF TypeOK, TableOK, StoreOK, BoxesOK
<1>7. Screen' /\ NoPageBeyondEnd'
  <2>1. k # 0 => answer.items # <<>>
    <3>1. k # 0 => 1 \in 1..k
      BY QueriesAssumption
    <3>2. DOMAIN <<>> = {}
      OBVIOUS
    <3> QED BY <3>1, <3>2
  <2> QED BY <1>2, <2>1 DEF Screen, NoPageBeyondEnd
<1>8. Form'
  <2>1. Chosen("edit")' = options[choice'.edit]
    BY <1>3 DEF Chosen
  <2> QED BY <1>1, <1>3, <2>1 DEF PageInv, Form
<1>9. Paging' /\ Warning' /\ WritesAsSeen'
  BY <1>1, <1>2 DEF PageInv, Paging, Warning, WritesAsSeen, DeleteOnlyConfirmed,
                    EditHitsSeenOrTwin
<1> QED BY <1>6, <1>7, <1>8, <1>9 DEF PageInv

LEMMA FetchStep ==
  ASSUME PageInv, Fetch
  PROVE  PageInv'
<1>1. /\ UNCHANGED <<user, table, born, exported, widgets, signature, pending, sent>>
      /\ phase = "fetch" /\ Fetched(Answer)
  BY DEF Fetch, outside
<1>2. PICK k \in 0..MaxPageSize :
        /\ DOMAIN Answer.items = 1..k
        /\ \A n \in 1..k : Answer.items[n] \in table
        /\ Answer.total > 0 /\ page <= Greater(Answer.pages, 1) => k # 0
  BY AnswerScreen DEF PageInv
<1>3. CASE page <= Greater(Answer.pages, 1) /\ Shown(Answer)
  BY <1>1, <1>2, <1>3, ShownStep
<1>4. CASE /\ page > Greater(Answer.pages, 1)
           /\ page' = ClampPage(page, Answer.pages)
           /\ phase' = "run" /\ click' = NoClick /\ Undrawn
           /\ UNCHANGED screen
  <2>1. page \in Nat \ {0} /\ Answer.pages \in Nat
    BY AnswerScreen DEF PageInv, TypeOK
  <2>2. page' \in Nat \ {0}
    BY <1>4, <2>1 DEF ClampPage, Greater, Lesser
  <2>3. TableOK' /\ born' \in Nat /\ born' >= born
    BY <1>1, TypeParts, Less DEF PageInv
  <2>4. StoreOK'
    BY <1>1, <1>4, <2>2, TypeParts DEF PageInv, StoreOK
  <2>5. BoxesOK' /\ typed' \in SUBSET typed
    BY <1>1, <1>4, UndrawnStep
  <2>6. click'.on = "nothing"
    BY <1>4 DEF NoClick
  <2>7. Form' /\ Cardinality(typed') <= 1
    BY <1>4, <2>5, <2>6, AtMostOne DEF PageInv, Form
  <2>8. Paging' /\ Warning'
    BY <1>1, <1>4, <2>6 DEF PageInv, Paging, Warning
  <2>9. WritesAsSeen' /\ Cardinality(sent') <= 1
    BY <1>1 DEF PageInv, TypeOK, WritesAsSeen, DeleteOnlyConfirmed, EditHitsSeenOrTwin
  <2> QED BY <1>1, <1>4, <2>3, <2>4, <2>5, <2>7, <2>8, <2>9, SameScreen
<1> QED BY <1>1, <1>3, <1>4 DEF Fetched

LEMMA FetchFailsStep ==
  ASSUME PageInv, FetchFails
  PROVE  PageInv'
<1>1. /\ UNCHANGED <<user, table, born, exported, store, widgets, sent>>
      /\ phase = "fetch" /\ phase' = "shown" /\ click' = NoClick /\ screen' = Blank
      /\ typed' \in SUBSET typed /\ choice' \in {choice, First}
  BY DEF FetchFails, Undrawn, outside
<1>2. /\ screen'.items = <<>> /\ screen'.total = 0 /\ screen'.page = 1 /\ screen'.pages = 0
      /\ DOMAIN screen'.items = 1..0 /\ 1..0 = {}
  BY <1>1 DEF Blank
<1>3. Editable(screen.items)' = <<>>
  <2>1. Editable(screen'.items) = <<>>
    BY <1>2, EditableIs
  <2> QED BY <1>1, <2>1 DEF Editable, MayWrite
<1>4. TableOK /\ StoreOK /\ BoxesOK
  BY TypeParts DEF PageInv
<1>5. TypeOK'
  <2>1. TableOK' /\ StoreOK'
    BY <1>1, <1>4, Less DEF StoreOK, store
  <2>2. BoxesOK'
    BY <1>1, <1>3, <1>4 DEF BoxesOK, First
  <2>3. (\A n \in DOMAIN screen.items : IsRecord(screen.items[n]))'
    BY <1>2
  <2>4. Cardinality(typed') <= 1 /\ Cardinality(sent') <= 1
    BY <1>1, AtMostOne DEF PageInv, TypeOK, Form
  <2> QED BY <2>1, <2>2, <2>3, <2>4 DEF TypeOK, TableOK, StoreOK, BoxesOK
<1>6. Screen' /\ NoPageBeyondEnd'
  <2>1. 0 \in 0..MaxPageSize
    BY QueriesAssumption
  <2> QED BY <1>2, <2>1 DEF Screen, NoPageBeyondEnd, Greater
<1>7. click'.on = "nothing"
  BY <1>1 DEF NoClick
<1>8. Form' /\ Paging' /\ Warning'
  BY <1>1, <1>2, <1>3, <1>7 DEF PageInv, Form, Paging, Warning, store
<1>9. WritesAsSeen'
  BY <1>1 DEF PageInv, WritesAsSeen, DeleteOnlyConfirmed, EditHitsSeenOrTwin
<1> QED BY <1>5, <1>6, <1>8, <1>9 DEF PageInv

(* The rest of a run leaves the list; if it comes to its end, what is typed   *)
(* stays with the record of the form.                                        *)
LEMMA HandledStep ==
  ASSUME PageInv, phase = "act", UNCHANGED <<user, screen, widgets, signature>>,
         TableOK', born' \in Nat, born' >= born,
         page' \in Nat \ {0}, pending' \subseteq Ids /\ Cardinality(pending') <= 1,
         exported' \in {{RequestFilters(widgets)}, exported},
         phase' \in {"shown", "run"}, click' = NoClick,
         BoxesOK', typed' \in SUBSET typed,
         phase' = "shown" => page' = page /\ choice'.edit = choice.edit,
         WritesAsSeen', Cardinality(sent') <= 1
  PROVE  PageInv'
<1>1. StoreOK'
  BY TypeParts DEF PageInv, StoreOK
<1>2. click'.on = "nothing"
  BY DEF NoClick
<1>3. Cardinality(typed') <= 1
  BY AtMostOne DEF PageInv, Form
<1>4. Form'
  <2>1. Editable(screen.items)' = Editable(screen.items)
    BY SameList
  <2>2. phase' = "shown" => Chosen("edit")' = Chosen("edit")
    BY <2>1 DEF Chosen
  <2> QED BY <1>2, <2>1, <2>2 DEF PageInv, Form
<1>5. Paging' /\ Warning'
  BY <1>2 DEF PageInv, Paging, Warning
<1> QED BY <1>1, <1>3, <1>4, <1>5, SameScreen

LEMMA SendIs ==
  ASSUME NEW method, NEW r, NEW fields, NEW after, Send(method, r, fields, after)
  PROVE  /\ sent' = {[method |-> method, record |-> r, fields |-> fields, seen |-> click.seen]}
         /\ table' \in {table, after} /\ phase' \in {"shown", "run"} /\ click' = NoClick
         /\ Cardinality(sent') <= 1
<1> DEFINE message == [method |-> method, record |-> r, fields |-> fields, seen |-> click.seen]
<1>1. sent' = {message} /\ table' \in {table, after}
      /\ phase' \in {"shown", "run"} /\ click' = NoClick
  BY DEF Send, Rerun, Done
<1>2. Cardinality({message}) = 1
  BY FS_Singleton
<1> QED BY <1>1, <1>2

(* A PATCH changes fields of a record but not its id, and sends integers.    *)
LEMMA PatchedTable ==
  ASSUME TableOK, NEW id, NEW changes, DOMAIN changes \subseteq EditFields,
         \A f \in DOMAIN changes : changes[f] \in Int,
         \A t \in table' : \E s \in table : t = IF s.id = id THEN Patched(s, changes) ELSE s,
         UNCHANGED <<user, born>>
  PROVE  TableOK'
<1> DEFINE New(s) == IF s.id = id THEN Patched(s, changes) ELSE s
<1>1. ASSUME NEW s \in table PROVE IsRecord(New(s)) /\ New(s).id = s.id
  <2>1. IsRecord(s)
    BY DEF TableOK
  <2>2. DOMAIN Patched(s, changes) = DOMAIN s
        /\ \A f \in DOMAIN s : Patched(s, changes)[f] =
             IF f \in DOMAIN changes THEN changes[f] ELSE s[f]
    BY DEF Patched
  <2>3. "id" \notin DOMAIN changes
    BY RecordsPageAssumption
  <2>4. IsRecord(Patched(s, changes)) /\ Patched(s, changes).id = s.id
    BY <2>1, <2>2, <2>3 DEF IsRecord, IsContent, Fields
  <2> QED BY <2>1, <2>4
<1>2. \A t \in table' : \E s \in table : t = New(s)
  OBVIOUS
<1> HIDE DEF New
<1>3. \A r \in table' : IsRecord(r) /\ \A t \in table' : t.id = r.id => t = r
  BY <1>1, <1>2 DEF TableOK
<1> QED BY <1>3 DEF TableOK, IsRecord

LEMMA SaveStep ==
  ASSUME PageInv, Save
  PROVE  PageInv'
<1> DEFINE r == Chosen("edit")
           submitted == [f \in EditFields |->
             IF \E input \in typed : input.field = f
             THEN (CHOOSE input \in typed : input.field = f).value ELSE r[f]]
           changes == ChangedFields(r, submitted)
<1>1. /\ phase = "act" /\ click.on = "save" /\ Editable(screen.items) # <<>>
      /\ UNCHANGED <<user, exported, born, store, widgets, typed, screen>>
      /\ choice' \in {choice, [choice EXCEPT !.delete = 1]}
      /\ choice' # choice => phase' = "run"
  BY DEF Save, Handles
<1>2. \/ DOMAIN changes = {} /\ Done /\ UNCHANGED <<table, sent>>
      \/ Send("PATCH", r, DOMAIN changes,
              {IF s.id = r.id THEN Patched(s, changes) ELSE s : s \in table})
  BY DEF Save
<1>3. /\ DOMAIN changes = {f \in EditFields : submitted[f] # r[f]}
      /\ \A f \in DOMAIN changes : changes[f] = submitted[f]
  BY DEF ChangedFields
<1>4. ASSUME NEW f \in DOMAIN changes
      PROVE  \E input \in typed : input.field = f /\ changes[f] = input.value
  <2>1. f \in EditFields /\ submitted[f] # r[f]
    BY <1>3
  <2>2. \E input \in typed : input.field = f
    BY <2>1
  <2>3. submitted[f] = (CHOOSE input \in typed : input.field = f).value
    BY <2>1, <2>2
  <2> QED BY <1>3, <2>2, <2>3
<1>5. DOMAIN changes \subseteq EditFields
  BY <1>3
<1> HIDE DEF changes, submitted
<1>6. \A f \in DOMAIN changes : changes[f] \in Int
  <2>1. Typed \subseteq Int
    BY RecordsPageAssumption
  <2>2. \A input \in typed : input.value \in Typed
    BY DEF PageInv, Form
  <2> QED BY <1>4, <2>1, <2>2
<1>7. \A f \in DOMAIN changes : r[f] = click.seen[f]
  BY <1>1, <1>4 DEF PageInv, Form
<1> HIDE DEF r
<1>8. TableOK' /\ born' \in Nat /\ born' >= born
  <2>1. TableOK /\ born \in Nat
    BY TypeParts, RecordsPageAssumption DEF PageInv, TableOK
  <2>2. CASE table' = table
    BY <1>1, <2>1, <2>2, Less
  <2>3. CASE table' = {IF s.id = r.id THEN Patched(s, changes) ELSE s : s \in table}
    <3> DEFINE id == r.id
    <3>1. \A t \in table' : \E s \in table : t = IF s.id = id THEN Patched(s, changes) ELSE s
      BY <2>3
    <3>2. UNCHANGED <<user, born>>
      BY <1>1
    <3> HIDE DEF id
    <3>3. TableOK'
      BY <1>5, <1>6, <2>1, <3>1, <3>2, PatchedTable
    <3> QED BY <1>1, <2>1, <3>3
  <2>4. \/ table' = table
        \/ table' = {IF s.id = r.id THEN Patched(s, changes) ELSE s : s \in table}
    BY <1>2, SendIs
  <2> QED BY <2>2, <2>3, <2>4
<1>9. phase' \in {"shown", "run"} /\ click' = NoClick /\ Cardinality(sent') <= 1
  BY <1>2, SendIs DEF Done, PageInv, TypeOK
<1>10. WritesAsSeen'
  <2>1. CASE UNCHANGED sent
    BY <2>1 DEF PageInv, WritesAsSeen, DeleteOnlyConfirmed, EditHitsSeenOrTwin
  <2>2. CASE sent' = {[method |-> "PATCH", record |-> r, fields |-> DOMAIN changes,
                       seen |-> click.seen]}
    BY <1>7, <2>2 DEF WritesAsSeen, DeleteOnlyConfirmed, EditHitsSeenOrTwin
  <2> QED BY <1>2, <2>1, <2>2, SendIs
<1>11. BoxesOK' /\ choice'.edit = choice.edit
  <2>1. Editable(screen.items)' = Editable(screen.items) /\ BoxesOK
    BY <1>1, SameList, TypeParts DEF PageInv
  <2>2. 1 \in DOMAIN Editable(screen.items)
    <3>1. PICK k \in 0..MaxPageSize : DOMAIN screen.items = 1..k
      BY DEF PageInv, Screen
    <3>2. k \in Nat
      BY QueriesAssumption
    <3> QED BY <1>1, <3>1, <3>2, EditableIs
  <2> QED BY <1>1, <2>1, <2>2 DEF BoxesOK
<1>12. /\ page' \in Nat \ {0} /\ pending' \subseteq Ids /\ Cardinality(pending') <= 1
       /\ page' = page /\ signature' = signature
  BY <1>1 DEF PageInv, TypeOK, store
<1> QED BY <1>1, <1>8, <1>9, <1>10, <1>11, <1>12, HandledStep

(* A DELETE goes to the record of the warning.                               *)
LEMMA DeleteStep ==
  ASSUME PageInv, Delete
  PROVE  PageInv'
<1> DEFINE r == Chosen("delete")
<1>1. /\ phase = "act" /\ click.on = "confirm" /\ pending = {r.id} /\ pending' = {}
      /\ UNCHANGED <<user, exported, born, signature, page, inputs, screen>>
      /\ Send("DELETE", r, {}, {s \in table : s.id # r.id})
  BY DEF Delete, Handles
<1> HIDE DEF r
<1>2. /\ sent' = {[method |-> "DELETE", record |-> r, fields |-> {}, seen |-> click.seen]}
      /\ table' \in SUBSET table
      /\ phase' \in {"shown", "run"} /\ click' = NoClick /\ Cardinality(sent') <= 1
  BY <1>1, SendIs
<1>3. r.id = click.seen.id
  BY <1>1 DEF PageInv, Warning
<1>4. WritesAsSeen'
  BY <1>2, <1>3 DEF WritesAsSeen, DeleteOnlyConfirmed, EditHitsSeenOrTwin
<1>5. TableOK' /\ born' \in Nat /\ born' >= born
  BY <1>1, <1>2, TypeParts, Less DEF PageInv
<1>6. BoxesOK'
  BY <1>1, SameBoxes DEF inputs
<1>7. page' \in Nat \ {0} /\ pending' \subseteq Ids /\ Cardinality(pending') <= 1
  BY <1>1, NoId DEF PageInv, TypeOK
<1> QED BY <1>1, <1>2, <1>4, <1>5, <1>6, <1>7, HandledStep DEF inputs

LEMMA CreateStep ==
  ASSUME PageInv, Create
  PROVE  PageInv'
<1>1. /\ phase = "act" /\ phase' \in {"shown", "run"} /\ click' = NoClick
      /\ UNCHANGED <<user, exported, store, widgets, screen, sent>>
      /\ \/ phase' = "run" /\ Undrawn
         \/ UNCHANGED <<choice, typed>>
  BY DEF Create, Handles, Done, Rerun
<1>2. TableOK' /\ born' \in Nat /\ born' >= born
  <2>1. \/ /\ born < MaxId /\ born' = born + 1
           /\ table' = table \cup {Contents[born']}
        \/ UNCHANGED <<table, born>>
    BY DEF Create
  <2> QED BY <1>1, <2>1, TypeParts, OneMore, Less DEF PageInv
<1>3. BoxesOK' /\ typed' \in SUBSET typed
  BY <1>1, UndrawnStep, SameBoxes
<1>4. /\ page' \in Nat \ {0} /\ pending' \subseteq Ids /\ Cardinality(pending') <= 1
      /\ Cardinality(sent') <= 1
  BY <1>1 DEF PageInv, TypeOK, store
<1>5. WritesAsSeen'
  BY <1>1 DEF PageInv, WritesAsSeen, DeleteOnlyConfirmed, EditHitsSeenOrTwin
<1>6. page' = page /\ signature' = signature
  BY <1>1 DEF store
<1>7. phase' = "shown" => choice'.edit = choice.edit
  BY <1>1
<1> QED BY <1>1, <1>2, <1>3, <1>4, <1>5, <1>6, <1>7, HandledStep

(* The clicks that send nothing.                                             *)
LEMMA NoRequestStep ==
  ASSUME PageInv, Unhandled \/ Turn \/ Export \/ AskToDelete \/ Cancel
  PROVE  PageInv'
<1>1. /\ phase = "act" /\ phase' \in {"shown", "run"} /\ click' = NoClick
      /\ UNCHANGED <<user, table, born, widgets, signature, screen, sent>>
      /\ exported' \in {{RequestFilters(widgets)}, exported}
      /\ UNCHANGED <<choice, typed>> \/ (phase' = "run" /\ Undrawn)
      /\ phase' = "shown" => page' = page
  BY DEF Unhandled, Turn, Export, AskToDelete, Cancel, Handles, Done, Rerun,
         outside, store, inputs
<1>2. TableOK' /\ born' \in Nat /\ born' >= born
  BY <1>1, TypeParts, Less DEF PageInv
<1>3. BoxesOK' /\ typed' \in SUBSET typed
  BY <1>1, UndrawnStep, SameBoxes
<1>4. page' \in Nat \ {0}
  <2>1. page \in Nat \ {0} /\ (click.on = "previous" => page > 1)
    BY DEF PageInv, TypeOK, Paging
  <2> QED BY <2>1 DEF Unhandled, Turn, Export, AskToDelete, Cancel, Handles, store
<1>5. pending' \subseteq Ids /\ Cardinality(pending') <= 1
  <2>1. CASE AskToDelete
    <3>1. Chosen("delete").id \in Ids
      BY <2>1, ChosenIs DEF AskToDelete, PageInv
    <3>2. pending' = {Chosen("delete").id}
      BY <2>1 DEF AskToDelete
    <3> QED BY <3>1, <3>2, OneId
  <2>2. CASE Cancel
    BY <2>2, NoId DEF Cancel
  <2>3. CASE Unhandled \/ Turn \/ Export
    BY <2>3 DEF PageInv, TypeOK, Unhandled, Turn, Export, store
  <2> QED BY <2>1, <2>2, <2>3
<1>6. WritesAsSeen' /\ Cardinality(sent') <= 1
  BY <1>1 DEF PageInv, TypeOK, WritesAsSeen, DeleteOnlyConfirmed, EditHitsSeenOrTwin
<1>7. phase' = "shown" => page' = page /\ choice'.edit = choice.edit
  BY <1>1
<1> QED BY <1>1, <1>2, <1>3, <1>4, <1>5, <1>6, <1>7, HandledStep

---------------------------------------------------------------------------
(* The results.                                                              *)

LEMMA InitPageInv == Init => PageInv
<1> SUFFICES ASSUME Init PROVE PageInv
  OBVIOUS
<1>1. /\ screen.items = <<>> /\ screen.total = 0 /\ screen.page = 1 /\ screen.pages = 0
      /\ click.on = "nothing" /\ phase = "run"
      /\ DOMAIN screen.items = 1..0 /\ 1..0 = {}
  BY DEF Init, Blank, NoClick
<1>2. Editable(screen.items) = <<>>
  BY <1>1, EditableIs
<1>3. TypeOK
  <2>1. born \in 0..MaxId /\ table = {} /\ user \in Accounts
    BY RecordsPageAssumption DEF Init
  <2>2. widgets \in Filters /\ signature = {} /\ page \in Nat \ {0}
    BY RecordsPageAssumption DEF Init
  <2>3. /\ pending \subseteq Ids /\ Cardinality(pending) <= 1
        /\ Cardinality(typed) <= 1 /\ Cardinality(sent) <= 1
        /\ exported = {}
    BY NoId DEF Init, Nothing
  <2>4. choice \in [{"edit", "delete"} -> Nat \ {0}]
    BY DEF Init, First
  <2> QED BY <1>1, <1>2, <2>1, <2>2, <2>3, <2>4 DEF TypeOK
<1>4. Screen /\ NoPageBeyondEnd
  <2>1. 0 \in 0..MaxPageSize
    BY QueriesAssumption
  <2> QED BY <1>1, <2>1 DEF Screen, NoPageBeyondEnd, Greater
<1>5. Paging /\ Form /\ Warning /\ WritesAsSeen
  BY <1>1 DEF Init, Nothing, Paging, Form, Warning, WritesAsSeen, DeleteOnlyConfirmed,
              EditHitsSeenOrTwin
<1> QED BY <1>3, <1>4, <1>5 DEF PageInv

LEMMA NextPageInv == PageInv /\ [Next]_vars => PageInv'
<1> SUFFICES ASSUME PageInv, [Next]_vars PROVE PageInv'
  OBVIOUS
<1>1. CASE Insert \/ \E r \in table : Vanish(r)
  BY <1>1, OthersStep
<1>2. CASE Browser
  BY <1>2, BrowserStep
<1>3. CASE BeginRun \/ FetchFails \/ Fetch
  BY <1>3, BeginRunStep, FetchFailsStep, FetchStep
<1>4. CASE Unhandled \/ Turn \/ Export \/ AskToDelete \/ Cancel
  BY <1>4, NoRequestStep
<1>5. CASE Create \/ Save \/ Delete
  BY <1>5, CreateStep, SaveStep, DeleteStep
<1>6. CASE UNCHANGED vars
  <2>1. UNCHANGED <<user, table, born, exported, screen, inputs, store, phase, click, sent>>
    BY <1>6 DEF vars, inputs, store
  <2>2. Editable(screen.items)' = Editable(screen.items)
    BY <2>1, SameList
  <2>3. TableOK' /\ born' \in Nat /\ born' >= born
    BY <2>1, TypeParts, Less DEF PageInv
  <2>4. StoreOK' /\ BoxesOK'
    BY <2>1, TypeParts, SameBoxes DEF PageInv, StoreOK, inputs, store
  <2>5. Form' /\ Paging' /\ Warning'
    BY <2>1, <2>2 DEF PageInv, Form, Paging, Warning, Chosen, inputs, store
  <2>6. WritesAsSeen' /\ Cardinality(typed') <= 1 /\ Cardinality(sent') <= 1
    BY <2>1 DEF PageInv, TypeOK, WritesAsSeen, DeleteOnlyConfirmed, EditHitsSeenOrTwin, inputs
  <2> QED BY <2>1, <2>3, <2>4, <2>5, <2>6, SameScreen
<1> QED BY <1>1, <1>2, <1>3, <1>4, <1>5, <1>6 DEF Next, Script

(* The variables keep to their types: rows keep their ids, the page on the    *)
(* screen is made of rows that were there, and a select box points at one of  *)
(* its options after every list that arrives or does not (views/records.py).  *)
THEOREM PageTypeOK == Spec => []TypeOK
<1>1. PageInv => TypeOK
  BY DEF PageInv
<1> QED BY <1>1, InitPageInv, NextPageInv, PTL DEF Spec

(* Whatever changes between the screen and the request, a DELETE goes to the  *)
(* record of the warning that was confirmed, and a PATCH to the record in the *)
(* form or to one with the same values in the fields that it changes          *)
(* (views/records.py:247-312).                                               *)
THEOREM PageWritesAsSeen == Spec => []WritesAsSeen
<1>1. PageInv => WritesAsSeen
  BY DEF PageInv
<1> QED BY <1>1, InitPageInv, NextPageInv, PTL DEF Spec

(* No list is shown with its page number beyond its end, nor an empty one      *)
(* when there are records (views/records.py:91-94).                          *)
THEOREM PageNotBeyondEnd == Spec => []NoPageBeyondEnd
<1>1. PageInv => NoPageBeyondEnd
  BY DEF PageInv
<1> QED BY <1>1, InitPageInv, NextPageInv, PTL DEF Spec

---------------------------------------------------------------------------
(* What the filters ask for is what they find.                               *)

LEMMA Days ==
  ASSUME NEW t \in Int, NEW from \in Int, NEW to \in Int
  PROVE  t >= StartOfDay(from) /\ t <= EndOfDay(to) <=> t \div DayLength \in from..to
<1> DEFINE D == DayLength
           q == t \div D
           rest == t % D
<1>1. D \in Nat \ {0}
  BY QueriesAssumption
<1>2. q \in Int /\ rest \in 0..D - 1 /\ t = q * D + rest
  BY <1>1
<1> HIDE DEF q, rest
<1>3. ASSUME NEW a \in Int PROVE a * D <= t <=> a <= q
  <2>1. CASE a <= q
    <3>1. a * D <= q * D /\ a * D \in Int /\ q * D \in Int
      BY <1>1, <1>2, <2>1
    <3> QED BY <1>1, <1>2, <2>1, <3>1
  <2>2. CASE a >= q + 1
    <3>1. a * D >= q * D + D /\ a * D \in Int /\ q * D \in Int
      <4>1. a * D >= (q + 1) * D /\ (q + 1) * D = q * D + D
        BY <1>1, <1>2, <2>2
      <4> QED BY <1>1, <1>2, <4>1
    <3> QED BY <1>1, <1>2, <2>2, <3>1
  <2> QED BY <1>2, <2>1, <2>2
<1>4. t >= from * D <=> from <= q
  <2>1. from * D \in Int
    BY <1>1
  <2> QED BY <1>3, <2>1
<1>5. t <= to * D + D - 1 <=> q <= to
  <2>1. (to + 1) * D <= t <=> to + 1 <= q
    BY <1>3
  <2>2. (to + 1) * D = to * D + D /\ to * D \in Int
    BY <1>1
  <2> QED BY <1>1, <1>2, <2>1, <2>2
<1> QED BY <1>2, <1>4, <1>5 DEF StartOfDay, EndOfDay, q

LEMMA FoundIsWanted ==
  ASSUME TypeOK
  PROVE  Filtered(table, RequestFilters(widgets)) = Wanted
<1> DEFINE f == RequestFilters(widgets)
<1>1. /\ f.category = widgets.category /\ f.source = widgets.source
      /\ f.start = {StartOfDay(days.from) : days \in widgets.days}
      /\ f.end = {EndOfDay(days.to) : days \in widgets.days}
  BY DEF RequestFilters
<1> HIDE DEF f
<1>2. \A days \in widgets.days : days.from \in Int /\ days.to \in Int
  BY RecordsPageAssumption DEF TypeOK
<1>3. ASSUME NEW r \in table
      PROVE  (\A t \in f.start : r.timestamp >= t) /\ (\A t \in f.end : r.timestamp <= t)
             <=> \A days \in widgets.days : r.timestamp \div DayLength \in days.from..days.to
  <2>1. r.timestamp \in Int
    BY DEF TypeOK, IsRecord, IsContent
  <2>2. \A days \in widgets.days :
          r.timestamp >= StartOfDay(days.from) /\ r.timestamp <= EndOfDay(days.to)
          <=> r.timestamp \div DayLength \in days.from..days.to
    BY <1>2, <2>1, Days
  <2>3. (\A t \in f.start : r.timestamp >= t)
        <=> \A days \in widgets.days : r.timestamp >= StartOfDay(days.from)
    BY <1>1
  <2>4. (\A t \in f.end : r.timestamp <= t)
        <=> \A days \in widgets.days : r.timestamp <= EndOfDay(days.to)
    BY <1>1
  <2> QED BY <2>2, <2>3, <2>4, Zenon
<1>4. \A r \in table :
        /\ (\A c \in f.category : r.category = c) <=> widgets.category \subseteq {r.category}
        /\ (\A s \in f.source : r.source = s) <=> widgets.source \subseteq {r.source}
  BY <1>1
<1>5. \A r : r \in Filtered(table, f) <=> r \in Wanted
  <2> TAKE r
  <2>1. r \in Filtered(table, f) <=>
          /\ r \in table
          /\ \A c \in f.category : r.category = c
          /\ \A s \in f.source : r.source = s
          /\ \A t \in f.start : r.timestamp >= t
          /\ \A t \in f.end : r.timestamp <= t
    BY Zenon DEF Filtered
  <2>2. r \in Wanted <=>
          /\ r \in table
          /\ widgets.category \subseteq {r.category} /\ widgets.source \subseteq {r.source}
          /\ \A days \in widgets.days : r.timestamp \div DayLength \in days.from..days.to
    BY Zenon DEF Wanted
  <2> QED BY <1>3, <1>4, <2>1, <2>2, Zenon
<1> QED BY <1>5 DEF f

(* The row at a place of a listing is on the page that has this place.        *)
LEMMA Place ==
  ASSUME NEW S, NEW seq \in Seq(S), NEW size \in Nat \ {0}, NEW i \in 1..Len(seq)
  PROVE  /\ (i - 1) \div size + 1 \in Nat \ {0}
         /\ Window(seq, (i - 1) \div size + 1, size)[((i - 1) % size) + 1] = seq[i]
<1> DEFINE q == (i - 1) \div size
           rest == (i - 1) % size
           p == q + 1
<1>1. Len(seq) \in Nat
  BY LenProperties
<1>2. q \in Int /\ q >= 0 /\ rest \in 0..size - 1 /\ i - 1 = q * size + rest
  BY <1>1
<1> HIDE DEF q, rest
<1>3. p \in Nat \ {0} /\ p - 1 = q
  BY <1>2
<1> DEFINE from == (p - 1) * size
           k == IF from >= Len(seq) THEN 0 ELSE Lesser(size, Len(seq) - from)
<1>4. from = q * size
  BY <1>3
<1> HIDE DEF p
<1>5. \A n \in 1..k : Window(seq, p, size)[n] = seq[from + n]
  BY <1>3, WindowIs
<1> HIDE DEF from
<1>6. from \in Int /\ i - 1 = from + rest
  <2>1. q * size \in Int
    BY <1>2
  <2> QED BY <1>2, <1>4, <2>1
<1>7. rest + 1 \in 1..k /\ from + (rest + 1) = i
  BY <1>1, <1>2, <1>6 DEF Lesser
<1> HIDE DEF k
<1>8. Window(seq, p, size)[rest + 1] = seq[i]
  BY <1>5, <1>7
<1> QED BY <1>3, <1>8 DEF p, q, rest

LEMMA PagesAre ==
  ASSUME TypeOK
  PROVE  PagesPartition
<1> DEFINE size == widgets.page_size
           Page(n) == ListRecords(table, BuildQuery(n, size, RequestFilters(widgets),
                                                    widgets.sort_by, widgets.order))
           total == Cardinality(Wanted)
           pages == TotalPages(total, size)
           seq == Listed(Wanted, widgets.sort_by, widgets.order)
           shown == [i \in 1..total |-> Page((i - 1) \div size + 1).items[((i - 1) % size) + 1]]
           Key(i) == shown[i][widgets.sort_by]
<1>1. widgets \in Filters /\ widgets.sort_by \in SortFields
  BY RecordsPageAssumption DEF TypeOK, SortFields
<1>2. ASSUME NEW n \in Nat \ {0}
      PROVE  /\ Page(n).items = Window(seq, n, size)
             /\ Page(n).total = total /\ Page(n).pages = Ceiling(total, size)
  BY <1>1, AnswerIs, FoundIsWanted
<1>3. Rows(Wanted) /\ Lists(seq, Wanted) /\ size \in Nat \ {0}
  <2>1. 1 \in Nat \ {0}
    OBVIOUS
  <2> QED BY <1>1, <2>1, AnswerIs, FoundIsWanted
<1>4. /\ seq \in Seq(Wanted) /\ Len(seq) = total /\ total \in Nat
      /\ \A i \in 1..total : seq[i] \in Wanted
      /\ \A r \in Wanted : \E i \in 1..total : seq[i] = r
  BY <1>3 DEF Lists
<1>5. \A m, n \in 1..total : m < n =>
        IF widgets.order = "asc" THEN seq[m][widgets.sort_by] <= seq[n][widgets.sort_by]
                                 ELSE seq[m][widgets.sort_by] >= seq[n][widgets.sort_by]
  BY <1>1, <1>3, ListedIs
<1> HIDE DEF Page, size, seq, total
<1>6. pages = Ceiling(total, size) /\ pages \in Nat
  <2>1. Ceiling(total, size) \in Nat
        /\ (1 <= Ceiling(total, size) <=> (1 - 1) * size < total)
    BY <1>3, <1>4, Division
  <2>2. (1 - 1) * size = 0
    BY <1>3
  <2> QED BY <1>3, <1>4, <2>1, <2>2 DEF TotalPages
<1> HIDE DEF pages
<1>7. ASSUME NEW n \in 1..pages
      PROVE  Len(Page(n).items) = Lesser(size, total - (n - 1) * size)
  <2>1. n \in Nat \ {0}
    BY <1>6
  <2>2. (n - 1) * size < total /\ (n - 1) * size \in Nat
    BY <1>3, <1>4, <1>6, <2>1, Division
  <2>3. ~((n - 1) * size >= Len(seq))
    BY <1>4, <2>2
  <2>4. Len(Window(seq, n, size)) = Lesser(size, Len(seq) - (n - 1) * size)
    BY <1>3, <1>4, <2>1, <2>3, WindowIs
  <2> QED BY <1>2, <1>4, <2>1, <2>4
<1>8. Page(pages + 1).items = <<>>
  <2> DEFINE n == pages + 1
  <2>1. n \in Nat \ {0} /\ ~(n <= pages)
    BY <1>6
  <2> HIDE DEF n
  <2>2. (n - 1) * size >= Len(seq)
    BY <1>3, <1>4, <1>6, <2>1, Division
  <2>3. Window(seq, n, size) \in Seq(Wanted) /\ Len(Window(seq, n, size)) = 0
    BY <1>3, <1>4, <2>1, <2>2, WindowIs
  <2>4. Window(seq, n, size) = <<>>
    BY <2>3, EmptySeq
  <2> QED BY <1>2, <2>1, <2>4 DEF n
<1>9. ASSUME NEW i \in 1..total PROVE shown[i] = seq[i]
  <2>1. /\ (i - 1) \div size + 1 \in Nat \ {0}
        /\ Window(seq, (i - 1) \div size + 1, size)[((i - 1) % size) + 1] = seq[i]
    <3>1. i \in 1..Len(seq) /\ seq \in Seq(Wanted) /\ size \in Nat \ {0}
      BY <1>3, <1>4
    <3> QED BY <3>1, Place, Zenon
  <2>2. Page((i - 1) \div size + 1).items = Window(seq, (i - 1) \div size + 1, size)
    <3> DEFINE n == (i - 1) \div size + 1
    <3>1. n \in Nat \ {0}
      BY <2>1
    <3> HIDE DEF n
    <3>2. Page(n).items = Window(seq, n, size)
      BY <1>2, <3>1
    <3> QED BY <3>2 DEF n
  <2>3. shown[i] = Page((i - 1) \div size + 1).items[((i - 1) % size) + 1]
    OBVIOUS
  <2> QED BY <2>1, <2>2, <2>3, Zenon
<1>10. DOMAIN shown = 1..total
  OBVIOUS
<1> HIDE DEF shown
<1>11. {shown[i] : i \in DOMAIN shown} = Wanted
  BY <1>4, <1>9, <1>10
<1>12. \A i, j \in DOMAIN shown : i < j =>
         IF widgets.order = "asc" THEN Key(i) <= Key(j) ELSE Key(i) >= Key(j)
  BY <1>5, <1>9, <1>10
<1>13. Page(1).pages = pages /\ Page(1).total = total
  BY <1>2, <1>6
<1> QED BY <1>7, <1>8, <1>11, <1>12, <1>13, Zenon
        DEF PagesPartition, Page, size, total, pages, shown, seq

---------------------------------------------------------------------------
(* The export.                                                               *)

LEMMA OldestIs ==
  ASSUME NEW S, Rows(S)
  PROVE  /\ Lists(Oldest(S), S)
         /\ \A m, n \in 1..Cardinality(S) : m < n =>
              /\ Oldest(S)[m] # Oldest(S)[n]
              /\ Oldest(S)[m].timestamp <= Oldest(S)[n].timestamp
<1> DEFINE Before(r, s) ==
             r.timestamp < s.timestamp \/ (r.timestamp = s.timestamp /\ r.id < s.id)
           before == [s \in S |-> {r \in S : Before(r, s)}]
           seq == Oldest(S)
<1>1. \A r \in S : r.timestamp \in Int /\ r.id \in Int
  BY DEF Rows, IsContent
<1>2. Orders(before, S)
  <2>1. \A r, s \in S : Before(r, s) => r # s
    BY <1>1
  <2>2. \A r, s \in S : r = s \/ Before(r, s) \/ Before(s, r)
    BY <1>1 DEF Rows
  <2>3. \A q, r, s \in S : Before(q, r) /\ Before(r, s) => Before(q, s)
    BY <1>1
  <2> HIDE DEF Before
  <2> QED BY <2>1, <2>2, <2>3 DEF Orders
<1>3. seq = [n \in 1..Cardinality(S) |->
               CHOOSE r \in S : Cardinality({s \in S : Before(s, r)}) = n - 1]
  BY DEF Oldest, Ranked
<1>4. Cardinality(S) \in Nat
  BY FS_CardinalityType DEF Rows
<1> HIDE DEF Before, seq
<1>5. \A n \in 1..Cardinality(S) : seq[n] \in S /\ Cardinality(before[seq[n]]) = n - 1
  <2> TAKE n \in 1..Cardinality(S)
  <2>1. \E r \in S : Cardinality(before[r]) = n - 1
    <3> HIDE DEF before
    <3> QED BY <1>2, RankExists DEF Rows
  <2>2. \E r \in S : Cardinality({s \in S : Before(s, r)}) = n - 1
    BY <2>1
  <2>3. seq[n] = CHOOSE r \in S : Cardinality({s \in S : Before(s, r)}) = n - 1
    BY <1>3
  <2>4. seq[n] \in S /\ Cardinality({s \in S : Before(s, seq[n])}) = n - 1
    BY <2>2, <2>3
  <2> QED BY <2>4
<1> HIDE DEF before
<1> DOMAIN seq = 1..Cardinality(S)
  BY <1>3
<1>6. /\ \A r \in S : \E n \in 1..Cardinality(S) : seq[n] = r
      /\ \A m, n \in 1..Cardinality(S) : m < n => seq[m] \in before[seq[n]]
  BY <1>2, <1>5, ByRank DEF Rows
<1>7. Lists(seq, S)
  <2>1. seq \in [1..Cardinality(S) -> S]
    BY <1>3, <1>5
  <2>2. seq \in Seq(S) /\ Len(seq) = Cardinality(S)
    BY <1>4, <2>1, FunctionIsSeq
  <2> QED BY <1>4, <1>5, <1>6, <2>2 DEF Lists
<1>8. ASSUME NEW m \in 1..Cardinality(S), NEW n \in 1..Cardinality(S), m < n
      PROVE  seq[m] # seq[n] /\ seq[m].timestamp <= seq[n].timestamp
  <2>1. Before(seq[m], seq[n]) /\ seq[m] \in S /\ seq[n] \in S
    BY <1>5, <1>6, <1>8 DEF before
  <2> QED BY <1>1, <2>1 DEF Before
<1> QED BY <1>7, <1>8 DEF seq

(* A cell is read as the text it was made from and is not a formula.          *)
LEMMA CellIs ==
  ASSUME NEW text
  PROVE  Cell(text)[1] \notin Formulas /\ Cell(text)[Len(Cell(text))] = text
<1>1. Apostrophe \notin Formulas
  BY QueriesAssumption DEF Apostrophe
<1>2. CASE text \in Formulas
  <2>1. Cell(text) = <<Apostrophe, text>>
    BY <1>2 DEF Cell
  <2> QED BY <1>1, <2>1
<1>3. CASE text \notin Formulas
  <2>1. Cell(text) = <<text>>
    BY <1>3 DEF Cell
  <2> QED BY <1>3, <2>1
<1> QED BY <1>2, <1>3

LEMMA ExportIs ==
  ASSUME TypeOK
  PROVE  ExportIsListing
<1> DEFINE query == ExportQuery(RequestFilters(widgets))
           export == ExportRecords(table, query)
           oldest == Oldest(Wanted)
           k == Lesser(ExportRowLimit, Len(oldest))
           rows == SubSeq(oldest, 1, k)
           sheet == Workbook(rows)
           total == Cardinality(Wanted)
           Reads(cell, text) == cell[1] \notin Formulas /\ cell[Len(cell)] = text
           ids == {sheet[n].id : n \in DOMAIN sheet}
<1>1. Filtered(table, RecordFilters(query)) = Wanted /\ Rows(Wanted)
  <2>1. \E c, s, from, to :
          RequestFilters(widgets) = [category |-> c, source |-> s, start |-> from, end |-> to]
    BY DEF RequestFilters
  <2>2. RecordFilters(query) = RequestFilters(widgets)
    BY <2>1 DEF RecordFilters, ExportQuery, Param
  <2> QED BY <2>2, FoundIsWanted, TableRows, SomeRows
<1>2. export = [sheet |-> sheet, rows |-> Len(rows), truncated |-> Len(rows) >= ExportRowLimit]
  <2> HIDE DEF query
  <2> QED BY <1>1, Zenon DEF ExportRecords
<1>3. /\ oldest \in Seq(Wanted) /\ Len(oldest) = total /\ total \in Nat
      /\ \A n \in 1..total : oldest[n] \in Wanted
      /\ \A r \in Wanted : \E n \in 1..total : oldest[n] = r
      /\ \A m, n \in 1..total : m < n =>
           oldest[m] # oldest[n] /\ oldest[m].timestamp <= oldest[n].timestamp
  BY <1>1, OldestIs DEF Lists
<1>4. ExportRowLimit \in Nat
  BY QueriesAssumption
<1> HIDE DEF oldest, total
<1>5. k \in Nat /\ k <= total /\ k <= ExportRowLimit /\ (k < ExportRowLimit => k = total)
  BY <1>3, <1>4 DEF Lesser
<1> HIDE DEF k
<1>6. rows \in Seq(Wanted) /\ Len(rows) = k /\ \A n \in 1..k : rows[n] = oldest[n]
  <2>1. \A n \in 1..k : oldest[n] \in Wanted
    BY <1>3, <1>5
  <2> QED BY <1>5, <2>1, SubSeqProperties
<1> HIDE DEF rows
<1>7. DOMAIN rows = 1..k
  BY <1>6, LenProperties
<1>8. \A n \in 1..k : rows[n] \in Wanted
  BY <1>3, <1>5, <1>6
<1>9. DOMAIN sheet = 1..k
      /\ \A n \in 1..k : sheet[n] = [rows[n] EXCEPT !.title = Cell(rows[n].title),
                                                     !.category = Cell(rows[n].category)]
  BY <1>7 DEF Workbook
<1> HIDE DEF sheet
<1>10. ASSUME NEW n \in 1..k
       PROVE  /\ sheet[n].id = rows[n].id /\ sheet[n].timestamp = rows[n].timestamp
              /\ sheet[n].title = Cell(rows[n].title)
              /\ sheet[n].category = Cell(rows[n].category)
  <2>1. DOMAIN rows[n] = Fields
    BY <1>1, <1>8 DEF Rows, IsContent
  <2> QED BY <1>9, <2>1 DEF Fields
<1>11. \A m, n \in 1..k : m < n =>
         rows[m] # rows[n] /\ sheet[m].timestamp <= sheet[n].timestamp
  BY <1>3, <1>5, <1>6, <1>10
<1>12. Cardinality(ids) = k
  <2> DEFINE id == [n \in 1..k |-> sheet[n].id]
  <2>1. \A m, n \in 1..k : id[m] = id[n] => m = n
    <3>1. \A m, n \in 1..k : rows[m].id = rows[n].id => rows[m] = rows[n]
      BY <1>1, <1>8 DEF Rows
    <3>2. \A m, n \in 1..k : m = n \/ m < n \/ n < m
      BY <1>5
    <3> QED BY <1>10, <1>11, <3>1, <3>2
  <2>2. id \in [1..k -> ids] /\ \A x \in ids : \E n \in 1..k : id[n] = x
    BY <1>9
  <2> HIDE DEF id, ids
  <2>3. id \in Bijection(1..k, ids)
    BY <2>1, <2>2 DEF Bijection, Injection, IsInjective, Surjection
  <2>4. IsFiniteSet(1..k) /\ Cardinality(1..k) = k
    BY <1>5, FS_Interval
  <2> QED BY <2>3, <2>4, FS_Bijection DEF ExistsBijection
<1>13. ids = {rows[n].id : n \in 1..k}
  BY <1>9, <1>10
<1>14. ids \subseteq {r.id : r \in Wanted}
  BY <1>8, <1>13
<1>15. ~(k >= ExportRowLimit) => ids = {r.id : r \in Wanted}
  <2>1. ASSUME k = total, NEW r \in Wanted PROVE r.id \in ids
    <3>1. PICK n \in 1..k : oldest[n] = r
      BY <1>3, <2>1
    <3> QED BY <1>6, <1>13, <3>1
  <2> QED BY <1>4, <1>5, <1>14, <2>1
<1>16. k >= ExportRowLimit => k = ExportRowLimit
  BY <1>4, <1>5
<1>17. \A n \in DOMAIN sheet, r \in Wanted : r.id = sheet[n].id =>
         Reads(sheet[n].title, r.title) /\ Reads(sheet[n].category, r.category)
  <2>1. \A n \in 1..k : \A r \in Wanted : r.id = rows[n].id => r = rows[n]
    BY <1>1, <1>8 DEF Rows
  <2>2. \A text : Reads(Cell(text), text)
    BY CellIs
  <2> HIDE DEF Reads
  <2> SUFFICES ASSUME NEW n \in 1..k, NEW r \in Wanted, r.id = sheet[n].id
               PROVE  Reads(sheet[n].title, r.title) /\ Reads(sheet[n].category, r.category)
    BY <1>9
  <2>3. r = rows[n] /\ sheet[n].title = Cell(r.title) /\ sheet[n].category = Cell(r.category)
    BY <1>10, <2>1
  <2> QED BY <2>2, <2>3
<1> HIDE DEF export
<1>18. /\ export.sheet = sheet /\ export.rows = k /\ (export.truncated <=> k >= ExportRowLimit)
  <2>1. /\ export.sheet = sheet /\ export.rows = Len(rows)
        /\ export.truncated = (Len(rows) >= ExportRowLimit)
    BY <1>2, Zenon
  <2> QED BY <1>6, <2>1, Zenon
<1>19. \A m, n \in DOMAIN sheet : m < n => sheet[m].timestamp <= sheet[n].timestamp
  BY <1>9, <1>11
<1>20. /\ Cardinality(ids) = export.rows /\ ids \subseteq {r.id : r \in Wanted}
       /\ ~export.truncated => ids = {r.id : r \in Wanted}
       /\ export.truncated => export.rows = ExportRowLimit
  BY <1>12, <1>14, <1>15, <1>16, <1>18, Zenon
<1>21. ids = {export.sheet[n].id : n \in DOMAIN export.sheet}
  BY <1>18, Zenon
<1> HIDE DEF ids
<1>22. \A m, n \in DOMAIN export.sheet : m < n =>
         export.sheet[m].timestamp <= export.sheet[n].timestamp
  BY <1>18, <1>19, Zenon
<1>23. \A n \in DOMAIN export.sheet, r \in Wanted : r.id = export.sheet[n].id =>
         Reads(export.sheet[n].title, r.title) /\ Reads(export.sheet[n].category, r.category)
  BY <1>17, <1>18, Zenon
<1> QED BY <1>20, <1>21, <1>22, <1>23, Zenon DEF ExportIsListing, export, query

(* Browsing through the pages shows every wanted record once, in the order    *)
(* asked for, on full pages but the last, for any size of a page and also     *)
(* when sort keys repeat (crud/data_record.py:132-147, routes/records.py:125). *)
THEOREM PagesArePartition == Spec => []PagesPartition
<1> QED BY PageTypeOK, PagesAre, PTL

(* The workbook has the wanted records once, oldest first, every title and     *)
(* category readable and none a formula, and the response says when the limit  *)
(* cut it (routes/records.py:197-221, excel.py:31-46).                         *)
THEOREM ExportMatchesListing == Spec => []ExportIsListing
<1> QED BY PageTypeOK, ExportIs, PTL

---------------------------------------------------------------------------
(* Sums over a finite set.  A fold takes the elements one by one, in an order  *)
(* that CHOOSE fixes; Adds is what does not depend on that order.              *)

Pick(T) == CHOOSE x \in T : TRUE

(* The function a fold with addition evaluates, of the weights g of S.         *)
Step(sum, g, T) == IF T = {} THEN 0 ELSE g[Pick(T)] + sum[T \ {Pick(T)}]
Sums(sum, g, S) == \A T \in SUBSET S : sum[T] = Step(sum, g, T)

Adds(sum, g, S) ==
  /\ \A T \in SUBSET S : sum[T] \in Int
  /\ sum[{}] = 0
  /\ \A T \in SUBSET S : \A x \in T : sum[T] = g[x] + sum[T \ {x}]

LEMMA OneLess ==
  ASSUME NEW T, IsFiniteSet(T), NEW x \in T
  PROVE  /\ Cardinality(T) \in Nat /\ Cardinality(T \ {x}) = Cardinality(T) - 1
         /\ IsFiniteSet(T \ {x})
<1>1. Cardinality(T) \in Nat
  BY FS_CardinalityType
<1> QED BY <1>1, FS_RemoveElement

(* Induction over the subsets of a finite set, for a set of them.              *)
LEMMA SubsetInduction ==
  ASSUME NEW S, IsFiniteSet(S), NEW P, {} \in P,
         \A T \in SUBSET S : T # {} /\ (\A x \in T : T \ {x} \in P) => T \in P
  PROVE  SUBSET S \subseteq P
<1> DEFINE Q == {n \in Nat : \A T \in SUBSET S : Cardinality(T) = n => T \in P}
<1>1. \A T \in SUBSET S : IsFiniteSet(T) /\ Cardinality(T) \in Nat
  BY FS_Subset, FS_CardinalityType
<1>2. 0 \in Q
  BY <1>1, FS_EmptySet
<1>3. ASSUME NEW n \in Nat, n \in Q PROVE n + 1 \in Q
  <2>1. ASSUME NEW T \in SUBSET S, Cardinality(T) = n + 1 PROVE T \in P
    <3>1. T # {}
      BY <1>1, <2>1, FS_EmptySet
    <3>2. ASSUME NEW x \in T PROVE T \ {x} \in P
      <4>1. Cardinality(T \ {x}) = n /\ T \ {x} \in SUBSET S
        BY <1>1, <2>1, OneLess
      <4> QED BY <1>3, <4>1
    <3> QED BY <3>1, <3>2
  <2> QED BY <2>1
<1>4. Nat \subseteq Q
  <2> HIDE DEF Q
  <2> QED BY <1>2, <1>3, SetInduction
<1> QED BY <1>1, <1>4

LEMMA SumExists ==
  ASSUME NEW S, IsFiniteSet(S), NEW g \in [S -> Int]
  PROVE  \E sum : sum = [T \in SUBSET S |-> sum[T]] /\ Sums(sum, g, S)
<1> DEFINE Small(n) == {T \in SUBSET S : Cardinality(T) <= n}
           Partial(n) == {sum \in [Small(n) -> Int] :
                            \A T \in Small(n) : sum[T] = Step(sum, g, T)}
           Q == {n \in Nat : Partial(n) # {}}
<1>1. \A T \in SUBSET S : IsFiniteSet(T) /\ Cardinality(T) \in Nat
  BY FS_Subset, FS_CardinalityType
<1>2. \A T \in SUBSET S : T # {} => /\ Pick(T) \in T /\ g[Pick(T)] \in Int
                                    /\ T \ {Pick(T)} \in SUBSET S
                                    /\ Cardinality(T \ {Pick(T)}) = Cardinality(T) - 1
  <2> TAKE T \in SUBSET S
  <2> HAVE T # {}
  <2>1. Pick(T) \in T
    BY DEF Pick
  <2> QED BY <1>1, <2>1, OneLess
<1>3. 0 \in Q
  <2> DEFINE sum == [T \in Small(0) |-> 0]
  <2>1. \A T \in Small(0) : T = {}
    BY <1>1, FS_EmptySet
  <2>2. sum \in [Small(0) -> Int] /\ \A T \in Small(0) : sum[T] = Step(sum, g, T)
    BY <2>1 DEF Step
  <2> QED BY <2>2
<1>4. ASSUME NEW n \in Nat, n \in Q PROVE n + 1 \in Q
  <2>1. PICK sum \in [Small(n) -> Int] : \A T \in Small(n) : sum[T] = Step(sum, g, T)
    BY <1>4
  <2> DEFINE longer == [T \in Small(n + 1) |-> Step(sum, g, T)]
  <2>2. ASSUME NEW T \in Small(n + 1), T # {} PROVE T \ {Pick(T)} \in Small(n)
    BY <1>1, <1>2, <2>2
  <2>3. \A T \in Small(n) : T \in Small(n + 1) /\ longer[T] = sum[T]
    BY <1>1, <2>1
  <2>4. \A T \in Small(n + 1) : Step(sum, g, T) \in Int
    BY <1>2, <2>1, <2>2 DEF Step
  <2>5. longer \in [Small(n + 1) -> Int]
    BY <2>4
  <2>6. ASSUME NEW T \in Small(n + 1) PROVE longer[T] = Step(longer, g, T)
    <3>1. longer[T] = Step(sum, g, T)
      OBVIOUS
    <3>2. T # {} => longer[T \ {Pick(T)}] = sum[T \ {Pick(T)}]
      BY <2>2, <2>3
    <3> HIDE DEF longer
    <3> QED BY <3>1, <3>2 DEF Step
  <2> HIDE DEF longer, Small
  <2>7. longer \in Partial(n + 1)
    BY <2>5, <2>6
  <2> QED BY <2>7
<1>5. Cardinality(S) \in Q
  <2> HIDE DEF Q
  <2>1. Nat \subseteq Q
    BY <1>3, <1>4, SetInduction
  <2> QED BY <1>1, <2>1
<1>6. PICK sum \in [Small(Cardinality(S)) -> Int] :
        \A T \in Small(Cardinality(S)) : sum[T] = Step(sum, g, T)
  BY <1>5
<1>7. Small(Cardinality(S)) = SUBSET S
  BY FS_Subset
<1>8. sum = [T \in SUBSET S |-> sum[T]] /\ \A T \in SUBSET S : sum[T] = Step(sum, g, T)
  BY <1>6, <1>7
<1> QED BY <1>8, Zenon DEF Sums

(* The order in which the elements are taken does not matter.                  *)
LEMMA AnyOrder ==
  ASSUME NEW S, IsFiniteSet(S), NEW g \in [S -> Int], NEW sum, Sums(sum, g, S)
  PROVE  Adds(sum, g, S)
<1> DEFINE Whole == {T \in SUBSET S : sum[T] \in Int}
           Every == {T \in SUBSET S : \A x \in T : sum[T] = g[x] + sum[T \ {x}]}
<1>1. sum[{}] = 0
  BY DEF Sums, Step
<1>2. \A T \in SUBSET S : T # {} =>
        /\ Pick(T) \in T /\ sum[T] = g[Pick(T)] + sum[T \ {Pick(T)}]
  BY DEF Pick, Sums, Step
<1>3. SUBSET S \subseteq Whole
  <2>1. {} \in Whole
    BY <1>1
  <2>2. ASSUME NEW T \in SUBSET S, T # {}, \A x \in T : T \ {x} \in Whole PROVE T \in Whole
    <3>1. PICK c \in T : sum[T] = g[c] + sum[T \ {c}]
      BY <1>2, <2>2
    <3>2. g[c] \in Int /\ sum[T \ {c}] \in Int
      BY <2>2
    <3> QED BY <3>1, <3>2
  <2> HIDE DEF Whole
  <2> QED BY <2>1, <2>2, SubsetInduction
<1>4. \A T \in SUBSET S : sum[T] \in Int
  BY <1>3
<1>5. ASSUME NEW T \in SUBSET S, T # {}, \A x \in T : T \ {x} \in Every PROVE T \in Every
  <2>1. PICK c \in T : sum[T] = g[c] + sum[T \ {c}]
    BY <1>2, <1>5
  <2>2. ASSUME NEW x \in T, x # c PROVE sum[T] = g[x] + sum[T \ {x}]
    <3> DEFINE rest == (T \ {x}) \ {c}
    <3>1. (T \ {c}) \ {x} = rest /\ x \in T \ {c} /\ c \in T \ {x}
      BY <2>2
    <3>2. sum[T \ {c}] = g[x] + sum[rest] /\ sum[T \ {x}] = g[c] + sum[rest]
      BY <1>5, <3>1
    <3>3. sum[rest] \in Int /\ g[x] \in Int /\ g[c] \in Int
      BY <1>4
    <3> HIDE DEF rest
    <3> QED BY <2>1, <3>2, <3>3
  <2> QED BY <2>1, <2>2
<1>6. SUBSET S \subseteq Every
  <2>1. {} \in Every
    OBVIOUS
  <2> HIDE DEF Every
  <2> QED BY <1>5, <2>1, SubsetInduction
<1> QED BY <1>1, <1>4, <1>6 DEF Adds

(* There is one sum of the weights.                                            *)
LEMMA OneSum ==
  ASSUME NEW S, IsFiniteSet(S), NEW g, NEW a, NEW b, Adds(a, g, S), NEW T \in SUBSET S,
         NEW h, Adds(b, h, T), \A x \in T : g[x] = h[x]
  PROVE  \A U \in SUBSET T : a[U] = b[U]
<1> DEFINE P == {U \in SUBSET T : a[U] = b[U]}
<1>1. {} \in P
  BY DEF Adds
<1>2. ASSUME NEW U \in SUBSET T, U # {}, \A x \in U : U \ {x} \in P PROVE U \in P
  <2>1. PICK x \in U : TRUE
    BY <1>2
  <2>2. a[U] = g[x] + a[U \ {x}] /\ b[U] = h[x] + b[U \ {x}]
    BY <2>1 DEF Adds
  <2> QED BY <1>2, <2>2
<1>3. SUBSET T \subseteq P
  <2>1. IsFiniteSet(T)
    BY FS_Subset
  <2> HIDE DEF P
  <2> QED BY <1>1, <1>2, <2>1, SubsetInduction
<1> QED BY <1>3

LEMMA DisjointSum ==
  ASSUME NEW S, IsFiniteSet(S), NEW g \in [S -> Int], NEW sum, Adds(sum, g, S),
         NEW A \in SUBSET S, NEW B \in SUBSET S, A \cap B = {}
  PROVE  sum[A \cup B] = sum[A] + sum[B]
<1> DEFINE P == {U \in SUBSET B : sum[A \cup U] = sum[A] + sum[U]}
<1>1. \A T \in SUBSET S : sum[T] \in Int
  BY DEF Adds
<1>2. {} \in P
  <2>1. A \cup {} = A /\ sum[{}] = 0 /\ sum[A] \in Int
    BY <1>1 DEF Adds
  <2> QED BY <2>1
<1>3. ASSUME NEW U \in SUBSET B, U # {}, \A x \in U : U \ {x} \in P PROVE U \in P
  <2>1. PICK x \in U : TRUE
    BY <1>3
  <2> DEFINE both == A \cup U
             less == U \ {x}
  <2>2. x \in both /\ both \in SUBSET S /\ both \ {x} = A \cup less /\ less \in SUBSET S
    BY <2>1
  <2>3. sum[both] = g[x] + sum[A \cup less] /\ sum[U] = g[x] + sum[less]
    BY <2>1, <2>2 DEF Adds
  <2>4. sum[A \cup less] = sum[A] + sum[less]
    BY <1>3
  <2>5. g[x] \in Int /\ sum[A] \in Int /\ sum[less] \in Int
    BY <1>1, <2>2
  <2> HIDE DEF less, both
  <2>6. sum[both] = sum[A] + sum[U]
    BY <2>3, <2>4, <2>5
  <2> QED BY <2>6 DEF both
<1>4. SUBSET B \subseteq P
  <2>1. IsFiniteSet(B)
    BY FS_Subset
  <2> HIDE DEF P
  <2> QED BY <1>2, <1>3, <2>1, SubsetInduction
<1> QED BY <1>4

(* The sums of the groups add up to the whole.                                 *)
Parts(group, m, S) ==
  /\ m \in Nat
  /\ \A i \in 1..m : group[i] \in SUBSET S
  /\ \A r \in S : \E i \in 1..m : r \in group[i]
  /\ \A i, j \in 1..m : i = j \/ group[i] \cap group[j] = {}

LEMMA GroupsAddUp ==
  ASSUME NEW S, IsFiniteSet(S), NEW g \in [S -> Int], NEW sum, Adds(sum, g, S),
         NEW m, NEW group, Parts(group, m, S),
         NEW of, \A i \in 1..m : of[i] = sum[group[i]],
         NEW up, Adds(up, of, 1..m)
  PROVE  up[1..m] = sum[S]
<1> DEFINE Until(k) == {r \in S : \E i \in 1..k : r \in group[i]}
           P == {k \in Nat : k <= m => up[1..k] = sum[Until(k)]}
<1> m \in Nat
  BY DEF Parts
<1>1. 0 \in P
  <2>1. 1..0 = {} /\ Until(0) = {}
    OBVIOUS
  <2>2. up[1..0] = sum[Until(0)]
    BY <2>1 DEF Adds
  <2> QED BY <2>2
<1> HIDE DEF Until
<1>2. ASSUME NEW k \in Nat, k \in P PROVE k + 1 \in P
  <2> SUFFICES ASSUME k + 1 <= m PROVE up[1..(k + 1)] = sum[Until(k + 1)]
    OBVIOUS
  <2> DEFINE T == 1..(k + 1)
  <2>1. T \in SUBSET (1..m) /\ k + 1 \in T /\ k + 1 \in 1..m /\ T \ {k + 1} = 1..k
    <3>1. \A i : i \in T <=> i \in 1..k \/ i = k + 1
      OBVIOUS
    <3>2. k + 1 \notin 1..k /\ k + 1 \in 1..m /\ \A i \in 1..k : i \in 1..m
      OBVIOUS
    <3> HIDE DEF T
    <3> QED BY <3>1, <3>2
  <2>2. up[T] = of[k + 1] + up[1..k]
    <3> HIDE DEF T
    <3>1. up[T] = of[k + 1] + up[T \ {k + 1}]
      BY <2>1 DEF Adds
    <3> QED BY <2>1, <3>1
  <2>3. of[k + 1] = sum[group[k + 1]]
    BY <2>1
  <2>4. up[1..k] = sum[Until(k)]
    BY <1>2
  <2>5. Until(k + 1) = Until(k) \cup group[k + 1]
    <3>1. \A i : i \in 1..(k + 1) <=> i \in 1..k \/ i = k + 1
      OBVIOUS
    <3>2. group[k + 1] \in SUBSET S
      BY <2>1 DEF Parts
    <3> QED BY <3>1, <3>2 DEF Until
  <2>6. Until(k) \cap group[k + 1] = {}
    <3>1. \A i \in 1..k : i \in 1..m /\ i # k + 1
      OBVIOUS
    <3>2. k + 1 \in 1..m
      OBVIOUS
    <3> QED BY <3>1, <3>2 DEF Until, Parts
  <2>7. Until(k) \in SUBSET S /\ group[k + 1] \in SUBSET S
    BY <2>1 DEF Until, Parts
  <2> DEFINE A == Until(k)
             B == group[k + 1]
  <2> HIDE DEF T, A, B
  <2>8. sum[A \cup B] = sum[A] + sum[B] /\ sum[A] \in Int /\ sum[B] \in Int
    <3>1. A \in SUBSET S /\ B \in SUBSET S /\ A \cap B = {}
      BY <2>6, <2>7 DEF A, B
    <3>2. sum[A \cup B] = sum[A] + sum[B]
      BY <3>1, DisjointSum
    <3> QED BY <3>1, <3>2 DEF Adds
  <2>9. up[T] = sum[B] + sum[A]
    BY <2>2, <2>3, <2>4 DEF A, B
  <2>10. sum[Until(k + 1)] = sum[A \cup B]
    BY <2>5 DEF A, B
  <2>11. up[T] = sum[Until(k + 1)]
    BY <2>8, <2>9, <2>10
  <2> QED BY <2>11 DEF T
<1>3. m \in P
  <2> HIDE DEF P
  <2>1. Nat \subseteq P
    BY <1>1, <1>2, SetInduction
  <2> QED BY <2>1
<1>4. Until(m) = S
  BY DEF Until, Parts
<1> QED BY <1>3, <1>4

---------------------------------------------------------------------------
(* What the aggregates are.                                                    *)

Total(S) == FoldSet(LAMBDA r, sum : r.value + sum, 0, S)
AddedUp(groups, field) ==
  FoldSet(LAMBDA n, sum : groups[n].of[field] + sum, 0, DOMAIN groups)

LEMMA TotalFolds ==
  ASSUME NEW S, IsFiniteSet(S), \A r \in S : r.value \in Int
  PROVE  \E sum : Adds(sum, [r \in S |-> r.value], S) /\ Total(S) = sum[S]
<1> DEFINE g == [r \in S |-> r.value]
           Is(iter) == iter = [T \in SUBSET S |->
                                 IF T = {} THEN 0
                                 ELSE (CHOOSE x \in T : TRUE).value
                                        + iter[T \ {CHOOSE x \in T : TRUE}]]
           iter == CHOOSE iter : Is(iter)
<1>1. g \in [S -> Int]
  OBVIOUS
<1>2. PICK sum : sum = [T \in SUBSET S |-> sum[T]] /\ Sums(sum, g, S)
  <2> HIDE DEF g
  <2> QED BY <1>1, SumExists
<1>3. Is(sum)
  <2>1. \A T \in SUBSET S : T # {} => Pick(T) \in T /\ g[Pick(T)] = Pick(T).value
    BY DEF Pick
  <2> HIDE DEF g
  <2>2. \A T \in SUBSET S :
          Step(sum, g, T) = IF T = {} THEN 0 ELSE Pick(T).value + sum[T \ {Pick(T)}]
    BY <2>1 DEF Step
  <2>3. sum = [T \in SUBSET S |-> IF T = {} THEN 0 ELSE Pick(T).value + sum[T \ {Pick(T)}]]
    BY <1>2, <2>2 DEF Sums
  <2> QED BY <2>3, Zenon DEF Pick
<1>4. Is(iter)
  BY <1>3
<1>5. Total(S) = iter[S]
  BY DEF Total, FoldSet, MapThenFoldSet
<1> HIDE DEF iter
<1>6. Sums(iter, g, S)
  <2>1. \A T \in SUBSET S : T # {} => Pick(T) \in T /\ g[Pick(T)] = Pick(T).value
    BY DEF Pick
  <2>2. \A T \in SUBSET S :
          iter[T] = IF T = {} THEN 0 ELSE Pick(T).value + iter[T \ {Pick(T)}]
    BY <1>4 DEF Pick
  <2> HIDE DEF g
  <2> QED BY <2>1, <2>2 DEF Sums, Step
<1>7. Adds(iter, g, S)
  BY <1>1, <1>6, AnyOrder
<1> QED BY <1>5, <1>7

LEMMA GroupsFold ==
  ASSUME NEW groups, NEW field, IsFiniteSet(DOMAIN groups),
         \A n \in DOMAIN groups : groups[n].of[field] \in Int
  PROVE  \E sum : /\ Adds(sum, [n \in DOMAIN groups |-> groups[n].of[field]], DOMAIN groups)
                  /\ AddedUp(groups, field) = sum[DOMAIN groups]
<1> DEFINE S == DOMAIN groups
           g == [n \in S |-> groups[n].of[field]]
           Is(iter) == iter = [T \in SUBSET S |->
                                 IF T = {} THEN 0
                                 ELSE groups[CHOOSE x \in T : TRUE].of[field]
                                        + iter[T \ {CHOOSE x \in T : TRUE}]]
           iter == CHOOSE iter : Is(iter)
<1>1. g \in [S -> Int]
  OBVIOUS
<1>2. PICK sum : sum = [T \in SUBSET S |-> sum[T]] /\ Sums(sum, g, S)
  <2> HIDE DEF S, g
  <2> QED BY <1>1, SumExists DEF S
<1>3. Is(sum)
  <2>1. \A T \in SUBSET S : T # {} => Pick(T) \in T /\ g[Pick(T)] = groups[Pick(T)].of[field]
    BY DEF Pick
  <2> HIDE DEF g, S
  <2>2. \A T \in SUBSET S :
          Step(sum, g, T) = IF T = {} THEN 0
                            ELSE groups[Pick(T)].of[field] + sum[T \ {Pick(T)}]
    BY <2>1 DEF Step
  <2>3. sum = [T \in SUBSET S |-> IF T = {} THEN 0 ELSE groups[Pick(T)].of[field] + sum[T \ {Pick(T)}]]
    BY <1>2, <2>2 DEF Sums
  <2> QED BY <2>3, Zenon DEF Pick
<1>4. Is(iter)
  BY <1>3
<1>5. AddedUp(groups, field) = iter[S]
  BY DEF AddedUp, FoldSet, MapThenFoldSet
<1> HIDE DEF iter
<1>6. Sums(iter, g, S)
  <2>1. \A T \in SUBSET S : T # {} => Pick(T) \in T /\ g[Pick(T)] = groups[Pick(T)].of[field]
    BY DEF Pick
  <2>2. \A T \in SUBSET S :
          iter[T] = IF T = {} THEN 0 ELSE groups[Pick(T)].of[field] + iter[T \ {Pick(T)}]
    BY <1>4 DEF Pick
  <2> HIDE DEF g, S
  <2> QED BY <2>1, <2>2 DEF Sums, Step
<1>7. Adds(iter, g, S)
  <2> HIDE DEF g, S
  <2> QED BY <1>1, <1>6, AnyOrder DEF S
<1> QED BY <1>5, <1>7

(* Both aggregates of any part of the rows are sums of weights of the rows.    *)
LEMMA AggregateAdds ==
  ASSUME NEW S, Rows(S), NEW field \in {"count", "total"}
  PROVE  \E g \in [S -> Int] : \E sum :
           Adds(sum, g, S) /\ \A T \in SUBSET S : Aggregate(T)[field] = sum[T]
<1>1. /\ \A T \in SUBSET S : IsFiniteSet(T) /\ Cardinality(T) \in Nat
      /\ \A r \in S : r.value \in Int
  BY FS_Subset, FS_CardinalityType DEF Rows, IsContent
<1>2. CASE field = "count"
  <2> DEFINE g == [r \in S |-> 1]
             sum == [T \in SUBSET S |-> Cardinality(T)]
  <2>1. \A T \in SUBSET S : \A x \in T : Cardinality(T) = 1 + Cardinality(T \ {x})
    <3> TAKE T \in SUBSET S
    <3> TAKE x \in T
    <3>1. Cardinality(T) \in Nat /\ Cardinality(T \ {x}) = Cardinality(T) - 1
      BY <1>1, OneLess
    <3> QED BY <3>1
  <2>2. Adds(sum, g, S)
    <3>1. \A T \in SUBSET S : \A x \in T : g[x] = 1 /\ T \ {x} \in SUBSET S
      OBVIOUS
    <3>2. \A T \in SUBSET S : sum[T] = Cardinality(T)
      OBVIOUS
    <3>3. {} \in SUBSET S
      OBVIOUS
    <3> HIDE DEF sum, g
    <3> QED BY <1>1, <2>1, <3>1, <3>2, <3>3, FS_EmptySet DEF Adds
  <2>3. \A T \in SUBSET S : Aggregate(T)["count"] = Cardinality(T)
    BY DEF Aggregate
  <2>4. g \in [S -> Int] /\ \A T \in SUBSET S : Aggregate(T)[field] = sum[T]
    BY <1>2, <2>3
  <2> QED BY <2>2, <2>4
<1>3. CASE field = "total"
  <2> DEFINE g == [r \in S |-> r.value]
  <2>1. PICK sum : Adds(sum, g, S)
    BY <1>1, TotalFolds DEF Rows
  <2>2. ASSUME NEW T \in SUBSET S PROVE Aggregate(T)[field] = sum[T]
    <3> DEFINE h == [r \in T |-> r.value]
    <3>1. PICK part : Adds(part, h, T) /\ Total(T) = part[T]
      BY <1>1, TotalFolds
    <3>2. \A x \in T : g[x] = h[x]
      OBVIOUS
    <3> HIDE DEF g, h
    <3>3. sum[T] = part[T]
      BY <2>1, <3>1, <3>2, OneSum DEF Rows
    <3>4. Aggregate(T)["total"] = Total(T)
      BY DEF Aggregate, Total
    <3> QED BY <1>3, <3>1, <3>3, <3>4
  <2>3. g \in [S -> Int]
    BY <1>1
  <2> QED BY <2>1, <2>2, <2>3
<1> QED BY <1>2, <1>3

(* The keys of the groups, each once.                                          *)
SortedKeys(keys, S) ==
  keys = [n \in 1..Cardinality(S) |-> CHOOSE i \in S : Cardinality({j \in S : j < i}) = n - 1]

LEMMA KeysAre ==
  ASSUME NEW S \in SUBSET Int, IsFiniteSet(S), NEW keys, SortedKeys(keys, S)
  PROVE  /\ Cardinality(S) \in Nat /\ DOMAIN keys = 1..Cardinality(S)
         /\ \A m, n \in 1..Cardinality(S) : keys[m] = keys[n] => m = n
         /\ \A x \in S : \E n \in 1..Cardinality(S) : keys[n] = x
<1> DEFINE before == [n \in S |-> {i \in S : i < n}]
<1>1. Orders(before, S)
  <2>1. /\ before \in [S -> SUBSET S] /\ \A n, i \in S : i \in before[n] <=> i < n
        /\ \A n \in S : n \in Int
    OBVIOUS
  <2> HIDE DEF before
  <2>2. ASSUME NEW n \in S, NEW m \in S, m \in before[n] PROVE before[m] \subseteq before[n]
    <3> SUFFICES ASSUME NEW i \in before[m] PROVE i \in before[n]
      OBVIOUS
    <3>1. i \in S /\ i < m /\ m < n
      BY <2>1, <2>2
    <3>2. i < n
      BY <2>1, <3>1
    <3> QED BY <2>1, <3>1, <3>2
  <2> QED BY <2>1, <2>2 DEF Orders
<1>2. keys = [n \in 1..Cardinality(S) |->
                CHOOSE i \in S : Cardinality({j \in S : j < i}) = n - 1]
  BY DEF SortedKeys
<1>3. \A n \in 1..Cardinality(S) : keys[n] \in S /\ Cardinality(before[keys[n]]) = n - 1
  <2> TAKE n \in 1..Cardinality(S)
  <2>1. \E i \in S : Cardinality(before[i]) = n - 1
    <3> HIDE DEF before
    <3> QED BY <1>1, RankExists
  <2>2. \E i \in S : Cardinality({j \in S : j < i}) = n - 1
    BY <2>1
  <2>3. keys[n] = CHOOSE i \in S : Cardinality({j \in S : j < i}) = n - 1
    BY <1>2
  <2>4. keys[n] \in S /\ Cardinality({j \in S : j < keys[n]}) = n - 1
    BY <2>2, <2>3
  <2> QED BY <2>4
<1> HIDE DEF before
<1>4. Cardinality(S) \in Nat
  BY FS_CardinalityType
<1>5. DOMAIN keys = 1..Cardinality(S)
  BY <1>2
<1>6. /\ \A x \in S : \E n \in 1..Cardinality(S) : keys[n] = x
      /\ \A m, n \in 1..Cardinality(S) : m < n => keys[m] \in before[keys[n]]
  BY <1>1, <1>3, <1>5, ByRank
<1>7. ASSUME NEW m \in 1..Cardinality(S), NEW n \in 1..Cardinality(S), keys[m] = keys[n]
      PROVE  m = n
  <2>1. Cardinality(before[keys[m]]) = m - 1 /\ Cardinality(before[keys[m]]) = n - 1
    BY <1>3, <1>7
  <2> QED BY <1>4, <2>1
<1> QED BY <1>4, <1>5, <1>6, <1>7

(* Grouped rows: the groups' counts and totals add up to those of all rows.     *)
AggregatesOf(groups, group, m) ==
  DOMAIN groups = 1..m /\ \A i \in 1..m : groups[i].of = Aggregate(group[i])

LEMMA PartsAddUp ==
  ASSUME NEW S, Rows(S), NEW field \in {"count", "total"},
         NEW m, NEW group, Parts(group, m, S),
         NEW groups, AggregatesOf(groups, group, m)
  PROVE  AddedUp(groups, field) = Aggregate(S)[field]
<1> DEFINE of == [n \in DOMAIN groups |-> groups[n].of[field]]
<1>1. IsFiniteSet(S)
  BY DEF Rows
<1>2. PICK g \in [S -> Int] : \E sum :
        Adds(sum, g, S) /\ \A T \in SUBSET S : Aggregate(T)[field] = sum[T]
  BY AggregateAdds
<1>3. PICK sum : Adds(sum, g, S) /\ \A T \in SUBSET S : Aggregate(T)[field] = sum[T]
  BY <1>2
<1>4. \A i \in 1..m : groups[i].of[field] = sum[group[i]] /\ sum[group[i]] \in Int
  <2> TAKE i \in 1..m
  <2>1. group[i] \in SUBSET S
    BY DEF Parts
  <2> QED BY <1>3, <2>1 DEF Adds, AggregatesOf
<1>5. IsFiniteSet(DOMAIN groups)
  BY FS_Interval DEF Parts, AggregatesOf
<1>6. PICK up : Adds(up, of, DOMAIN groups) /\ AddedUp(groups, field) = up[DOMAIN groups]
  BY <1>4, <1>5, GroupsFold DEF AggregatesOf
<1>7. \A i \in 1..m : of[i] = sum[group[i]]
  BY <1>4 DEF AggregatesOf
<1> HIDE DEF of
<1>8. Adds(up, of, 1..m) /\ Adds(sum, g, S) /\ g \in [S -> Int]
  BY <1>2, <1>3, <1>6 DEF AggregatesOf
<1>9. up[1..m] = sum[S]
  BY <1>1, <1>7, <1>8, GroupsAddUp
<1> QED BY <1>3, <1>6, <1>9 DEF AggregatesOf

GroupedBy(groups, keys, key, S) ==
  groups = [n \in DOMAIN keys |->
              [key |-> keys[n], of |-> Aggregate({r \in S : key[r] = keys[n]})]]

LEMMA AllGroups ==
  ASSUME NEW S, Rows(S), NEW key \in [S -> Int], NEW field \in {"count", "total"},
         NEW groups, NEW keys, SortedKeys(keys, {key[r] : r \in S}),
         GroupedBy(groups, keys, key, S)
  PROVE  AddedUp(groups, field) = Aggregate(S)[field]
<1> DEFINE K == {key[r] : r \in S}
           m == Cardinality(K)
           group == [i \in 1..m |-> {r \in S : key[r] = keys[i]}]
<1>1. K \in SUBSET Int /\ IsFiniteSet(K)
  <2>1. key \in Surjection(S, K)
    BY DEF Surjection
  <2>2. IsFiniteSet(K)
    BY <2>1, FS_Surjection DEF Rows
  <2> QED BY <2>2
<1> HIDE DEF K
<1>2. /\ m \in Nat /\ DOMAIN keys = 1..m
      /\ \A i, j \in 1..m : keys[i] = keys[j] => i = j
      /\ \A x \in K : \E n \in 1..m : keys[n] = x
  BY <1>1, KeysAre DEF K
<1>3. \A r \in S : \E i \in 1..m : keys[i] = key[r]
  BY <1>2 DEF K
<1> HIDE DEF m
<1>4. Parts(group, m, S)
  <2>1. \A i \in 1..m : \A r \in S : r \in group[i] <=> key[r] = keys[i]
    OBVIOUS
  <2>2. \A i \in 1..m : group[i] \in SUBSET S
    OBVIOUS
  <2> HIDE DEF group
  <2> QED BY <1>2, <1>3, <2>1, <2>2 DEF Parts
<1>5. AggregatesOf(groups, group, m)
  BY <1>2 DEF GroupedBy, AggregatesOf
<1> HIDE DEF group
<1> QED BY <1>4, <1>5, PartsAddUp

---------------------------------------------------------------------------
(* The counts of the pages.                                                    *)

LEMMA CategoriesAddUp ==
  ASSUME NEW rows, NEW query, NEW field \in {"count", "total"}, NEW S, Rows(S),
         S = Filtered(rows, [AnalyticsFilters(query) EXCEPT !.category = {}])
  PROVE  AddedUp(ByCategory(rows, query), field) = Aggregate(S)[field]
<1> DEFINE key == [r \in S |-> r.category]
           K == {r.category : r \in S}
           keys == [n \in 1..Cardinality(K) |->
                      CHOOSE i \in K : Cardinality({j \in K : j < i}) = n - 1]
           groups == [n \in DOMAIN keys |->
                        [key |-> keys[n], of |-> Aggregate({r \in S : r.category = keys[n]})]]
<1>1. key \in [S -> Int] /\ K = {key[r] : r \in S}
  BY DEF Rows, IsContent
<1>2. groups = ByCategory(rows, query)
  BY DEF ByCategory, Grouped, Ranked
<1> HIDE DEF keys
<1>3. \A n \in DOMAIN keys : {r \in S : r.category = keys[n]} = {r \in S : key[r] = keys[n]}
  OBVIOUS
<1>4. GroupedBy(groups, keys, key, S)
  <2> HIDE DEF key
  <2> QED BY <1>3 DEF GroupedBy
<1>5. SortedKeys(keys, {key[r] : r \in S})
  <2>1. SortedKeys(keys, K)
    BY DEF SortedKeys, keys
  <2> QED BY <1>1, <2>1
<1> HIDE DEF key, groups
<1>6. AddedUp(groups, field) = Aggregate(S)[field]
  BY <1>1, <1>4, <1>5, AllGroups
<1> QED BY <1>2, <1>6

LEMMA BucketsAddUp ==
  ASSUME NEW rows, NEW query, NEW field \in {"count", "total"}, NEW S, Rows(S),
         S = Filtered(rows, AnalyticsFilters(query)),
         NEW interval \in {"minute", "hour", "day"},
         interval = Given(Param(query, "interval"), "minute")
  PROVE  AddedUp(Trend(rows, query), field) = Aggregate(S)[field]
<1> DEFINE key == [r \in S |-> Bucket(r.timestamp, interval)]
           K == {Bucket(r.timestamp, interval) : r \in S}
           keys == [n \in 1..Cardinality(K) |->
                      CHOOSE i \in K : Cardinality({j \in K : j < i}) = n - 1]
           groups == [n \in DOMAIN keys |->
                        [key |-> keys[n],
                         of |-> Aggregate({r \in S : Bucket(r.timestamp, interval) = keys[n]})]]
<1>1. key \in [S -> Int] /\ K = {key[r] : r \in S}
  <2>1. ASSUME NEW t \in Int PROVE Bucket(t, interval) \in Int
    <3> DEFINE width == CASE interval = "minute" -> 1
                          [] interval = "hour" -> HourLength
                          [] interval = "day" -> DayLength
    <3>1. width \in Nat \ {0}
      BY QueriesAssumption
    <3> HIDE DEF width
    <3>2. (t \div width) * width \in Int
      BY <3>1
    <3> QED BY <3>2 DEF Bucket, width
  <2>2. \A r \in S : Bucket(r.timestamp, interval) \in Int
    BY <2>1 DEF Rows, IsContent
  <2> QED BY <2>2
<1>2. groups = Trend(rows, query)
  BY DEF Trend, Grouped, Ranked
<1> HIDE DEF keys
<1>3. \A n \in DOMAIN keys :
        {r \in S : Bucket(r.timestamp, interval) = keys[n]} = {r \in S : key[r] = keys[n]}
  OBVIOUS
<1>4. GroupedBy(groups, keys, key, S)
  <2> HIDE DEF key
  <2> QED BY <1>3 DEF GroupedBy
<1>5. SortedKeys(keys, {key[r] : r \in S})
  <2>1. SortedKeys(keys, K)
    BY DEF SortedKeys, keys
  <2> HIDE DEF keys
  <2> QED BY <1>1, <2>1
<1> HIDE DEF key, groups
<1>6. AddedUp(groups, field) = Aggregate(S)[field]
  BY <1>1, <1>4, <1>5, AllGroups
<1> QED BY <1>2, <1>6

(* The realtime history has the newest reading on top.                         *)
LEMMA HistoryIs ==
  ASSUME TypeOK
  PROVE  LET history == ListRecords(table, HistoryQuery(1, MaxPageSize, {}))
             status == DatabaseStatus(table)
         IN  /\ history.total = status.realtime_records
             /\ status.latest_realtime_timestamp =
                  {history.items[n].timestamp : n \in DOMAIN history.items \cap {1}}
<1> DEFINE query == HistoryQuery(1, MaxPageSize, {})
           history == ListRecords(table, query)
           status == DatabaseStatus(table)
           realtime == {r \in table : r.source = "REALTIME"}
           seq == Listed(realtime, "timestamp", "desc")
           items == Window(seq, 1, MaxPageSize)
           total == Cardinality(realtime)
<1>1. Filtered(table, RecordFilters(query)) = realtime
  BY DEF Filtered, RecordFilters, Param, HistoryQuery, BuildQuery
<1>2. Rows(realtime)
  BY <1>1, TableRows, SomeRows
<1>3. MaxPageSize \in Nat \ {0}
  BY QueriesAssumption
<1>4. /\ Given(Param(query, "page"), 1) = 1
      /\ Given(Param(query, "page_size"), 20) = MaxPageSize
      /\ Given(Param(query, "sort_by"), "timestamp") = "timestamp"
      /\ Given(Param(query, "order"), "desc") = "desc"
  BY DEF Given, Param, HistoryQuery, BuildQuery
<1>5. history.total = total /\ history.items = items
  <2> HIDE DEF query, seq, items, realtime
  <2>1. ~(1 < 1 \/ MaxPageSize \notin 1..MaxPageSize)
    BY <1>3
  <2>2. history = [ok |-> TRUE, items |-> items, total |-> total,
                   page |-> 1, page_size |-> MaxPageSize, pages |-> Ceiling(total, MaxPageSize)]
    BY <1>1, <1>4, <2>1, Zenon DEF ListRecords, items, seq
  <2> HIDE DEF history
  <2> QED BY <2>2
<1>6. /\ seq \in Seq(realtime) /\ Len(seq) = total /\ total \in Nat
      /\ \A n \in 1..total : seq[n] \in realtime
      /\ \A r \in realtime : \E n \in 1..total : seq[n] = r
      /\ \A m, n \in 1..total : m < n => seq[m].timestamp >= seq[n].timestamp
  <2> HIDE DEF realtime, total, query
  <2>1. "timestamp" \in SortFields
    BY DEF SortFields
  <2>2. /\ Lists(seq, realtime)
        /\ \A m, n \in 1..Cardinality(realtime) : m < n =>
             IF "desc" = "asc" THEN seq[m]["timestamp"] <= seq[n]["timestamp"]
                               ELSE seq[m]["timestamp"] >= seq[n]["timestamp"]
    BY <1>2, <2>1, ListedIs
  <2> HIDE DEF seq
  <2> QED BY <2>2 DEF Lists, total
<1>7. \A r \in realtime : r.timestamp \in Int
  BY <1>2 DEF Rows, IsContent
<1> HIDE DEF seq, realtime, total
<1>8. items \in Seq(realtime)
      /\ (total = 0 => Len(items) = 0)
      /\ (total # 0 => Len(items) \in Nat \ {0} /\ items[1] = seq[1])
  <2> DEFINE p == 1
             from == (p - 1) * MaxPageSize
             window == Window(seq, p, MaxPageSize)
  <2>1. from = 0 /\ p \in Nat \ {0} /\ items = window
    BY <1>3
  <2> HIDE DEF p, items
  <2>2. LET k == IF from >= Len(seq) THEN 0 ELSE Lesser(MaxPageSize, Len(seq) - from)
        IN  /\ k \in 0..MaxPageSize /\ (k = 0 <=> from >= Len(seq))
            /\ window \in Seq(realtime) /\ Len(window) = k
            /\ \A n \in 1..k : window[n] = seq[from + n] /\ from + n \in 1..Len(seq)
    BY <1>3, <1>6, <2>1, WindowIs, Zenon
  <2> DEFINE k == IF from >= Len(seq) THEN 0 ELSE Lesser(MaxPageSize, Len(seq) - from)
  <2>3. /\ k \in 0..MaxPageSize /\ (k = 0 <=> from >= Len(seq))
        /\ window \in Seq(realtime) /\ Len(window) = k
        /\ \A n \in 1..k : window[n] = seq[from + n]
    BY <2>2
  <2> HIDE DEF k, from, window
  <2>4. items \in Seq(realtime) /\ Len(items) = k
    BY <2>1, <2>3
  <2>5. (total = 0 <=> k = 0) /\ k \in Nat
    BY <1>3, <1>6, <2>1, <2>3
  <2>6. k # 0 => items[1] = seq[1]
    <3>1. k # 0 => 1 \in 1..k /\ from + 1 = 1
      BY <2>1, <2>5
    <3> QED BY <2>1, <2>3, <3>1
  <2> QED BY <2>4, <2>5, <2>6
<1>9. DOMAIN items = 1..Len(items)
  BY <1>8, LenProperties
<1> HIDE DEF items
<1>10. status.latest_realtime_timestamp = Most({r.timestamp : r \in realtime})
       /\ status.realtime_records = total
  BY DEF DatabaseStatus, realtime, total
<1> HIDE DEF status, history
<1>11. ASSUME total = 0
       PROVE  Most({r.timestamp : r \in realtime})
                = {items[n].timestamp : n \in DOMAIN items \cap {1}}
  <2>1. realtime = {} /\ DOMAIN items = {}
    BY <1>6, <1>8, <1>9, <1>11
  <2>2. Most({r.timestamp : r \in realtime}) = {}
    BY <2>1 DEF Most
  <2>3. {items[n].timestamp : n \in DOMAIN items \cap {1}} = {}
    BY <2>1
  <2> QED BY <2>2, <2>3
<1>12. ASSUME total # 0
       PROVE  Most({r.timestamp : r \in realtime})
                = {items[n].timestamp : n \in DOMAIN items \cap {1}}
  <2>1. 1 \in 1..total /\ seq[1] \in realtime /\ items[1] = seq[1]
        /\ DOMAIN items \cap {1} = {1}
    BY <1>6, <1>8, <1>9, <1>12
  <2>2. \A r \in realtime : seq[1].timestamp >= r.timestamp
    <3> TAKE r \in realtime
    <3>1. PICK n \in 1..total : seq[n] = r
      BY <1>6
    <3>2. CASE n = 1
      BY <1>7, <3>1, <3>2
    <3>3. CASE n # 1
      BY <1>6, <2>1, <3>1, <3>3
    <3> QED BY <3>2, <3>3
  <2>3. Most({r.timestamp : r \in realtime}) = {seq[1].timestamp}
    BY <1>7, <2>1, <2>2 DEF Most
  <2>4. {items[n].timestamp : n \in DOMAIN items \cap {1}} = {seq[1].timestamp}
    BY <2>1
  <2> QED BY <2>3, <2>4
<1> QED BY <1>5, <1>10, <1>11, <1>12 DEF status, history

(* The other pages count what the records page lists.                          *)
LEMMA CountsAre ==
  ASSUME TypeOK
  PROVE  CountsAgree
<1> DEFINE f == RequestFilters(widgets)
           some == [f EXCEPT !.category = {}]
           summary == Summary(table, AnalyticsQuery(f, {}))
           all == Summary(table, AnalyticsQuery(some, {}))
           intervals == {"minute", "hour", "day"}
<1>1. \E c, s, from, to : f = [category |-> c, source |-> s, start |-> from, end |-> to]
  BY DEF RequestFilters
<1>2. \A i : AnalyticsFilters(AnalyticsQuery(f, i)) = f
  BY <1>1 DEF AnalyticsFilters, AnalyticsQuery, Param
<1>3. \A i : AnalyticsFilters(AnalyticsQuery(some, i)) = some
  BY <1>1 DEF AnalyticsFilters, AnalyticsQuery, Param
<1>4. Rows(Wanted) /\ Filtered(table, f) = Wanted /\ Rows(Filtered(table, some))
  BY TableRows, SomeRows, FoundIsWanted
<1> HIDE DEF f, some
<1>5. summary = Aggregate(Wanted) /\ all = Aggregate(Filtered(table, some))
  BY <1>2, <1>3, <1>4 DEF Summary
<1>6. Filtered(table, some)
        = Filtered(table, [AnalyticsFilters(AnalyticsQuery(f, {})) EXCEPT !.category = {}])
  BY <1>2 DEF some
<1>7. \A interval : Given(Param(AnalyticsQuery(f, {interval}), "interval"), "minute") = interval
  BY DEF Given, Param, AnalyticsQuery
<1> HIDE DEF summary, all
<1>8. ASSUME NEW field \in {"count", "total"}
      PROVE  /\ AddedUp(ByCategory(table, AnalyticsQuery(f, {})), field) = all[field]
             /\ \A interval \in intervals :
                  AddedUp(Trend(table, AnalyticsQuery(f, {interval})), field) = summary[field]
  <2>1. AddedUp(ByCategory(table, AnalyticsQuery(f, {})), field) = all[field]
    BY <1>4, <1>5, <1>6, CategoriesAddUp
  <2>2. ASSUME NEW interval \in intervals
        PROVE  AddedUp(Trend(table, AnalyticsQuery(f, {interval})), field) = summary[field]
    <3> DEFINE query == AnalyticsQuery(f, {interval})
    <3>1. Wanted = Filtered(table, AnalyticsFilters(query))
          /\ interval = Given(Param(query, "interval"), "minute")
      BY <1>2, <1>4, <1>7
    <3> HIDE DEF query
    <3>2. AddedUp(Trend(table, query), field) = Aggregate(Wanted)[field]
      BY <1>4, <3>1, BucketsAddUp
    <3> QED BY <1>5, <3>2 DEF query
  <2> QED BY <2>1, <2>2
<1> QED BY <1>5, <1>8, HistoryIs, Zenon DEF CountsAgree, AddedUp, f, some, summary, all

(* The summary is over the wanted records, the categories and the buckets of the  *)
(* trend add up to it in count and total for each interval, and the realtime      *)
(* history starts with the reading the database status reports, for any filters   *)
(* and any number of records (crud/analytics.py:49-159, admin.py:241-254).         *)
THEOREM PagesCountTheSame == Spec => []CountsAgree
<1> QED BY PageTypeOK, CountsAre, PTL
=============================================================================
