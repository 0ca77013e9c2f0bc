--------------------------- MODULE LogStoreProofs ---------------------------
(***************************************************************************)
(* The request log, for any number of entries, cuts, crashes and sweeps    *)
(* and for caches of any size.                                             *)
(***************************************************************************)
EXTENDS LogStore, FiniteSetTheorems, WellFoundedInduction, TLAPS

-----------------------------------------------------------------------------
(* The inductive invariant *)

Holds(r) == stage[r] \in {"filed", "indexed"}

\* Who has the store's lock has it alone, and a dead process does nothing.
LockFits ==
    /\ \A q, r \in Requests : Holds(q) /\ Holds(r) => q = r
    /\ sweep \in {"start", "prune"} => \A r \in Requests : ~Holds(r)
    /\ ~up => sweep = "idle" /\ \A r \in Requests : stage[r] # "stamped" /\ ~Holds(r)

\* An entry has its time from Stamp on, and no sweep is ahead of the clock.
TimesFit ==
    /\ \A r \in Requests : stage[r] # "open" => stamp[r] \in 1..now
    /\ cutoff <= CutoffDay

Lists(r, i) == index[i].readable /\ index[i].id = r
IsListed(r) == \E i \in DOMAIN index : Lists(r, i)

\* A line tells its entry's time, and its file is there unless a sweep took it.
LineFits(l) ==
    l.id # Garbage =>
        /\ stage[l.id] # "open" /\ l.time = stamp[l.id]
        /\ l.readable => Expired(l.id) \/ l.id \in files
FilesFit ==
    /\ \A r \in Requests : Holds(r) => r \in files
    /\ \A i \in DOMAIN index : LineFits(index[i])

\* The entries that should be listed and are not.
Lost == {r \in Requests : stage[r] \in {"indexed", "logged"} /\ ~Expired(r) /\ ~IsListed(r)}

\* Each cut costs an entry, or else can still do so: the line it is in is then the
\* last, and of an entry that was given up.
CutsFit ==
    /\ IsFiniteSet(Lost)
    /\ Cardinality(Lost) + (IF tail = "none" THEN 0 ELSE 1) <= torn
    /\ tail # "none" => /\ index # <<>>
                        /\ index[Len(index)].id = Garbage \/ stage[index[Len(index)].id] = "unlogged"

\* c is the end of rows, and short only if rows is.
EndOf(c, rows) ==
    /\ Len(c) <= Len(rows) /\ (CacheMin <= Len(c) \/ Len(c) = Len(rows))
    /\ \A i \in DOMAIN c : c[i] = rows[Len(rows) - Len(c) + i]
RowOf(r) == [id |-> r, time |-> stamp[r]]

\* The cache is the end of the index, or of what it was before the line of an
\* entry that is about to be cached.
CacheFits ==
    up /\ torn = 0 =>
        \/ EndOf(cache, ReadRows(index)) /\ \A r \in Requests : stage[r] # "indexed"
        \/ \E r \in Requests, rows \in Seq(Row) :
            /\ stage[r] = "indexed" /\ EndOf(cache, rows)
            /\ ReadRows(index) = Append(rows, RowOf(r))

LogInv == LogTypeOK /\ LockFits /\ TimesFit /\ FilesFit /\ CutsFit /\ CacheFits

-----------------------------------------------------------------------------
(* Numbers *)

\* Every set of naturals that is not empty has a least one: what an induction over
\* the length of a list comes down to.
LEMMA LeastNumber ==
    ASSUME NEW T, T \subseteq Nat, T # {}
    PROVE  \E n \in T : \A m \in T : n <= m
<1>. DEFINE R == {ss \in Nat \X Nat : ss[1] < ss[2]}
<1>1. OpToRel(<, Nat) = R
  BY Zenon DEF OpToRel
<1>2. \E n \in T : \A m \in T : <<m, n>> \notin OpToRel(<, Nat)
  BY WFMin, NatLessThanWellFounded
<1>3. PICK n \in T : \A m \in T : <<m, n>> \notin R
  BY <1>1, <1>2, Zenon
<1>4. \A m \in Nat : m < n => <<m, n>> \in R
  BY n \in Nat
<1>. HIDE DEF R
<1>5. \A m \in T : ~(m < n)
  BY <1>3, <1>4
<1>. QED  BY <1>5

LEMMA MinIsLeast ==
    ASSUME NEW S, S \subseteq Nat, S # {}
    PROVE  Min(S) \in S /\ \A n \in S : Min(S) <= n
<1>1. \E m \in S : \A n \in S : m <= n
  BY LeastNumber
<1>. QED  BY <1>1 DEF Min

LEMMA MaxIsGreatest ==
    ASSUME NEW N \in Nat, NEW S, S \subseteq 0..N, S # {}
    PROVE  Max(S) \in S /\ \A n \in S : n <= Max(S)
<1>. DEFINE T == {m \in Nat : N - m \in S}
<1>1. \E m \in T : \A n \in T : m <= n
  <2>1. PICK n \in S : TRUE
    OBVIOUS
  <2>2. N - n \in T
    BY N - (N - n) = n
  <2>. QED  BY <2>2, LeastNumber
<1>2. PICK m \in T : \A n \in T : m <= n
  BY <1>1
<1>3. \A n \in S : N - n \in T
  BY \A n \in S : N - (N - n) = n
<1>4. N - m \in S /\ \A n \in S : n <= N - m
  BY <1>2, <1>3
<1>5. \E x \in S : \A y \in S : x >= y
  BY <1>4
<1>. QED  BY <1>5 DEF Max

\* Later times are not on earlier days.
LEMMA DayGrows ==
    ASSUME NEW t \in Nat, NEW u \in Nat, t <= u
    PROVE  Day(t) \in Nat /\ Day(u) \in Nat /\ Day(t) <= Day(u)
  BY LogAssumption DEF Day

-----------------------------------------------------------------------------
(* What is chosen from a list *)

LEMMA ListGrows ==
    ASSUME NEW S, NEW s \in Seq(S), NEW x \in S
    PROVE  /\ Append(s, x) \in Seq(S) /\ Len(s) \in Nat /\ Len(Append(s, x)) = Len(s) + 1
           /\ DOMAIN s = 1..Len(s) /\ DOMAIN Append(s, x) = 1..(Len(s) + 1)
           /\ Append(s, x)[Len(s) + 1] = x
           /\ \A i \in 1..Len(s) : Append(s, x)[i] = s[i]
  OBVIOUS

LEMMA ListChanges ==
    ASSUME NEW S, NEW s \in Seq(S), NEW n \in DOMAIN s, NEW x \in S
    PROVE  /\ [s EXCEPT ![n] = x] \in Seq(S) /\ Len([s EXCEPT ![n] = x]) = Len(s)
           /\ \A i \in DOMAIN s : i # n => [s EXCEPT ![n] = x][i] = s[i]
           /\ [s EXCEPT ![n] = x][n] = x
<1>. DEFINE t == [s EXCEPT ![n] = x]
<1>1. /\ Len(s) \in Nat /\ DOMAIN s = 1..Len(s) /\ DOMAIN t = DOMAIN s
      /\ t = [i \in 1..Len(s) |-> t[i]] /\ \A i \in DOMAIN s : t[i] = IF i = n THEN x ELSE s[i]
      /\ \A i \in DOMAIN s : s[i] \in S
  OBVIOUS
<1>. HIDE DEF t
<1>2. t \in [1..Len(s) -> S]
  BY <1>1
<1>3. t \in Seq(S) /\ Len(t) = Len(s)
  BY <1>1, <1>2
<1>. QED  BY <1>1, <1>3 DEF t

LEMMA SameLists ==
    ASSUME NEW S, NEW s \in Seq(S), NEW t \in Seq(S), Len(s) = Len(t),
           \A i \in 1..Len(s) : s[i] = t[i]
    PROVE  s = t
  OBVIOUS

\* chosen is the function by which Chosen goes through the first n elements of s.
Chooses(chosen, s, keep, n) ==
    chosen = [i \in 0..n |->
                 IF i = 0 THEN <<>>
                 ELSE IF s[i] \in keep THEN Append(chosen[i - 1], s[i]) ELSE chosen[i - 1]]

LEMMA ChoosesStep ==
    ASSUME NEW s, NEW keep, NEW n \in Nat, NEW g, Chooses(g, s, keep, n)
    PROVE  \E f : Chooses(f, s, keep, n + 1)
<1>. DEFINE next == IF s[n + 1] \in keep THEN Append(g[n], s[n + 1]) ELSE g[n]
            f == [i \in 0..(n + 1) |-> IF i = n + 1 THEN next ELSE g[i]]
<1>1. \A i \in 0..n : g[i] = IF i = 0 THEN <<>>
                             ELSE IF s[i] \in keep THEN Append(g[i - 1], s[i]) ELSE g[i - 1]
  BY Zenon DEF Chooses
<1>. HIDE DEF next
<1>2. /\ \A i \in 0..n : f[i] = g[i]
      /\ f[n + 1] = next /\ f = [i \in 0..(n + 1) |-> f[i]]
  OBVIOUS
<1>. HIDE DEF f
<1>3. \A i \in 0..(n + 1) : f[i] = IF i = 0 THEN <<>>
                                   ELSE IF s[i] \in keep THEN Append(f[i - 1], s[i]) ELSE f[i - 1]
  <2>. TAKE i \in 0..(n + 1)
  <2>1. CASE i = n + 1
    BY <1>2, <2>1 DEF next
  <2>2. CASE i # n + 1
    <3>1. i \in 0..n /\ (i # 0 => i - 1 \in 0..n)
      BY <2>2
    <3>. QED  BY <1>1, <1>2, <3>1
  <2>. QED  BY <2>1, <2>2
<1>4. Chooses(f, s, keep, n + 1)
  BY <1>2, <1>3, Zenon DEF Chooses
<1>. QED  BY <1>4

LEMMA ChoosesExists ==
    ASSUME NEW s, NEW keep, NEW n \in Nat
    PROVE  \E f : Chooses(f, s, keep, n)
<1>. DEFINE Bad == {m \in Nat : ~\E f : Chooses(f, s, keep, m)}
<1>. SUFFICES ASSUME Bad # {} PROVE FALSE
  OBVIOUS
<1>1. PICK m \in Bad : \A k \in Bad : m <= k
  BY LeastNumber
<1>2. CASE m = 0
  <2>1. Chooses([i \in 0..0 |-> <<>>], s, keep, 0)
    BY DEF Chooses
  <2>. QED  BY <1>2, <2>1
<1>3. CASE m # 0
  <2>1. m - 1 \in Nat /\ m - 1 \notin Bad /\ m = (m - 1) + 1
    BY <1>1, <1>3
  <2>2. \E f : Chooses(f, s, keep, m - 1)
    BY <2>1
  <2>3. \E f : Chooses(f, s, keep, (m - 1) + 1)
    BY <2>1, <2>2, ChoosesStep
  <2>. QED  BY <2>1, <2>3
<1>. QED  BY <1>2, <1>3

LEMMA ChosenIs ==
    ASSUME NEW s, NEW keep, Len(s) \in Nat
    PROVE  \E f : Chooses(f, s, keep, Len(s)) /\ Chosen(s, keep) = f[Len(s)]
<1>1. \E f : Chooses(f, s, keep, Len(s))
  BY ChoosesExists
<1>. QED  BY <1>1, Zenon DEF Chosen, Chooses

\* What it has at i follows from what it has before i.
ChoosesAt(f, s, keep, i) ==
    f[i] = IF i = 0 THEN <<>> ELSE IF s[i] \in keep THEN Append(f[i - 1], s[i]) ELSE f[i - 1]

LEMMA ChoosesEverywhere ==
    ASSUME NEW s, NEW keep, NEW n \in Nat, NEW f, Chooses(f, s, keep, n)
    PROVE  \A i \in 0..n : ChoosesAt(f, s, keep, i)
  BY Zenon DEF Chooses, ChoosesAt

\* What is chosen from a list of elements of S is a list of those of them that are
\* in keep, and has every one of them.
LEMMA ChosenElements ==
    ASSUME NEW S, NEW s \in Seq(S), NEW keep
    PROVE  /\ Chosen(s, keep) \in Seq(S \cap keep)
           /\ \A j \in DOMAIN Chosen(s, keep) : \E i \in DOMAIN s : Chosen(s, keep)[j] = s[i]
           /\ \A i \in DOMAIN s : s[i] \in keep =>
                \E j \in DOMAIN Chosen(s, keep) : Chosen(s, keep)[j] = s[i]
<1>1. PICK f : Chooses(f, s, keep, Len(s)) /\ Chosen(s, keep) = f[Len(s)]
  BY ChosenIs
<1>. DEFINE Good(m) ==
        /\ f[m] \in Seq(S \cap keep)
        /\ \A j \in DOMAIN f[m] : \E i \in 1..m : f[m][j] = s[i]
        /\ \A i \in 1..m : s[i] \in keep => \E j \in DOMAIN f[m] : f[m][j] = s[i]
     Bad == {m \in 0..Len(s) : ~Good(m)}
<1>2. \A m \in 0..Len(s) : ChoosesAt(f, s, keep, m)
  BY <1>1, Len(s) \in Nat, ChoosesEverywhere
<1>3. Good(0)
  <2>1. f[0] = <<>>
    BY <1>2, 0 \in 0..Len(s) DEF ChoosesAt
  <2>. QED  BY <2>1
<1>4. ASSUME NEW m \in 1..Len(s), Good(m - 1) PROVE Good(m)
  <2>1. m - 1 \in 0..Len(s) /\ m \in 0..Len(s) /\ m # 0 /\ 1..m = 1..(m - 1) \cup {m} /\ s[m] \in S
    OBVIOUS
  <2>2. CASE s[m] \in keep
    <3>. DEFINE g == f[m - 1]
    <3>1. f[m] = Append(g, s[m]) /\ g \in Seq(S \cap keep)
      BY <1>2, <1>4, <2>1, <2>2 DEF ChoosesAt
    <3>2. /\ \A j \in DOMAIN g : \E i \in 1..(m - 1) : g[j] = s[i]
          /\ \A i \in 1..(m - 1) : s[i] \in keep => \E j \in DOMAIN g : g[j] = s[i]
      BY <1>4
    <3>. HIDE DEF g
    <3>3. /\ f[m] \in Seq(S \cap keep) /\ Len(g) \in Nat /\ DOMAIN g = 1..Len(g)
          /\ DOMAIN f[m] = 1..(Len(g) + 1) /\ f[m][Len(g) + 1] = s[m]
          /\ \A j \in 1..Len(g) : f[m][j] = g[j]
      BY <2>1, <2>2, <3>1
    <3>4. \A j \in DOMAIN f[m] : \E i \in 1..m : f[m][j] = s[i]
      BY <2>1, <3>2, <3>3
    <3>5. \A i \in 1..m : s[i] \in keep => \E j \in DOMAIN f[m] : f[m][j] = s[i]
      <4>. SUFFICES ASSUME NEW i \in 1..m, s[i] \in keep PROVE \E j \in 1..(Len(g) + 1) : f[m][j] = s[i]
        BY <3>3
      <4>1. CASE i = m
        BY <3>3, <4>1, Len(g) + 1 \in 1..(Len(g) + 1)
      <4>2. CASE i # m
        <5>1. PICK j \in 1..Len(g) : g[j] = s[i]
          BY <2>1, <3>2, <3>3, <4>2
        <5>. QED  BY <3>3, <5>1
      <4>. QED  BY <4>1, <4>2
    <3>. QED  BY <3>3, <3>4, <3>5
  <2>3. CASE s[m] \notin keep
    <3>1. f[m] = f[m - 1]
      BY <1>2, <2>1, <2>3 DEF ChoosesAt
    <3>. QED  BY <1>4, <2>1, <2>3, <3>1
  <2>. QED  BY <2>2, <2>3
<1>. HIDE DEF Good
<1>5. Bad = {}
  <2>. SUFFICES ASSUME Bad # {} PROVE FALSE
    OBVIOUS
  <2>0. Bad \subseteq Nat
    OBVIOUS
  <2>1. PICK m \in Bad : \A k \in Bad : m <= k
    BY <2>0, LeastNumber, Zenon
  <2>2. m # 0
    BY <1>3, <2>1
  <2>3. m \in 1..Len(s) /\ m - 1 \in 0..Len(s) /\ m - 1 \notin Bad
    BY <2>1, <2>2
  <2>. QED  BY <1>4, <2>1, <2>3
<1>6. Good(Len(s)) /\ DOMAIN s = 1..Len(s)
  BY <1>5, Len(s) \in 0..Len(s)
<1>7. Chosen(s, keep) = f[Len(s)]
  BY <1>1
<1>. QED  BY <1>6, <1>7, Zenon DEF Good

\* An element more is chosen or not, whatever came before.
LEMMA ChosenGrows ==
    ASSUME NEW S, NEW s \in Seq(S), NEW x \in S, NEW keep
    PROVE  Chosen(Append(s, x), keep) = IF x \in keep THEN Append(Chosen(s, keep), x) ELSE Chosen(s, keep)
<1>. DEFINE t == Append(s, x)  n == Len(s)
<1>1. n \in Nat /\ Len(t) = n + 1 /\ t[n + 1] = x /\ \A i \in 1..n : t[i] = s[i]
  OBVIOUS
<1>2. PICK f : Chooses(f, s, keep, n) /\ Chosen(s, keep) = f[n]
  BY ChosenIs
<1>. HIDE DEF t
<1>3. PICK g : Chooses(g, t, keep, n + 1) /\ Chosen(t, keep) = g[n + 1]
  BY <1>1, ChosenIs
<1>. DEFINE Bad == {m \in 0..n : f[m] # g[m]}
<1>4. \A m \in 0..n : ChoosesAt(f, s, keep, m)
  BY <1>1, <1>2, ChoosesEverywhere
<1>5. \A m \in 0..(n + 1) : ChoosesAt(g, t, keep, m)
  BY <1>1, <1>3, n + 1 \in Nat, ChoosesEverywhere
<1>. HIDE DEF n
<1>6. Bad = {}
  <2>. SUFFICES ASSUME Bad # {} PROVE FALSE
    OBVIOUS
  <2>0. Bad \subseteq Nat
    BY <1>1
  <2>1. PICK m \in Bad : \A k \in Bad : m <= k
    BY <2>0, LeastNumber, Zenon
  <2>2. m # 0
    BY <1>1, <1>4, <1>5, <2>1 DEF ChoosesAt
  <2>3. m \in 1..n /\ m - 1 \in 0..n /\ m - 1 \notin Bad /\ m \in 0..(n + 1)
    BY <1>1, <2>1, <2>2
  <2>4. f[m - 1] = g[m - 1] /\ s[m] = t[m]
    BY <1>1, <2>3
  <2>5. f[m] = g[m]
    BY <1>4, <1>5, <2>2, <2>3, <2>4 DEF ChoosesAt
  <2>. QED  BY <2>1, <2>5
<1>7. f[n] = g[n] /\ n + 1 \in 0..(n + 1) /\ n + 1 # 0 /\ (n + 1) - 1 = n
  BY <1>1, <1>6
<1>8. g[n + 1] = IF x \in keep THEN Append(g[n], x) ELSE g[n]
  BY <1>1, <1>5, <1>7 DEF ChoosesAt
<1>. QED  BY <1>2, <1>3, <1>7, <1>8 DEF t

-----------------------------------------------------------------------------
(* Ends of lists, and what readers of the index get *)

LEMMA LastNIsTheEnd ==
    ASSUME NEW S, NEW s \in Seq(S), NEW n \in Nat
    PROVE  /\ LastN(s, n) \in Seq(S) /\ Len(LastN(s, n)) = (IF Len(s) <= n THEN Len(s) ELSE n)
           /\ \A i \in DOMAIN LastN(s, n) : LastN(s, n)[i] = s[Len(s) - Len(LastN(s, n)) + i]
<1>1. CASE Len(s) <= n
  <2>1. LastN(s, n) = s
    BY <1>1 DEF LastN
  <2>. QED  BY <1>1, <2>1
<1>2. CASE ~(Len(s) <= n)
  <2>1. LastN(s, n) = SubSeq(s, Len(s) - n + 1, Len(s))
    BY <1>2 DEF LastN
  <2>2. Len(s) - n + 1 \in 1..(Len(s) + 1) /\ Len(s) \in Nat
    BY <1>2
  <2>. QED  BY <1>2, <2>1, <2>2
<1>. QED  BY <1>1, <1>2

LEMMA RowsAreRead ==
    ASSUME NEW lines \in Seq(Line)
    PROVE  /\ ReadRows(lines) \in Seq(Row)
           /\ Len(ReadRows(lines)) = Len(Chosen(lines, Readable))
           /\ \A j \in DOMAIN ReadRows(lines) : \E i \in DOMAIN lines :
                /\ lines[i].readable
                /\ ReadRows(lines)[j] = [id |-> lines[i].id, time |-> lines[i].time]
           /\ \A i \in DOMAIN lines : lines[i].readable =>
                \E j \in DOMAIN ReadRows(lines) :
                    ReadRows(lines)[j] = [id |-> lines[i].id, time |-> lines[i].time]
<1>. DEFINE seen == Chosen(lines, Readable)
<1>1. /\ seen \in Seq(Line \cap Readable)
      /\ \A j \in DOMAIN seen : \E i \in DOMAIN lines : seen[j] = lines[i]
      /\ \A i \in DOMAIN lines : lines[i] \in Readable => \E j \in DOMAIN seen : seen[j] = lines[i]
  BY ChosenElements
<1>2. ReadRows(lines) = [i \in DOMAIN seen |-> [id |-> seen[i].id, time |-> seen[i].time]]
  BY DEF ReadRows
<1>. HIDE DEF seen
<1>3. \A j \in DOMAIN seen : seen[j] \in Line /\ seen[j].readable
  BY <1>1 DEF Readable
<1>4. \A j \in DOMAIN seen : [id |-> seen[j].id, time |-> seen[j].time] \in Row
  BY <1>3 DEF Line, Row
<1>5. Len(seen) \in Nat /\ DOMAIN seen = 1..Len(seen)
  BY <1>1
<1>6. ReadRows(lines) \in Seq(Row) /\ Len(ReadRows(lines)) = Len(seen)
  BY <1>2, <1>4, <1>5
<1>7. \A i \in DOMAIN lines : lines[i] \in Line
  OBVIOUS
<1>8. \A i \in DOMAIN lines : lines[i].readable => lines[i] \in Readable
  BY <1>7 DEF Readable
<1>9. DOMAIN ReadRows(lines) = DOMAIN seen
  BY <1>2
<1>10. ASSUME NEW j \in DOMAIN seen
       PROVE  \E i \in DOMAIN lines : /\ lines[i].readable
                                      /\ ReadRows(lines)[j] = [id |-> lines[i].id, time |-> lines[i].time]
  <2>1. PICK i \in DOMAIN lines : seen[j] = lines[i]
    BY <1>1
  <2>. QED  BY <1>2, <1>3, <2>1
<1>11. ASSUME NEW i \in DOMAIN lines, lines[i].readable
       PROVE  \E j \in DOMAIN seen : ReadRows(lines)[j] = [id |-> lines[i].id, time |-> lines[i].time]
  <2>1. PICK j \in DOMAIN seen : seen[j] = lines[i]
    BY <1>1, <1>8, <1>11
  <2>. QED  BY <1>2, <2>1
<1>. QED  BY <1>6, <1>9, <1>10, <1>11 DEF seen

\* A readable line more is a row more.
LEMMA RowsGrow ==
    ASSUME NEW lines \in Seq(Line), NEW x \in Line, x.readable
    PROVE  ReadRows(Append(lines, x)) = Append(ReadRows(lines), [id |-> x.id, time |-> x.time])
<1>. DEFINE seen == Chosen(lines, Readable)
<1>1. seen \in Seq(Line \cap Readable)
  BY ChosenElements
<1>2. Chosen(Append(lines, x), Readable) = Append(seen, x)
  BY ChosenGrows DEF Readable
<1>3. /\ ReadRows(lines) = [i \in DOMAIN seen |-> [id |-> seen[i].id, time |-> seen[i].time]]
      /\ ReadRows(Append(lines, x)) = [i \in DOMAIN Append(seen, x) |->
            [id |-> Append(seen, x)[i].id, time |-> Append(seen, x)[i].time]]
  BY <1>2 DEF ReadRows
<1>4. ReadRows(lines) \in Seq(Row) /\ [id |-> x.id, time |-> x.time] \in Row
  BY RowsAreRead DEF Line, Row
<1>. HIDE DEF seen
<1>5. Len(seen) \in Nat /\ DOMAIN seen = 1..Len(seen) /\ Append(seen, x) \in Seq(Line)
      /\ DOMAIN Append(seen, x) = 1..(Len(seen) + 1)
      /\ Append(seen, x)[Len(seen) + 1] = x /\ \A i \in 1..Len(seen) : Append(seen, x)[i] = seen[i]
  BY <1>1
<1>. DEFINE rows == ReadRows(lines)  more == ReadRows(Append(lines, x))
            row == [id |-> x.id, time |-> x.time]
<1>6. /\ DOMAIN rows = 1..Len(seen) /\ DOMAIN more = 1..(Len(seen) + 1)
      /\ more[Len(seen) + 1] = row /\ \A i \in 1..Len(seen) : more[i] = rows[i]
      /\ more = [i \in 1..(Len(seen) + 1) |-> more[i]]
  BY <1>3, <1>5
<1>7. rows \in Seq(Row) /\ row \in Row
  BY <1>4
<1>. HIDE DEF rows, more, row
<1>8. Len(rows) = Len(seen)
  BY <1>5, <1>6, <1>7
<1>9. more \in Seq(Row) /\ Len(more) = Len(seen) + 1
  <2>1. ReadRows(Append(lines, x)) \in Seq(Row)
    BY RowsAreRead, Append(lines, x) \in Seq(Line), Zenon
  <2>. QED  BY <1>5, <1>6, <2>1 DEF more
<1>10. /\ Append(rows, row) \in Seq(Row) /\ Len(Append(rows, row)) = Len(seen) + 1
       /\ Append(rows, row)[Len(seen) + 1] = row /\ \A i \in 1..Len(seen) : Append(rows, row)[i] = rows[i]
  BY <1>7, <1>8, ListGrows
<1>11. \A i \in 1..(Len(seen) + 1) : more[i] = Append(rows, row)[i]
  <2>1. \A i \in 1..(Len(seen) + 1) : i \in 1..Len(seen) \/ i = Len(seen) + 1
    BY <1>5
  <2>. QED  BY <1>6, <1>10, <2>1, Zenon
<1>12. more = Append(rows, row)
  BY <1>9, <1>10, <1>11, SameLists, Zenon
<1>. QED  BY <1>12 DEF rows, more, row

-----------------------------------------------------------------------------
(* The end of the index that is cached *)

LEMMA EndOfEnd ==
    ASSUME NEW a \in Seq(Row), NEW b \in Seq(Row), NEW c \in Seq(Row), EndOf(a, b), EndOf(b, c)
    PROVE  EndOf(a, c)
<1>1. CacheMin <= Len(a) \/ Len(a) = Len(c)
  BY LogAssumption DEF EndOf
<1>2. \A i \in DOMAIN a : a[i] = c[Len(c) - Len(a) + i]
  <2>. TAKE i \in DOMAIN a
  <2>1. Len(b) - Len(a) + i \in DOMAIN b /\ Len(c) - Len(b) + (Len(b) - Len(a) + i) = Len(c) - Len(a) + i
    BY DEF EndOf
  <2>. QED  BY <2>1 DEF EndOf
<1>. QED  BY <1>1, <1>2 DEF EndOf

\* The last n rows are an end, if n is no less than CacheMin.
LEMMA LastNIsEndOf ==
    ASSUME NEW rows \in Seq(Row)
    PROVE  /\ EndOf(LastN(rows, CacheMax), rows) /\ LastN(rows, CacheMax) \in Seq(Row)
           /\ Len(LastN(rows, CacheMax)) <= CacheMax
<1>1. CacheMax \in Nat /\ CacheMin \in Nat /\ CacheMin <= CacheMax
  BY LogAssumption
<1>2. /\ LastN(rows, CacheMax) \in Seq(Row)
      /\ Len(LastN(rows, CacheMax)) = (IF Len(rows) <= CacheMax THEN Len(rows) ELSE CacheMax)
      /\ \A i \in DOMAIN LastN(rows, CacheMax) :
            LastN(rows, CacheMax)[i] = rows[Len(rows) - Len(LastN(rows, CacheMax)) + i]
  BY <1>1, LastNIsTheEnd
<1>. QED  BY <1>1, <1>2 DEF EndOf

\* Eviction leaves an end, whatever the clock says.
LEMMA EvictedIsEndOf ==
    ASSUME NEW rows \in Seq(Row)
    PROVE  EndOf(Evicted(rows), rows) /\ Evicted(rows) \in Seq(Row) /\ Len(Evicted(rows)) <= CacheMax
<1>. DEFINE capped == LastN(rows, CacheMax)
            drops == {n \in 0..Len(capped) :
                        Len(capped) - n <= CacheMin \/ capped[n + 1].time > now - CacheWindow}
            drop == Min(drops)
<1>1. EndOf(capped, rows) /\ capped \in Seq(Row) /\ Len(capped) <= CacheMax
  BY LastNIsEndOf
<1>2. Evicted(rows) = SubSeq(capped, drop + 1, Len(capped))
  BY DEF Evicted
<1>. HIDE DEF capped
<1>3. CacheMin \in Nat \ {0} /\ CacheMax \in Nat
  BY LogAssumption
<1>4. Len(capped) \in drops /\ drops \subseteq Nat
  BY <1>1, <1>3
<1>5. drop \in drops /\ \A n \in drops : drop <= n
  BY <1>4, MinIsLeast
<1>6. drop \in 0..Len(capped)
  BY <1>5
<1>7. Len(capped) - drop >= CacheMin \/ drop = 0
  <2>. SUFFICES ASSUME drop # 0, Len(capped) - drop < CacheMin PROVE FALSE
    BY <1>1, <1>3, <1>6
  <2>1. drop - 1 \in 0..Len(capped) /\ Len(capped) - (drop - 1) <= CacheMin
    BY <1>1, <1>3, <1>6
  <2>2. drop - 1 \in drops
    BY <2>1
  <2>. HIDE DEF drop
  <2>. QED  BY <1>5, <1>6, <2>2
<1>. HIDE DEF drop
<1>8. /\ Evicted(rows) \in Seq(Row) /\ Len(Evicted(rows)) = Len(capped) - drop
      /\ \A i \in 1..(Len(capped) - drop) : Evicted(rows)[i] = capped[drop + i]
  BY <1>1, <1>2, <1>6
<1>9. EndOf(Evicted(rows), capped)
  <2>1. Len(capped) \in Nat /\ drop \in Nat /\ drop <= Len(capped)
    BY <1>1, <1>6
  <2>2. DOMAIN Evicted(rows) = 1..(Len(capped) - drop) /\ Len(capped) - (Len(capped) - drop) = drop
    BY <1>8, <2>1
  <2>3. CacheMin <= Len(capped) - drop \/ Len(capped) - drop = Len(capped)
    BY <1>3, <1>7, <2>1
  <2>. QED  BY <1>8, <2>1, <2>2, <2>3 DEF EndOf
<1>. QED  BY <1>1, <1>3, <1>6, <1>8, <1>9, EndOfEnd

LEMMA EndsGrow ==
    ASSUME NEW a \in Seq(Row), NEW b \in Seq(Row), EndOf(a, b), NEW x \in Row
    PROVE  EndOf(Append(a, x), Append(b, x))
<1>. DEFINE c == Append(a, x)  d == Append(b, x)
<1>1. /\ Len(a) \in Nat /\ Len(c) = Len(a) + 1 /\ DOMAIN a = 1..Len(a) /\ DOMAIN c = 1..(Len(a) + 1)
      /\ c[Len(a) + 1] = x /\ \A i \in 1..Len(a) : c[i] = a[i]
  BY ListGrows
<1>2. /\ Len(b) \in Nat /\ Len(d) = Len(b) + 1 /\ d[Len(b) + 1] = x /\ \A i \in 1..Len(b) : d[i] = b[i]
  BY ListGrows
<1>. HIDE DEF c, d
<1>3. Len(c) <= Len(d) /\ (CacheMin <= Len(c) \/ Len(c) = Len(d))
  <2>1. CacheMin \in Nat
    BY LogAssumption
  <2>. QED  BY <1>1, <1>2, <2>1 DEF EndOf
<1>4. \A i \in DOMAIN c : c[i] = d[Len(d) - Len(c) + i]
  <2>. TAKE i \in DOMAIN c
  <2>1. CASE i = Len(a) + 1
    BY <1>1, <1>2, <2>1
  <2>2. CASE i # Len(a) + 1
    <3>1. i \in 1..Len(a) /\ Len(b) - Len(a) + i \in 1..Len(b) /\ Len(d) - Len(c) = Len(b) - Len(a)
      BY <1>1, <1>2, <2>2 DEF EndOf
    <3>. QED  BY <1>1, <1>2, <3>1 DEF EndOf
  <2>. QED  BY <2>1, <2>2
<1>. QED  BY <1>3, <1>4 DEF EndOf, c, d

-----------------------------------------------------------------------------
(* Steps keep the types, the lock and the times *)

\* What a sweep is about to remove is not ahead of the clock.
LEMMA CutoffGrows ==
    ASSUME now \in Times, now' \in Times, now <= now'
    PROVE  /\ CutoffDay \in Nat /\ CutoffDay' \in Nat
           /\ CutoffDay <= CutoffDay' /\ CutoffDay <= Day(MaxTime)
<1>1. /\ now \in Nat /\ now' \in Nat /\ Retention \in Nat /\ MaxTime \in Nat /\ now <= MaxTime
  BY LogAssumption DEF Times
<1>2. \A t \in Nat : t > Retention => t - Retention \in Nat
  BY <1>1
<1>3. now - Retention <= MaxTime /\ now - Retention <= now' - Retention
  <2>1. \A t, u, d \in Nat : t <= u => t - d <= u /\ t - d <= u - d
    OBVIOUS
  <2>. QED  BY <1>1, <2>1
<1>8. Day(MaxTime) \in Nat
  BY <1>1, DayGrows
<1>4. now > Retention => Day(now - Retention) \in Nat /\ Day(now - Retention) <= Day(MaxTime)
  BY <1>1, <1>2, <1>3, DayGrows
<1>5. now' > Retention => Day(now' - Retention) \in Nat
  BY <1>1, <1>2, DayGrows
<1>6. now > Retention => now' > Retention /\ Day(now - Retention) <= Day(now' - Retention)
  BY <1>1, <1>2, <1>3, DayGrows
<1>7. CutoffDay' = IF now' > Retention THEN Day(now' - Retention) ELSE 0
  BY DEF CutoffDay, Day
<1>. QED  BY <1>4, <1>5, <1>6, <1>7, <1>8 DEF CutoffDay

\* r's line is a line more, or it changes the last one: into one of nobody, into
\* one that is not readable, or not at all.
LEMMA ExtendedIsTyped ==
    ASSUME LogTypeOK, NEW r \in Requests, stamp[r] \in Times, tail # "none" => index # <<>>,
           NEW cut \in Cuts
    PROVE  /\ Extended(r, cut) \in Seq(Line)
           /\ tail = "none" => Extended(r, cut) =
                Append(index, [id |-> r, time |-> stamp[r], readable |-> cut \in {"none", "edge", "field"}])
           /\ tail # "none" =>
                /\ Len(index) \in Nat \ {0} /\ Len(Extended(r, cut)) = Len(index)
                /\ \A i \in 1..(Len(index) - 1) : Extended(r, cut)[i] = index[i]
                /\ LET old == index[Len(index)]  new == Extended(r, cut)[Len(index)] IN
                    \/ new.id = Garbage
                    \/ new = [old EXCEPT !.readable = FALSE]
                    \/ new = old
<1>. DEFINE own == [id |-> r, time |-> stamp[r], readable |-> cut \in {"none", "edge", "field"}]
            n == Len(index)
<1>1. index \in Seq(Line) /\ tail \in Cuts
  BY DEF LogTypeOK
<1>2. own \in Line
  BY DEF Line
<1>3. own.id = r /\ own.time = stamp[r]
  OBVIOUS
<1>. HIDE DEF own
<1>4. CASE tail = "none"
  <2>1. Extended(r, cut) = Append(index, own)
    BY <1>4 DEF Extended, own
  <2>. QED  BY <1>1, <1>2, <1>4, <2>1 DEF own
<1>5. CASE tail # "none"
  <2>0. n \in Nat \ {0} /\ n \in DOMAIN index /\ index[n] \in Line /\ DOMAIN index = 1..n
    BY <1>1, <1>5
  <2>. HIDE DEF n
  <2>1. CASE tail = "path"
    <3>. DEFINE new == [own EXCEPT !.id = Garbage]
    <3>1. Extended(r, cut) = [index EXCEPT ![n] = new]
      BY <2>1 DEF Extended, own, n
    <3>2. new \in Line /\ new.id = Garbage
      BY <1>2 DEF Line
    <3>. HIDE DEF new
    <3>3. /\ [index EXCEPT ![n] = new] \in Seq(Line) /\ Len([index EXCEPT ![n] = new]) = n
          /\ \A i \in 1..(n - 1) : [index EXCEPT ![n] = new][i] = index[i]
          /\ [index EXCEPT ![n] = new][n] = new
      <4>1. \A i \in 1..(n - 1) : i \in DOMAIN index /\ i # n
        BY <2>0
      <4>. QED  BY <1>1, <2>0, <3>2, <4>1, ListChanges, Zenon DEF n
    <3>. QED  BY <1>5, <2>0, <3>1, <3>2, <3>3 DEF n
  <2>2. CASE tail \in {"time", "edge"}
    <3>. DEFINE new == [index[n] EXCEPT !.readable = FALSE]
    <3>1. Extended(r, cut) = [index EXCEPT ![n].readable = FALSE]
      BY <2>2 DEF Extended, n
    <3>2. new \in Line
      BY <2>0 DEF Line
    <3>3. Extended(r, cut) = [index EXCEPT ![n] = new]
      BY <3>1
    <3>. HIDE DEF new
    <3>4. /\ [index EXCEPT ![n] = new] \in Seq(Line) /\ Len([index EXCEPT ![n] = new]) = n
          /\ \A i \in 1..(n - 1) : [index EXCEPT ![n] = new][i] = index[i]
          /\ [index EXCEPT ![n] = new][n] = new
      <4>1. \A i \in 1..(n - 1) : i \in DOMAIN index /\ i # n
        BY <2>0
      <4>. QED  BY <1>1, <2>0, <3>2, <4>1, ListChanges, Zenon DEF n
    <3>. QED  BY <1>5, <2>0, <3>3, <3>4 DEF n, new
  <2>3. CASE tail = "field"
    <3>1. Extended(r, cut) = index
      BY <2>3 DEF Extended
    <3>. QED  BY <1>1, <1>5, <2>0, <3>1 DEF n
  <2>. QED  BY <1>1, <1>5, <2>1, <2>2, <2>3 DEF Cuts
<1>. QED  BY <1>4, <1>5

LEMMA CutAfterIsCut ==
    ASSUME NEW cut \in Cuts, cut # "none", tail \in Cuts
    PROVE  CutAfter(cut) \in Cuts /\ CutAfter(cut) # "none"
  BY DEF CutAfter, Cuts

\* Lines that are kept are lines.
LEMMA KeptAreLines ==
    ASSUME index \in Seq(Line)
    PROVE  /\ KeptLines \in Seq(Line)
           /\ \A j \in DOMAIN KeptLines : \E i \in DOMAIN index :
                KeptLines[j] = index[i] /\ index[i].readable /\ Day(index[i].time) >= cutoff
           /\ \A i \in DOMAIN index : index[i].readable /\ Day(index[i].time) >= cutoff =>
                \E j \in DOMAIN KeptLines : KeptLines[j] = index[i]
<1>. DEFINE keep == {l \in Readable : Day(l.time) >= cutoff}
<1>1. KeptLines = Chosen(index, keep)
  BY DEF KeptLines
<1>. HIDE DEF keep
<1>2. /\ KeptLines \in Seq(Line \cap keep)
      /\ \A j \in DOMAIN KeptLines : \E i \in DOMAIN index : KeptLines[j] = index[i]
      /\ \A i \in DOMAIN index : index[i] \in keep => \E j \in DOMAIN KeptLines : KeptLines[j] = index[i]
  BY <1>1, ChosenElements
<1>3. \A i \in DOMAIN index : index[i] \in keep <=> index[i].readable /\ Day(index[i].time) >= cutoff
  BY DEF keep, Readable
<1>4. \A j \in DOMAIN KeptLines : KeptLines[j] \in keep
  BY <1>2
<1>5. KeptLines \in Seq(Line)
  BY <1>2
<1>. QED  BY <1>2, <1>3, <1>4, <1>5, Zenon

LEMMA TypesStay ==
    ASSUME LogInv, LogNext
    PROVE  LogTypeOK'
<1>. USE DEF disk
<1>1. LogTypeOK /\ LockFits /\ TimesFit /\ CutsFit
  BY DEF LogInv
<1>2. /\ now \in Times /\ Times \subseteq Nat /\ MaxTime \in Nat
      /\ stage \in [Requests -> LogStages] /\ stamp \in [Requests -> 0..MaxTime]
      /\ MaxTorn \in Nat /\ MaxCrashes \in Nat
  BY <1>1, LogAssumption DEF LogTypeOK, Times
<1>3. ASSUME now' = now PROVE CutoffDay' = CutoffDay /\ CutoffDay \in 0..Day(MaxTime)
  <2>1. CutoffDay' = CutoffDay
    BY <1>3 DEF CutoffDay, Day
  <2>2. CutoffDay \in Nat /\ CutoffDay <= Day(MaxTime)
    BY <1>2, <1>3, CutoffGrows
  <2>3. Day(MaxTime) \in Nat
    BY <1>2, DayGrows
  <2>. QED  BY <2>1, <2>2, <2>3
<1>4. ASSUME NEW r \in Requests, stage[r] # "open" PROVE stamp[r] \in Times
  BY <1>1, <1>2, <1>4 DEF TimesFit, Times
<1>5. \A r \in Requests, s \in LogStages : [stage EXCEPT ![r] = s] \in [Requests -> LogStages]
  BY <1>2
<1>6. ASSUME NEW r \in Requests, Stamp(r) PROVE LogTypeOK'
  <2>1. stamp' \in [Requests -> 0..MaxTime] /\ stage' \in [Requests -> LogStages]
    BY <1>2, <1>5, <1>6 DEF Stamp, LogStages, Times
  <2>. QED  BY <1>1, <1>6, <2>1 DEF Stamp, LogTypeOK
<1>7. ASSUME NEW r \in Requests, WriteFile(r) PROVE LogTypeOK'
  <2>1. stage' \in [Requests -> LogStages] /\ files' \subseteq Requests
    BY <1>1, <1>5, <1>7 DEF WriteFile, LogStages, LogTypeOK
  <2>. QED  BY <1>1, <1>7, <2>1 DEF WriteFile, LogTypeOK
<1>8. ASSUME NEW r \in Requests, AppendIndexLine(r) PROVE LogTypeOK'
  <2>1. stage[r] = "filed" /\ stamp[r] \in Times /\ (tail # "none" => index # <<>>)
    BY <1>1, <1>4, <1>8 DEF AppendIndexLine, CutsFit
  <2>2. \A cut \in Cuts : Extended(r, cut) \in Seq(Line)
    BY <1>1, <2>1, ExtendedIsTyped
  <2>3. stage' \in [Requests -> LogStages]
    BY <1>5, <1>8 DEF AppendIndexLine, LogStages
  <2>4. index' \in Seq(Line) /\ tail' \in Cuts /\ torn' \in 0..MaxTorn
    <3>1. index \in Seq(Line) /\ tail \in Cuts /\ torn \in 0..MaxTorn /\ "none" \in Cuts
      BY <1>1 DEF LogTypeOK, Cuts
    <3>2. CASE index' = Extended(r, "none") /\ tail' = "none" /\ UNCHANGED torn
      BY <2>2, <3>1, <3>2
    <3>3. CASE /\ torn < MaxTorn /\ torn' = torn + 1
               /\ \E cut \in Cuts \ {"none"} : index' = Extended(r, cut) /\ tail' = CutAfter(cut)
      BY <1>2, <2>2, <3>1, <3>3, CutAfterIsCut
    <3>4. CASE UNCHANGED <<index, tail, torn>>
      BY <3>1, <3>4
    <3>. QED  BY <1>8, <3>2, <3>3, <3>4 DEF AppendIndexLine
  <2>. QED  BY <1>1, <1>8, <2>3, <2>4 DEF AppendIndexLine, LogTypeOK
<1>9. ASSUME NEW r \in Requests, UpdateCache(r) PROVE LogTypeOK'
  <2>1. stage[r] = "indexed" /\ stamp[r] \in Times
    BY <1>4, <1>9 DEF UpdateCache
  <2>2. RowOf(r) \in Row /\ cache \in Seq(Row)
    BY <1>1, <2>1 DEF RowOf, Row, LogTypeOK
  <2>3. Append(cache, RowOf(r)) \in Seq(Row) /\ cache' = Evicted(Append(cache, RowOf(r)))
    BY <1>9, <2>2 DEF UpdateCache, RowOf
  <2>4. cache' \in Seq(Row) /\ Len(cache') <= CacheMax
    BY <2>3, EvictedIsEndOf
  <2>5. stage' \in [Requests -> LogStages]
    BY <1>5, <1>9 DEF UpdateCache, LogStages
  <2>. QED  BY <1>1, <1>9, <2>4, <2>5 DEF UpdateCache, LogTypeOK
<1>10. CASE BeginCleanup
  BY <1>1, <1>3, <1>10 DEF BeginCleanup, LogTypeOK
<1>11. CASE RemoveOldDayDirs
  BY <1>1, <1>11 DEF RemoveOldDayDirs, LogTypeOK
<1>12. CASE PruneIndex
  <2>1. index \in Seq(Line) /\ cache \in Seq(Row) /\ Len(cache) <= CacheMax /\ tail \in Cuts
    BY <1>1 DEF LogTypeOK
  <2>2. KeptLines \in Seq(Line) /\ ReadRows(KeptLines) \in Seq(Row)
    BY <2>1, KeptAreLines, RowsAreRead
  <2>3. index' \in Seq(Line) /\ cache' \in Seq(Row) /\ Len(cache') <= CacheMax /\ tail' \in Cuts
    BY <1>12, <2>1, <2>2, LastNIsEndOf DEF PruneIndex, Cuts
  <2>. QED  BY <1>1, <1>12, <2>3 DEF PruneIndex, LogTypeOK
<1>13. CASE Crash
  <2>1. stage' \in [Requests -> LogStages]
    BY <1>2, <1>13 DEF Crash, LogStages
  <2>2. cache' \in Seq(Row) /\ Len(cache') <= CacheMax /\ crashes' \in 0..MaxCrashes
    BY <1>1, <1>2, <1>13, LogAssumption DEF Crash, LogTypeOK
  <2>. QED  BY <1>1, <1>13, <2>1, <2>2 DEF Crash, LogTypeOK
<1>14. CASE Restart
  <2>1. ReadRows(index) \in Seq(Row)
    BY <1>1, RowsAreRead DEF LogTypeOK
  <2>2. cache' \in Seq(Row) /\ Len(cache') <= CacheMax
    BY <1>14, <2>1, LastNIsEndOf DEF Restart
  <2>. QED  BY <1>1, <1>3, <1>14, <2>2 DEF Restart, LogTypeOK
<1>15. CASE TimePasses
  <2>1. now' \in Times
    BY <1>2, <1>15 DEF TimePasses, Times
  <2>. QED  BY <1>1, <1>15, <2>1 DEF TimePasses, LogTypeOK
<1>. QED  BY <1>6, <1>7, <1>8, <1>9, <1>10, <1>11, <1>12, <1>13, <1>14, <1>15 DEF LogNext

\* How far an entry is, and who has the lock, changes one step at a time.
LEMMA LockStaysFit ==
    ASSUME LogInv, LogNext
    PROVE  LockFits'
<1>. USE DEF disk
<1>1. LockFits /\ stage \in [Requests -> LogStages]
  BY DEF LogInv, LogTypeOK
<1>2. ASSUME NEW r \in Requests, Stamp(r) PROVE LockFits'
  BY <1>1, <1>2 DEF Stamp, LockFits, Holds
<1>3. ASSUME NEW r \in Requests, WriteFile(r) PROVE LockFits'
  <2>1. \A q \in Requests : ~Holds(q)
    BY <1>3 DEF WriteFile, Unlocked, Holds
  <2>2. \A q \in Requests : q # r => stage'[q] = stage[q]
    BY <1>1, <1>3 DEF WriteFile
  <2>3. up' = up /\ up /\ sweep' = sweep /\ sweep \notin {"start", "prune"}
    BY <1>3 DEF WriteFile, Unlocked
  <2>. QED  BY <1>1, <2>1, <2>2, <2>3 DEF LockFits, Holds
<1>4. ASSUME NEW r \in Requests, AppendIndexLine(r) PROVE LockFits'
  <2>1. Holds(r) /\ up' = up /\ sweep' = sweep
    BY <1>4 DEF AppendIndexLine, Holds
  <2>2. /\ \A q \in Requests : q # r => stage'[q] = stage[q]
        /\ stage'[r] \in {"indexed", "unlogged"}
    BY <1>1, <1>4 DEF AppendIndexLine
  <2>. QED  BY <1>1, <2>1, <2>2 DEF LockFits, Holds
<1>5. ASSUME NEW r \in Requests, UpdateCache(r) PROVE LockFits'
  BY <1>1, <1>5 DEF UpdateCache, LockFits, Holds
<1>6. CASE BeginCleanup
  BY <1>1, <1>6 DEF BeginCleanup, LockFits, Holds
<1>7. CASE RemoveOldDayDirs
  <2>1. \A q \in Requests : ~Holds(q)
    BY <1>1, <1>7 DEF RemoveOldDayDirs, Unlocked, LockFits, Holds
  <2>. QED  BY <1>1, <1>7, <2>1 DEF RemoveOldDayDirs, LockFits, Holds
<1>8. CASE PruneIndex
  BY <1>1, <1>8 DEF PruneIndex, LockFits, Holds
<1>9. CASE Crash
  BY <1>1, <1>9 DEF Crash, LockFits, Holds
<1>10. CASE Restart
  BY <1>1, <1>10 DEF Restart, LockFits, Holds
<1>11. CASE TimePasses
  BY <1>1, <1>11 DEF TimePasses, LockFits, Holds
<1>. QED  BY <1>2, <1>3, <1>4, <1>5, <1>6, <1>7, <1>8, <1>9, <1>10, <1>11 DEF LogNext

LEMMA TimesStayFit ==
    ASSUME LogInv, LogNext
    PROVE  /\ TimesFit' /\ now <= now' /\ cutoff \in Nat /\ cutoff' \in Nat /\ cutoff <= cutoff'
           /\ \A r \in Requests : stage[r] # "open" => stamp'[r] = stamp[r] /\ stage'[r] # "open"
<1>. USE DEF disk
<1>1. /\ TimesFit /\ stage \in [Requests -> LogStages] /\ stamp \in [Requests -> 0..MaxTime]
      /\ now \in Times /\ Times \subseteq Nat /\ cutoff \in 0..Day(MaxTime) /\ MaxTime \in Nat
  BY LogAssumption DEF LogInv, LogTypeOK, Times
<1>2. now' \in Times /\ now <= now'
  <2>1. now' \in Times
    BY TypesStay DEF LogTypeOK
  <2>2. now' = now \/ now' = now + 1
    BY DEF LogNext, Stamp, WriteFile, AppendIndexLine, UpdateCache, BeginCleanup, RemoveOldDayDirs,
           PruneIndex, Crash, Restart, TimePasses
  <2>. QED  BY <1>1, <2>1, <2>2
<1>3. CutoffDay \in Nat /\ CutoffDay' \in Nat /\ CutoffDay <= CutoffDay'
  BY <1>1, <1>2, CutoffGrows
<1>4. cutoff \in Nat /\ cutoff <= CutoffDay
  <2>1. Day(MaxTime) \in Nat
    BY <1>1, DayGrows
  <2>. QED  BY <1>1, <2>1 DEF TimesFit
<1>5. cutoff' = cutoff \/ (cutoff' = CutoffDay /\ now' = now)
  BY DEF LogNext, Stamp, WriteFile, AppendIndexLine, UpdateCache, BeginCleanup, RemoveOldDayDirs,
         PruneIndex, Crash, Restart, TimePasses
<1>6. cutoff' \in Nat /\ cutoff <= cutoff' /\ cutoff' <= CutoffDay'
  BY <1>3, <1>4, <1>5
<1>7. ASSUME NEW q \in Requests
      PROVE  /\ stage[q] # "open" => stamp'[q] = stamp[q] /\ stage'[q] # "open"
             /\ stage[q] = "open" /\ stage'[q] # "open" => stamp'[q] = now
  <2>1. ASSUME NEW r \in Requests, Stamp(r)
        PROVE  q # r => stamp'[q] = stamp[q] /\ stage'[q] = stage[q]
    BY <1>1, <2>1 DEF Stamp
  <2>2. ASSUME NEW r \in Requests, Stamp(r)
        PROVE  stage[r] = "open" /\ stamp'[r] = now /\ stage'[r] = "stamped"
    BY <1>1, <2>2 DEF Stamp
  <2>3. ASSUME NEW r \in Requests, WriteFile(r) \/ AppendIndexLine(r) \/ UpdateCache(r)
        PROVE  /\ stamp' = stamp /\ stage[r] # "open" /\ stage'[r] # "open"
               /\ q # r => stage'[q] = stage[q]
    BY <1>1, <2>3 DEF WriteFile, AppendIndexLine, UpdateCache
  <2>4. CASE BeginCleanup \/ RemoveOldDayDirs \/ PruneIndex \/ Restart \/ TimePasses
    BY <2>4 DEF BeginCleanup, RemoveOldDayDirs, PruneIndex, Restart, TimePasses
  <2>5. CASE Crash
    BY <1>1, <2>5 DEF Crash
  <2>. QED  BY <2>1, <2>2, <2>3, <2>4, <2>5 DEF LogNext
<1>8. TimesFit'
  <2>1. ASSUME NEW r \in Requests, stage'[r] # "open" PROVE stamp'[r] \in 1..now'
    BY <1>1, <1>2, <1>7, <2>1 DEF TimesFit, Times
  <2>. QED  BY <1>6, <2>1 DEF TimesFit
<1>. QED  BY <1>2, <1>4, <1>6, <1>7, <1>8

-----------------------------------------------------------------------------
(* Steps keep files and lines together *)

\* Who has expired, has.
LEMMA ExpiredStays ==
    ASSUME LogInv, LogNext, NEW r \in Requests, stage[r] # "open"
    PROVE  Expired(r) => Expired(r)'
<1>1. stamp'[r] = stamp[r] /\ cutoff \in Nat /\ cutoff' \in Nat /\ cutoff <= cutoff'
  BY TimesStayFit
<1>2. Day(stamp[r]) \in Nat
  <2>1. stamp[r] \in Nat
    BY LogAssumption DEF LogInv, LogTypeOK
  <2>. QED  BY <2>1, DayGrows
<1>3. Expired(r)' <=> Day(stamp[r]) < cutoff'
  BY <1>1 DEF Expired, Day
<1>. QED  BY <1>1, <1>2, <1>3 DEF Expired

\* A sweep takes only files that have expired.
LEMMA FilesAreSwept ==
    ASSUME LogInv, LogNext, NEW r \in Requests, r \in files
    PROVE  r \in files' \/ Expired(r)
<1>1. CASE RemoveOldDayDirs
  BY <1>1 DEF RemoveOldDayDirs
<1>2. CASE \E q \in Requests : WriteFile(q)
  BY <1>2 DEF WriteFile
<1>3. ASSUME ~RemoveOldDayDirs, ~\E q \in Requests : WriteFile(q) PROVE files' = files
  BY <1>3 DEF LogNext, Stamp, AppendIndexLine, UpdateCache, BeginCleanup, PruneIndex, Crash, Restart,
              TimePasses, disk
<1>. QED  BY <1>1, <1>2, <1>3

LEMMA LineStaysFit ==
    ASSUME LogInv, LogNext, NEW l \in Line, LineFits(l)
    PROVE  LineFits(l)'
<1>. SUFFICES ASSUME l.id # Garbage
              PROVE  /\ stage'[l.id] # "open" /\ l.time = stamp'[l.id]
                     /\ l.readable => Expired(l.id)' \/ l.id \in files'
  BY DEF LineFits, Expired
<1>1. l.id \in Requests /\ stage[l.id] # "open"
  BY DEF Line, LineFits
<1>2. stamp'[l.id] = stamp[l.id] /\ stage'[l.id] # "open"
  BY <1>1, TimesStayFit
<1>3. l.readable => Expired(l.id)' \/ l.id \in files'
  BY <1>1, ExpiredStays, FilesAreSwept DEF LineFits
<1>. QED  BY <1>2, <1>3 DEF LineFits

\* Where the lines of the index come from.
LEMMA LinesComeFrom ==
    ASSUME LogInv, LogNext, NEW i \in DOMAIN index'
    PROVE  \/ \E j \in DOMAIN index : \/ index'[i] = index[j]
                                      \/ index'[i] = [index[j] EXCEPT !.readable = FALSE]
           \/ index'[i].id = Garbage
           \/ \E r \in Requests : /\ Holds(r) /\ stage[r] # "open"
                                  /\ index'[i].id = r /\ index'[i].time = stamp[r]
<1>1. index \in Seq(Line) /\ index' \in Seq(Line) /\ "none" \in Cuts
  BY TypesStay DEF LogInv, LogTypeOK, Cuts
<1>2. CASE index' = index
  BY <1>2
<1>3. CASE index' = KeptLines
  BY <1>1, <1>3, KeptAreLines
<1>4. ASSUME NEW r \in Requests, stage[r] = "filed", NEW cut \in Cuts, index' = Extended(r, cut)
      PROVE  \/ \E j \in DOMAIN index : \/ index'[i] = index[j]
                                        \/ index'[i] = [index[j] EXCEPT !.readable = FALSE]
             \/ index'[i].id = Garbage
             \/ /\ Holds(r) /\ stage[r] # "open"
                /\ index'[i].id = r /\ index'[i].time = stamp[r]
  <2>1. stamp[r] \in Times /\ (tail # "none" => index # <<>>) /\ LogTypeOK
    BY <1>4, LogAssumption DEF LogInv, TimesFit, CutsFit, LogTypeOK, Times
  <2>2. CASE tail = "none"
    <3>. DEFINE own == [id |-> r, time |-> stamp[r], readable |-> cut \in {"none", "edge", "field"}]
    <3>1. index' = Append(index, own)
      BY <1>4, <2>1, <2>2, ExtendedIsTyped
    <3>2. own \in Line /\ own.id = r /\ own.time = stamp[r]
      BY <2>1 DEF Line
    <3>. HIDE DEF own
    <3>3. \/ i \in DOMAIN index /\ index'[i] = index[i]
          \/ index'[i] = own
      BY <1>1, <3>1, <3>2, ListGrows
    <3>. QED  BY <1>4, <3>2, <3>3 DEF Holds
  <2>3. CASE tail # "none"
    <3>. DEFINE n == Len(index)
    <3>1. /\ n \in Nat \ {0} /\ Len(index') = n
          /\ \A j \in 1..(n - 1) : index'[j] = index[j]
          /\ \/ index'[n].id = Garbage
             \/ index'[n] = [index[n] EXCEPT !.readable = FALSE]
             \/ index'[n] = index[n]
      BY <1>4, <2>1, <2>3, ExtendedIsTyped
    <3>2. DOMAIN index = 1..n /\ DOMAIN index' = 1..n
      BY <1>1, <3>1
    <3>. QED  BY <3>1, <3>2
  <2>. QED  BY <2>2, <2>3
<1>5. \/ index' = index \/ index' = KeptLines
      \/ \E r \in Requests : \E cut \in Cuts : stage[r] = "filed" /\ index' = Extended(r, cut)
  BY <1>1 DEF LogNext, Stamp, WriteFile, AppendIndexLine, UpdateCache, BeginCleanup, RemoveOldDayDirs,
              PruneIndex, Crash, Restart, TimePasses, disk
<1>. QED  BY <1>2, <1>3, <1>4, <1>5

LEMMA FilesStayFit ==
    ASSUME LogInv, LogNext
    PROVE  FilesFit'
<1>1. /\ FilesFit /\ LockFits /\ index \in Seq(Line) /\ index' \in Seq(Line)
      /\ stage \in [Requests -> LogStages] /\ Garbage \notin Requests
  BY TypesStay, LogAssumption DEF LogInv, LogTypeOK
<1>2. ASSUME NEW q \in Requests, Holds(q)' PROVE q \in files'
  <2>1. ASSUME NEW r \in Requests, WriteFile(r) PROVE q \in files'
    <3>1. ~Holds(q) /\ (q # r => stage'[q] = stage[q])
      BY <1>1, <2>1 DEF WriteFile, Unlocked, Holds
    <3>2. q = r /\ stage'[r] # "unlogged"
      BY <1>2, <3>1 DEF Holds
    <3>. QED  BY <1>1, <2>1, <3>2 DEF WriteFile
  <2>2. CASE RemoveOldDayDirs
    BY <1>1, <1>2, <2>2 DEF RemoveOldDayDirs, Unlocked, LockFits, Holds
  <2>3. ASSUME NEW r \in Requests, Stamp(r) \/ AppendIndexLine(r) \/ UpdateCache(r) PROVE q \in files'
    BY <1>1, <1>2, <2>3 DEF Stamp, AppendIndexLine, UpdateCache, FilesFit, Holds, disk
  <2>4. CASE BeginCleanup \/ PruneIndex \/ Crash \/ Restart \/ TimePasses
    BY <1>1, <1>2, <2>4 DEF BeginCleanup, PruneIndex, Crash, Restart, TimePasses, FilesFit, Holds, disk
  <2>. QED  BY <2>1, <2>2, <2>3, <2>4 DEF LogNext
<1>3. ASSUME NEW i \in DOMAIN index' PROVE LineFits(index[i])'
  <2>1. PICK l \in Line : l = index'[i]
    BY <1>1
  <2>2. LineFits(l)'
    <3>1. ASSUME NEW j \in DOMAIN index, l = index[j] PROVE LineFits(l)'
      BY <1>1, <3>1, LineStaysFit DEF FilesFit
    <3>2. ASSUME NEW j \in DOMAIN index, l = [index[j] EXCEPT !.readable = FALSE] PROVE LineFits(l)'
      <4>1. index[j] \in Line /\ LineFits(index[j])
        BY <1>1 DEF FilesFit
      <4>2. l.id = index[j].id /\ l.time = index[j].time /\ ~l.readable
        BY <3>2, <4>1 DEF Line
      <4>3. LineFits(l)
        BY <4>1, <4>2 DEF LineFits
      <4>. QED  BY <4>3, LineStaysFit
    <3>3. ASSUME l.id = Garbage PROVE LineFits(l)'
      BY <3>3 DEF LineFits
    <3>4. ASSUME NEW r \in Requests, Holds(r), stage[r] # "open", l.id = r, l.time = stamp[r]
          PROVE  LineFits(l)'
      <4>1. LineFits(l)
        BY <1>1, <3>4 DEF LineFits, FilesFit
      <4>. QED  BY <4>1, LineStaysFit
    <3>. QED  BY <2>1, <3>1, <3>2, <3>3, <3>4, LinesComeFrom
  <2>3. LineFits(l)' <=> LineFits(index[i])'
    BY <2>1 DEF LineFits, Expired
  <2>. QED  BY <2>2, <2>3
<1>. QED  BY <1>2, <1>3 DEF FilesFit

-----------------------------------------------------------------------------
(* Each cut costs one entry *)

\* A line is kept unless it is the last of an index that was cut, or has expired.
LEMMA ListedStays ==
    ASSUME LogInv, LogNext, NEW q \in Requests, stage[q] \in {"indexed", "logged"}, ~Expired(q),
           IsListed(q)
    PROVE  IsListed(q)'
<1>1. index \in Seq(Line) /\ index' \in Seq(Line) /\ FilesFit /\ Garbage \notin Requests /\ "none" \in Cuts
  BY TypesStay, LogAssumption DEF LogInv, LogTypeOK, Cuts
<1>2. PICK i \in DOMAIN index : index[i].readable /\ index[i].id = q
  BY DEF IsListed, Lists
<1>3. ASSUME \E j \in DOMAIN index' : index'[j] = index[i] PROVE IsListed(q)'
  BY <1>2, <1>3 DEF IsListed, Lists
<1>4. CASE index' = index
  BY <1>2, <1>3, <1>4
<1>5. CASE index' = KeptLines
  <2>1. index[i].time = stamp[q]
    BY <1>1, <1>2 DEF FilesFit, LineFits
  <2>2. Day(stamp[q]) \in Nat /\ cutoff \in Nat
    <3>1. stamp[q] \in Nat
      BY LogAssumption DEF LogInv, LogTypeOK
    <3>. QED  BY <3>1, DayGrows, TimesStayFit
  <2>3. Day(index[i].time) >= cutoff
    BY <2>1, <2>2 DEF Expired
  <2>. QED  BY <1>1, <1>2, <1>3, <1>5, <2>3, KeptAreLines
<1>6. ASSUME NEW r \in Requests, stage[r] = "filed", NEW cut \in Cuts, index' = Extended(r, cut)
      PROVE  IsListed(q)'
  <2>1. stamp[r] \in Times /\ (tail # "none" => index # <<>>) /\ LogTypeOK
    BY <1>6, LogAssumption DEF LogInv, TimesFit, CutsFit, LogTypeOK, Times
  <2>2. CASE tail = "none"
    <3>. DEFINE own == [id |-> r, time |-> stamp[r], readable |-> cut \in {"none", "edge", "field"}]
    <3>1. index' = Append(index, own)
      BY <1>6, <2>1, <2>2, ExtendedIsTyped
    <3>2. own \in Line
      BY <2>1 DEF Line
    <3>. HIDE DEF own
    <3>3. i \in DOMAIN index' /\ index'[i] = index[i]
      BY <1>1, <1>2, <3>1, <3>2, ListGrows
    <3>. QED  BY <1>3, <3>3
  <2>3. CASE tail # "none"
    <3>. DEFINE n == Len(index)
    <3>1. /\ n \in Nat \ {0} /\ Len(index') = n /\ \A j \in 1..(n - 1) : index'[j] = index[j]
      BY <1>6, <2>1, <2>3, ExtendedIsTyped
    <3>2. DOMAIN index = 1..n /\ DOMAIN index' = 1..n
      BY <1>1, <3>1
    <3>3. i # n
      BY <1>1, <1>2, <2>3 DEF LogInv, CutsFit
    <3>. QED  BY <1>2, <1>3, <3>1, <3>2, <3>3
  <2>. QED  BY <2>2, <2>3
<1>7. \/ index' = index \/ index' = KeptLines
      \/ \E r \in Requests : \E cut \in Cuts : stage[r] = "filed" /\ index' = Extended(r, cut)
  BY <1>1 DEF LogNext, Stamp, WriteFile, AppendIndexLine, UpdateCache, BeginCleanup, RemoveOldDayDirs,
              PruneIndex, Crash, Restart, TimePasses, disk
<1>. QED  BY <1>4, <1>5, <1>6, <1>7

\* Only who appends to an index that was cut can be lost.
Swallowed(r) ==
    /\ AppendIndexLine(r) /\ stage'[r] = "indexed"
    /\ tail # "none" /\ tail' = "none" /\ torn' = torn

LEMMA LostComesFrom ==
    ASSUME LogInv, LogNext, NEW q \in Requests, q \in Lost'
    PROVE  q \in Lost \/ Swallowed(q)
<1>. USE DEF disk
<1>1. stage'[q] \in {"indexed", "logged"} /\ ~Expired(q)' /\ ~IsListed(q)'
  BY DEF Lost
<1>2. stage \in [Requests -> LogStages] /\ index \in Seq(Line) /\ "none" \in Cuts
  BY DEF LogInv, LogTypeOK, Cuts
<1>3. \/ stage[q] \in {"indexed", "logged"}
      \/ stage[q] = "filed" /\ AppendIndexLine(q) /\ stage'[q] = "indexed"
  <2>1. ASSUME NEW r \in Requests, Stamp(r) \/ WriteFile(r) \/ UpdateCache(r)
        PROVE  stage[q] \in {"indexed", "logged"}
    BY <1>1, <1>2, <2>1 DEF Stamp, WriteFile, UpdateCache
  <2>2. ASSUME NEW r \in Requests, AppendIndexLine(r)
        PROVE  \/ stage[q] \in {"indexed", "logged"}
               \/ q = r /\ stage[q] = "filed" /\ stage'[q] = "indexed"
    BY <1>1, <1>2, <2>2 DEF AppendIndexLine
  <2>3. CASE BeginCleanup \/ RemoveOldDayDirs \/ PruneIndex \/ Crash \/ Restart \/ TimePasses
    BY <1>1, <1>2, <2>3 DEF BeginCleanup, RemoveOldDayDirs, PruneIndex, Crash, Restart, TimePasses
  <2>. QED  BY <2>1, <2>2, <2>3 DEF LogNext
<1>4. ~Expired(q)
  BY <1>1, <1>3, ExpiredStays
<1>5. CASE stage[q] \in {"indexed", "logged"}
  BY <1>1, <1>4, <1>5, ListedStays DEF Lost
<1>6. CASE stage[q] = "filed" /\ AppendIndexLine(q) /\ stage'[q] = "indexed"
  <2>1. index' = Extended(q, "none") /\ tail' = "none" /\ torn' = torn
    BY <1>2, <1>6 DEF AppendIndexLine
  <2>2. tail # "none"
    <3>. SUFFICES ASSUME tail = "none" PROVE IsListed(q)'
      BY <1>1
    <3>. DEFINE own == [id |-> q, time |-> stamp[q], readable |-> "none" \in {"none", "edge", "field"}]
    <3>1. stamp[q] \in Times /\ LogTypeOK
      BY <1>6, LogAssumption DEF LogInv, TimesFit, LogTypeOK, Times
    <3>2. index' = Append(index, own)
      BY <1>2, <2>1, <3>1, ExtendedIsTyped
    <3>3. own \in Line /\ own.readable /\ own.id = q
      BY <3>1 DEF Line
    <3>. HIDE DEF own
    <3>4. Len(index) + 1 \in DOMAIN index' /\ index'[Len(index) + 1] = own
      BY <1>2, <3>2, <3>3, ListGrows
    <3>. QED  BY <3>3, <3>4 DEF IsListed, Lists
  <2>. QED  BY <1>6, <2>1, <2>2 DEF Swallowed
<1>. QED  BY <1>3, <1>5, <1>6

\* What a step does to the cut: leaves or mends it, or makes one more.
LEMMA CutChanges ==
    ASSUME LogInv, LogNext
    PROVE  \/ tail' = "none" /\ torn' = torn
           \/ UNCHANGED <<index, tail, torn>>
           \/ /\ torn' = torn + 1
              /\ \E r \in Requests : /\ stage[r] = "filed" /\ stage'[r] = "unlogged"
                                     /\ \E cut \in Cuts : index' = Extended(r, cut)
<1>. USE DEF disk
<1>1. stage \in [Requests -> LogStages]
  BY DEF LogInv, LogTypeOK
<1>2. ASSUME NEW r \in Requests, AppendIndexLine(r)
      PROVE  \/ tail' = "none" /\ torn' = torn
             \/ UNCHANGED <<index, tail, torn>>
             \/ /\ torn' = torn + 1 /\ stage[r] = "filed" /\ stage'[r] = "unlogged"
                /\ \E cut \in Cuts : index' = Extended(r, cut)
  BY <1>1, <1>2 DEF AppendIndexLine
<1>3. ASSUME ~\E r \in Requests : AppendIndexLine(r)
      PROVE  (tail' = "none" /\ torn' = torn) \/ UNCHANGED <<index, tail, torn>>
  BY <1>3 DEF LogNext, Stamp, WriteFile, UpdateCache, BeginCleanup, RemoveOldDayDirs,
              PruneIndex, Crash, Restart, TimePasses
<1>. QED  BY <1>2, <1>3

LEMMA UnloggedStays ==
    ASSUME LogInv, LogNext, NEW r \in Requests, stage[r] = "unlogged"
    PROVE  stage'[r] = "unlogged"
<1>1. stage \in [Requests -> LogStages]
  BY DEF LogInv, LogTypeOK
<1>. QED  BY <1>1 DEF LogNext, Stamp, WriteFile, AppendIndexLine, UpdateCache, BeginCleanup,
                      RemoveOldDayDirs, PruneIndex, Crash, Restart, TimePasses

LEMMA CutsStayFit ==
    ASSUME LogInv, LogNext
    PROVE  CutsFit'
<1>. DEFINE Cut(t) == IF t = "none" THEN 0 ELSE 1
<1>1. /\ IsFiniteSet(Lost) /\ Cardinality(Lost) \in Nat /\ torn \in Nat
      /\ Cardinality(Lost) + Cut(tail) <= torn
  <2>1. IsFiniteSet(Lost) /\ torn \in Nat /\ Cardinality(Lost) + Cut(tail) <= torn
    BY LogAssumption DEF LogInv, CutsFit, LogTypeOK
  <2>. QED  BY <2>1, FS_CardinalityType
<1>2. CASE \E r \in Requests : Swallowed(r)
  <2>1. PICK r \in Requests : Swallowed(r)
    BY <1>2
  <2>2. tail # "none" /\ tail' = "none" /\ torn' = torn
    BY <2>1 DEF Swallowed
  <2>3. \A q \in Requests : Swallowed(q) => q = r
    BY <2>1 DEF Swallowed, AppendIndexLine, LogInv, LockFits, Holds
  <2>4. Lost' \subseteq Lost \cup {r}
    BY <2>3, LostComesFrom DEF Lost
  <2>5. /\ IsFiniteSet(Lost \cup {r}) /\ Cardinality(Lost \cup {r}) \in Nat
        /\ Cardinality(Lost \cup {r}) <= Cardinality(Lost) + 1
    <3>1. /\ IsFiniteSet(Lost \cup {r})
          /\ Cardinality(Lost \cup {r}) = IF r \in Lost THEN Cardinality(Lost) ELSE Cardinality(Lost) + 1
      BY <1>1, FS_AddElement, Zenon
    <3>. QED  BY <1>1, <3>1
  <2>6. IsFiniteSet(Lost') /\ Cardinality(Lost') <= Cardinality(Lost \cup {r})
    BY <2>4, <2>5, FS_Subset, Zenon
  <2>7. Cardinality(Lost') \in Nat
    BY <2>6, FS_CardinalityType
  <2>8. Cardinality(Lost') + Cut(tail') <= torn'
    BY <1>1, <2>2, <2>5, <2>6, <2>7
  <2>9. IsFiniteSet(Lost)' /\ Cardinality(Lost)' = Cardinality(Lost')
    BY <2>6
  <2>. QED  BY <2>2, <2>6, <2>8, <2>9 DEF CutsFit
<1>3. CASE ~\E r \in Requests : Swallowed(r)
  <2>1. Lost' \subseteq Lost
    BY <1>3, LostComesFrom DEF Lost
  <2>2. IsFiniteSet(Lost') /\ Cardinality(Lost') <= Cardinality(Lost)
    BY <1>1, <2>1, FS_Subset, Zenon
  <2>3. Cardinality(Lost') \in Nat
    BY <2>2, FS_CardinalityType
  <2>4. \/ tail' = "none" /\ torn' = torn
        \/ tail' = tail /\ torn' = torn
        \/ torn' = torn + 1
    BY CutChanges
  <2>5. Cardinality(Lost') + Cut(tail') <= torn'
    BY <1>1, <2>2, <2>3, <2>4
  <2>6. ASSUME tail' # "none"
        PROVE  /\ index' # <<>>
               /\ index'[Len(index')].id = Garbage \/ stage'[index'[Len(index')].id] = "unlogged"
    <3>1. index \in Seq(Line) /\ index' \in Seq(Line)
      BY TypesStay DEF LogInv, LogTypeOK
    <3>2. \A i \in DOMAIN index : index[i].id = Garbage \/ index[i].id \in Requests
      <4>1. \A i \in DOMAIN index : index[i] \in Line
        BY <3>1
      <4>. QED  BY <4>1 DEF Line
    <3>3. CASE UNCHANGED <<index, tail, torn>>
      <4>1. index # <<>> /\ Len(index) \in DOMAIN index
        <5>1. index # <<>>
          BY <2>6, <3>3 DEF LogInv, CutsFit
        <5>. QED  BY <3>1, <5>1
      <4>2. index[Len(index)].id = Garbage \/ stage[index[Len(index)].id] = "unlogged"
        BY <2>6, <3>3 DEF LogInv, CutsFit
      <4>. QED  BY <3>2, <3>3, <4>1, <4>2, UnloggedStays
    <3>4. ASSUME NEW r \in Requests, stage[r] = "filed", stage'[r] = "unlogged",
                 NEW cut \in Cuts, index' = Extended(r, cut)
          PROVE  /\ index' # <<>>
                 /\ index'[Len(index')].id = Garbage \/ stage'[index'[Len(index')].id] = "unlogged"
      <4>1. stamp[r] \in Times /\ (tail # "none" => index # <<>>) /\ LogTypeOK
        BY <3>4, LogAssumption DEF LogInv, TimesFit, CutsFit, LogTypeOK, Times
      <4>2. CASE tail = "none"
        <5>. DEFINE own == [id |-> r, time |-> stamp[r], readable |-> cut \in {"none", "edge", "field"}]
        <5>1. index' = Append(index, own)
          BY <3>4, <4>1, <4>2, ExtendedIsTyped
        <5>2. own \in Line /\ own.id = r
          BY <4>1 DEF Line
        <5>. HIDE DEF own
        <5>3. Len(index) \in Nat /\ Len(index') = Len(index) + 1 /\ index'[Len(index) + 1] = own
          BY <3>1, <5>1, <5>2, ListGrows
        <5>. QED  BY <3>1, <3>4, <5>2, <5>3
      <4>3. CASE tail # "none"
        <5>. DEFINE n == Len(index)
        <5>1. /\ n \in Nat \ {0} /\ Len(index') = n
              /\ \/ index'[n].id = Garbage
                 \/ index'[n] = [index[n] EXCEPT !.readable = FALSE]
                 \/ index'[n] = index[n]
          BY <3>4, <4>1, <4>3, ExtendedIsTyped
        <5>2. n \in DOMAIN index /\ index[n] \in Line /\ index' # <<>>
          BY <3>1, <5>1
        <5>3. index'[n].id = Garbage \/ index'[n].id = index[n].id
          BY <5>1, <5>2 DEF Line
        <5>4. index[n].id = Garbage \/ stage[index[n].id] = "unlogged"
          BY <4>3 DEF LogInv, CutsFit
        <5>. QED  BY <3>2, <5>1, <5>2, <5>3, <5>4, UnloggedStays
      <4>. QED  BY <4>2, <4>3
    <3>. QED  BY <2>6, <3>3, <3>4, CutChanges
  <2>7. IsFiniteSet(Lost)' /\ Cardinality(Lost)' = Cardinality(Lost')
    BY <2>2
  <2>. QED  BY <2>2, <2>5, <2>6, <2>7 DEF CutsFit
<1>. QED  BY <1>2, <1>3

-----------------------------------------------------------------------------
(* Steps keep the cache at the end of the index *)

\* Before any cut the last line is whole.
LEMMA UncutIsWhole ==
    ASSUME LogInv, LogNext, torn' = 0
    PROVE  torn = 0 /\ tail = "none"
<1>1. torn \in Nat /\ IsFiniteSet(Lost)
  BY LogAssumption DEF LogInv, CutsFit, LogTypeOK
<1>2. Cardinality(Lost) \in Nat
  BY <1>1, FS_CardinalityType
<1>3. torn' = torn \/ torn' = torn + 1
  BY CutChanges
<1>4. torn = 0
  BY <1>1, <1>3
<1>5. Cardinality(Lost) + (IF tail = "none" THEN 0 ELSE 1) <= 0
  BY <1>4 DEF LogInv, CutsFit
<1>. QED  BY <1>2, <1>4, <1>5

LEMMA CacheStaysFit ==
    ASSUME LogInv, LogNext
    PROVE  CacheFits'
<1>. USE DEF disk
<1>. SUFFICES ASSUME up', torn' = 0
              PROVE  \/ EndOf(cache', ReadRows(index')) /\ \A r \in Requests : stage'[r] # "indexed"
                     \/ \E r \in Requests, rows \in Seq(Row) :
                         /\ stage'[r] = "indexed" /\ EndOf(cache', rows)
                         /\ ReadRows(index') = Append(rows, RowOf(r)')
  BY DEF CacheFits, EndOf, ReadRows, Chosen, Readable
<1>1. /\ torn = 0 /\ tail = "none" /\ LockFits /\ CacheFits
      /\ index \in Seq(Line) /\ index' \in Seq(Line) /\ cache \in Seq(Row)
      /\ stage \in [Requests -> LogStages] /\ "none" \in Cuts
  BY UncutIsWhole, TypesStay DEF LogInv, LogTypeOK, Cuts
<1>2. ReadRows(index) \in Seq(Row) /\ ReadRows(index') \in Seq(Row)
  BY <1>1, RowsAreRead
<1>3. \A r \in Requests : stage[r] # "open" => RowOf(r)' = RowOf(r)
  BY TimesStayFit DEF RowOf
<1>4. ASSUME up, UNCHANGED <<index, cache>>, \A r \in Requests : stage'[r] = "indexed" <=> stage[r] = "indexed"
      PROVE  \/ EndOf(cache', ReadRows(index')) /\ \A r \in Requests : stage'[r] # "indexed"
             \/ \E r \in Requests, rows \in Seq(Row) :
                 /\ stage'[r] = "indexed" /\ EndOf(cache', rows)
                 /\ ReadRows(index') = Append(rows, RowOf(r)')
  <2>1. CASE EndOf(cache, ReadRows(index)) /\ \A r \in Requests : stage[r] # "indexed"
    BY <1>4, <2>1
  <2>2. ASSUME NEW r \in Requests, NEW rows \in Seq(Row), stage[r] = "indexed", EndOf(cache, rows),
               ReadRows(index) = Append(rows, RowOf(r))
        PROVE  /\ stage'[r] = "indexed" /\ EndOf(cache', rows)
               /\ ReadRows(index') = Append(rows, RowOf(r)')
    BY <1>3, <1>4, <2>2
  <2>. QED  BY <1>1, <1>4, <2>1, <2>2 DEF CacheFits
<1>5. ASSUME NEW r \in Requests, Stamp(r) \/ WriteFile(r)
      PROVE  up /\ UNCHANGED <<index, cache>> /\ \A q \in Requests : stage'[q] = "indexed" <=> stage[q] = "indexed"
  BY <1>1, <1>5 DEF Stamp, WriteFile
<1>6. CASE BeginCleanup \/ RemoveOldDayDirs \/ TimePasses
  <2>1. up /\ UNCHANGED <<index, cache, stage>>
    BY <1>6 DEF BeginCleanup, RemoveOldDayDirs, TimePasses
  <2>. QED  BY <1>4, <2>1
<1>7. ASSUME NEW r \in Requests, AppendIndexLine(r)
      PROVE  \/ EndOf(cache', ReadRows(index')) /\ \A q \in Requests : stage'[q] # "indexed"
             \/ \E q \in Requests, rows \in Seq(Row) :
                 /\ stage'[q] = "indexed" /\ EndOf(cache', rows)
                 /\ ReadRows(index') = Append(rows, RowOf(q)')
  <2>1. stage[r] = "filed" /\ cache' = cache /\ up
    BY <1>7 DEF AppendIndexLine
  <2>2. \A q \in Requests : stage[q] # "indexed"
    BY <1>1, <2>1 DEF LockFits, Holds
  <2>3. EndOf(cache, ReadRows(index))
    BY <1>1, <2>1, <2>2 DEF CacheFits
  <2>4. CASE index' = Extended(r, "none") /\ stage' = [stage EXCEPT ![r] = "indexed"]
    <3>. DEFINE own == [id |-> r, time |-> stamp[r], readable |-> "none" \in {"none", "edge", "field"}]
    <3>1. stamp[r] \in Times /\ LogTypeOK
      BY <2>1, LogAssumption DEF LogInv, TimesFit, LogTypeOK, Times
    <3>2. index' = Append(index, own)
      BY <1>1, <2>4, <3>1, ExtendedIsTyped
    <3>3. own \in Line /\ own.readable /\ [id |-> own.id, time |-> own.time] = RowOf(r)
      BY <3>1 DEF Line, RowOf
    <3>. HIDE DEF own
    <3>4. ReadRows(index') = Append(ReadRows(index), RowOf(r))
      BY <1>1, <3>2, <3>3, RowsGrow
    <3>5. stage'[r] = "indexed" /\ RowOf(r)' = RowOf(r)
      BY <1>1, <1>3, <2>1, <2>4
    <3>. QED  BY <1>2, <2>1, <2>3, <3>4, <3>5
  <2>5. CASE index' = index /\ stage' = [stage EXCEPT ![r] = "unlogged"]
    BY <1>1, <2>1, <2>2, <2>3, <2>5
  <2>6. torn' = torn
    BY <1>1
  <2>. QED  BY <1>1, <1>7, <2>4, <2>5, <2>6 DEF AppendIndexLine
<1>8. ASSUME NEW r \in Requests, UpdateCache(r)
      PROVE  EndOf(cache', ReadRows(index')) /\ \A q \in Requests : stage'[q] # "indexed"
  <2>1. stage[r] = "indexed" /\ index' = index /\ up
    BY <1>8 DEF UpdateCache
  <2>2. \A q \in Requests : stage[q] = "indexed" => q = r
    BY <1>1, <2>1 DEF LockFits, Holds
  <2>3. PICK rows \in Seq(Row) : EndOf(cache, rows) /\ ReadRows(index) = Append(rows, RowOf(r))
    BY <1>1, <2>1, <2>2 DEF CacheFits
  <2>4. RowOf(r) \in Row
    <3>1. stamp[r] \in Times
      BY <2>1, LogAssumption DEF LogInv, TimesFit, LogTypeOK, Times
    <3>. QED  BY <3>1 DEF RowOf, Row
  <2>5. EndOf(Append(cache, RowOf(r)), Append(rows, RowOf(r)))
    BY <1>1, <2>3, <2>4, EndsGrow
  <2>6. /\ Append(cache, RowOf(r)) \in Seq(Row) /\ Append(rows, RowOf(r)) \in Seq(Row)
        /\ cache' = Evicted(Append(cache, RowOf(r)))
    BY <1>1, <1>8, <2>4 DEF UpdateCache, RowOf
  <2>7. EndOf(cache', Append(rows, RowOf(r)))
    BY <2>5, <2>6, EvictedIsEndOf, EndOfEnd, Zenon
  <2>8. \A q \in Requests : stage'[q] # "indexed"
    BY <1>1, <1>8, <2>2 DEF UpdateCache
  <2>. QED  BY <2>1, <2>3, <2>7, <2>8
<1>9. CASE PruneIndex
  <2>1. up /\ stage' = stage /\ \A r \in Requests : stage[r] # "indexed"
    BY <1>1, <1>9 DEF PruneIndex, LockFits, Holds
  <2>2. CASE index' = KeptLines /\ cache' = LastN(ReadRows(KeptLines), CacheMax)
    BY <1>2, <2>1, <2>2, LastNIsEndOf
  <2>3. CASE UNCHANGED <<index, cache>>
    BY <1>4, <2>1, <2>3
  <2>. QED  BY <1>9, <2>2, <2>3 DEF PruneIndex
<1>10. CASE Crash
  BY <1>10 DEF Crash
<1>11. CASE Restart
  <2>1. /\ stage' = stage /\ index' = index /\ cache' = LastN(ReadRows(index), CacheMax)
        /\ \A r \in Requests : stage[r] # "indexed"
    BY <1>1, <1>11 DEF Restart, LockFits, Holds
  <2>. QED  BY <1>2, <2>1, LastNIsEndOf
<1>. QED  BY <1>4, <1>5, <1>6, <1>7, <1>8, <1>9, <1>10, <1>11 DEF LogNext

-----------------------------------------------------------------------------
(* The theorems *)

LEMMA LogStartsFit ==
    ASSUME LogInit
    PROVE  LogInv
<1>. USE DEF LogInit
<1>1. Day(MaxTime) \in Nat /\ MaxTime \in Nat \ {0} /\ Retention \in Nat \ {0}
  BY LogAssumption, DayGrows
<1>2. LogTypeOK
  BY <1>1, LogAssumption DEF LogTypeOK, Times, LogStages, Cuts
<1>3. LockFits
  BY DEF LockFits, Holds
<1>4. TimesFit
  BY <1>1 DEF TimesFit, CutoffDay
<1>5. FilesFit
  BY DEF FilesFit, Holds
<1>6. CutsFit
  <2>1. Lost = {}
    BY DEF Lost
  <2>. QED  BY <2>1, FS_EmptySet DEF CutsFit
<1>7. CacheFits
  <2>1. index \in Seq(Line) /\ DOMAIN index = {}
    OBVIOUS
  <2>2. ReadRows(index) \in Seq(Row) /\ \A j \in DOMAIN ReadRows(index) : \E i \in DOMAIN index : TRUE
    BY <2>1, RowsAreRead, Zenon
  <2>3. \A rows \in Seq(Row) : DOMAIN rows = {} => Len(rows) = 0
    OBVIOUS
  <2>4. Len(ReadRows(index)) = 0 /\ Len(cache) = 0 /\ DOMAIN cache = {}
    BY <2>1, <2>2, <2>3
  <2>5. EndOf(cache, ReadRows(index))
    BY <2>4 DEF EndOf
  <2>. QED  BY <2>5 DEF CacheFits
<1>. QED  BY <1>2, <1>3, <1>4, <1>5, <1>6, <1>7 DEF LogInv

LEMMA LogStaysFit ==
    ASSUME LogInv, [LogNext]_logVars
    PROVE  LogInv'
<1>1. CASE LogNext
  BY <1>1, TypesStay, LockStaysFit, TimesStayFit, FilesStayFit, CutsStayFit, CacheStaysFit DEF LogInv
<1>2. CASE UNCHANGED logVars
  <2>. USE <1>2 DEF logVars, disk
  <2>1. LogTypeOK'
    BY DEF LogInv, LogTypeOK
  <2>2. LockFits'
    BY DEF LogInv, LockFits, Holds
  <2>3. TimesFit'
    <3>1. CutoffDay' = CutoffDay
      BY DEF CutoffDay, Day
    <3>. QED  BY <3>1 DEF LogInv, TimesFit
  <2>4. FilesFit'
    BY DEF LogInv, FilesFit, LineFits, Holds, Expired, Day
  <2>5. CutsFit'
    <3>1. Lost' = Lost
      BY DEF Lost, Expired, IsListed, Lists, Day
    <3>. QED  BY <3>1 DEF LogInv, CutsFit
  <2>6. CacheFits'
    <3>1. /\ ReadRows(index)' = ReadRows(index)
          /\ \A r \in Requests : RowOf(r)' = RowOf(r)
          /\ \A rows : EndOf(cache, rows)' <=> EndOf(cache, rows)
      BY DEF RowOf, EndOf
    <3>. QED  BY <3>1 DEF LogInv, CacheFits
  <2>. QED  BY <2>1, <2>2, <2>3, <2>4, <2>5, <2>6 DEF LogInv
<1>. QED  BY <1>1, <1>2

\* The inductive invariant of the log: who has its lock, which times, files and
\* lines belong together, what cuts have cost, and where the cache ends.
THEOREM LogFits == LogSpec => []LogInv
<1>1. LogInit => LogInv
  BY LogStartsFit
<1>2. LogInv /\ [LogNext]_logVars => LogInv'
  BY LogStaysFit
<1>. QED  BY <1>1, <1>2, PTL DEF LogSpec

\* Every variable keeps its type; the cache never outgrows its cap.
THEOREM LogIsTyped == LogSpec => []LogTypeOK
<1>1. LogInv => LogTypeOK
  BY DEF LogInv
<1>. QED  BY <1>1, LogFits, PTL

LEMMA ListedIsListed ==
    ASSUME LogInv
    PROVE  \A r : r \in Listed <=> IsListed(r)
<1>1. index \in Seq(Line)
  BY DEF LogInv, LogTypeOK
<1>. DEFINE rows == ReadRows(index)
<1>2. /\ \A j \in DOMAIN rows : \E i \in DOMAIN index :
            index[i].readable /\ rows[j] = [id |-> index[i].id, time |-> index[i].time]
      /\ \A i \in DOMAIN index : index[i].readable =>
            \E j \in DOMAIN rows : rows[j] = [id |-> index[i].id, time |-> index[i].time]
  BY <1>1, RowsAreRead, Zenon
<1>. HIDE DEF rows
<1>3. \A j \in DOMAIN rows : \E i \in DOMAIN index : index[i].readable /\ rows[j].id = index[i].id
  BY <1>2
<1>4. \A i \in DOMAIN index : index[i].readable => \E j \in DOMAIN rows : rows[j].id = index[i].id
  BY <1>2
<1>5. Listed = {rows[j].id : j \in DOMAIN rows}
  BY DEF Listed, rows
<1>. QED  BY <1>3, <1>4, <1>5 DEF IsListed, Lists

\* However many appends are cut, and whatever sweeps and crashes come between, no
\* more logged entries are missing from the index than there were cuts
\* (appendIndexLine, forEachIndexLine, pruneIndex).
THEOREM CutsCostOneEntryEach == LogSpec => []TornLinesCostOneEntryEach
<1>1. LogInv => TornLinesCostOneEntryEach
  <2>. SUFFICES ASSUME LogInv PROVE Cardinality(Logged \ Listed) <= torn
    BY DEF TornLinesCostOneEntryEach
  <2>1. Logged \ Listed \subseteq Lost
    BY ListedIsListed DEF Logged, Lost
  <2>2. IsFiniteSet(Lost) /\ Cardinality(Lost) + (IF tail = "none" THEN 0 ELSE 1) <= torn /\ torn \in Nat
    BY LogAssumption DEF LogInv, CutsFit, LogTypeOK
  <2>3. IsFiniteSet(Logged \ Listed) /\ Cardinality(Logged \ Listed) <= Cardinality(Lost)
    BY <2>1, <2>2, FS_Subset, Zenon
  <2>4. Cardinality(Lost) \in Nat /\ Cardinality(Logged \ Listed) \in Nat
    BY <2>2, <2>3, FS_CardinalityType
  <2>. QED  BY <2>2, <2>3, <2>4
<1>. QED  BY <1>1, LogFits, PTL

\* Whatever is listed can be opened, unless its day is being removed (Write,
\* removeOldDayDirs, pruneIndex).
THEOREM ListedCanBeOpened == LogSpec => []ListedRowsHaveFiles
<1>1. LogInv => ListedRowsHaveFiles
  <2>. SUFFICES ASSUME LogInv, NEW r \in Listed \ {Garbage} PROVE Expired(r) \/ r \in files
    BY DEF ListedRowsHaveFiles
  <2>1. IsListed(r)
    BY ListedIsListed
  <2>. QED  BY <2>1 DEF IsListed, Lists, LogInv, FilesFit, LineFits
<1>. QED  BY <1>1, LogFits, PTL

LEMMA EndIsSuffix ==
    ASSUME NEW s \in Seq(Row), NEW t \in Seq(Row), EndOf(s, t)
    PROVE  IsSuffix(s, t) /\ Len(s) >= Min({CacheMin, Len(t)})
<1>. DEFINE u == Reverse(s)  v == Reverse(t)
<1>1. Len(s) \in Nat /\ Len(t) \in Nat /\ Len(s) <= Len(t) /\ DOMAIN s = 1..Len(s)
      /\ CacheMin \in Nat
  BY LogAssumption DEF EndOf
<1>2. /\ u \in Seq(Row) /\ v \in Seq(Row) /\ Len(u) = Len(s) /\ Len(v) = Len(t)
      /\ \A i \in 1..Len(s) : u[i] = s[Len(s) - i + 1]
      /\ \A i \in 1..Len(t) : v[i] = t[Len(t) - i + 1]
  BY <1>1 DEF Reverse
<1>. HIDE DEF u, v
<1>3. \A i \in 1..Len(s) : u[i] = v[i]
  <2>. TAKE i \in 1..Len(s)
  <2>1. Len(s) - i + 1 \in DOMAIN s /\ Len(t) - Len(s) + (Len(s) - i + 1) = Len(t) - i + 1
    BY <1>1
  <2>2. s[Len(s) - i + 1] = t[Len(t) - Len(s) + (Len(s) - i + 1)]
    BY <2>1 DEF EndOf
  <2>3. s[Len(s) - i + 1] = t[Len(t) - i + 1]
    BY <2>1, <2>2, Zenon
  <2>4. i \in 1..Len(t)
    BY <1>1
  <2>. QED  BY <1>2, <2>3, <2>4, Zenon
<1>4. SubSeq(u, 1, Len(u)) = SubSeq(v, 1, Len(u))
  BY <1>1, <1>2, <1>3
<1>5. IsSuffix(s, t)
  BY <1>1, <1>2, <1>4 DEF IsSuffix, IsPrefix, u, v
<1>6. Min({CacheMin, Len(t)}) \in {CacheMin, Len(t)} /\ Min({CacheMin, Len(t)}) <= CacheMin
      /\ Min({CacheMin, Len(t)}) <= Len(t)
  BY <1>1, MinIsLeast
<1>. QED  BY <1>1, <1>5, <1>6 DEF EndOf

\* As long as no append was cut, the cache is the end of the index whenever the
\* lock is free, and never shorter than CacheMin rows if the index has as many
\* (evict, warmCache, pruneIndex).
THEOREM CacheIsTail == LogSpec => []CacheIsTheTail
<1>1. LogInv => CacheIsTheTail
  <2>. SUFFICES ASSUME LogInv, Serving, torn = 0
                PROVE  IsSuffix(cache, ReadRows(index)) /\ Len(cache) >= Min({CacheMin, Len(ReadRows(index))})
    BY DEF CacheIsTheTail
  <2>1. EndOf(cache, ReadRows(index))
    BY DEF LogInv, CacheFits, Serving, Unlocked
  <2>2. cache \in Seq(Row) /\ index \in Seq(Line)
    BY DEF LogInv, LogTypeOK
  <2>3. ReadRows(index) \in Seq(Row)
    BY <2>2, RowsAreRead
  <2>. QED  BY <2>1, <2>2, <2>3, EndIsSuffix
<1>. QED  BY <1>1, LogFits, PTL

-----------------------------------------------------------------------------
(* What Since and Before return *)

LEMMA SubSeqIs ==
    ASSUME NEW S, NEW s \in Seq(S), NEW m \in 1..(Len(s) + 1), NEW n \in 0..Len(s), m <= n + 1
    PROVE  /\ SubSeq(s, m, n) \in Seq(S) /\ Len(SubSeq(s, m, n)) = n - m + 1
           /\ \A i \in 1..(n - m + 1) : SubSeq(s, m, n)[i] = s[m + i - 1]
  OBVIOUS

LEMMA ReverseIs ==
    ASSUME NEW S, NEW s \in Seq(S)
    PROVE  /\ Reverse(s) \in Seq(S) /\ Len(Reverse(s)) = Len(s)
           /\ \A i \in 1..Len(s) : Reverse(s)[i] = s[Len(s) - i + 1]
           /\ Rows(Reverse(s)) = Rows(s) /\ Reverse(Reverse(s)) = s
<1>. DEFINE u == Reverse(s)
<1>1. Len(s) \in Nat /\ DOMAIN s = 1..Len(s) /\ \A i \in 1..Len(s) : Len(s) - i + 1 \in 1..Len(s)
  OBVIOUS
<1>2. u \in Seq(S) /\ Len(u) = Len(s) /\ DOMAIN u = 1..Len(s)
      /\ \A i \in 1..Len(s) : u[i] = s[Len(s) - i + 1]
  BY <1>1 DEF Reverse
<1>3. Reverse(u) = [i \in 1..Len(u) |-> u[(Len(u) - i) + 1]]
  BY DEF Reverse
<1>. HIDE DEF u
<1>4. \A i \in 1..Len(s) : u[Len(s) - i + 1] = s[i]
  BY <1>1, <1>2
<1>5. Rows(u) = Rows(s)
  <2>1. \A i \in 1..Len(s) : u[i] \in Rows(s)
    BY <1>1, <1>2 DEF Rows
  <2>2. \A i \in 1..Len(s) : s[i] \in Rows(u)
    BY <1>1, <1>2, <1>4 DEF Rows
  <2>. QED  BY <1>1, <1>2, <2>1, <2>2 DEF Rows
<1>6. Reverse(u) = s
  BY <1>1, <1>2, <1>3, <1>4
<1>. QED  BY <1>2, <1>5, <1>6 DEF u

\* Of a cache in the order of its times, Since gives exactly what is newer.
LEMMA SinceIsExact ==
    ASSUME cache \in Seq(Row), InOrder(cache), NEW c \in Times
    PROVE  Rows(Since(c)) = {x \in Rows(cache) : x.time > c}
<1>. DEFINE old == {0} \cup {i \in DOMAIN cache : cache[i].time <= c}
            last == Max(old)  new == SubSeq(cache, last + 1, Len(cache))
<1>1. Len(cache) \in Nat /\ DOMAIN cache = 1..Len(cache) /\ old \subseteq 0..Len(cache) /\ old # {}
  OBVIOUS
<1>2. last \in old /\ \A i \in old : i <= last
  BY <1>1, MaxIsGreatest
<1>3. Times \subseteq Nat /\ \A i \in DOMAIN cache : cache[i].time \in Nat
  <2>1. Times \subseteq Nat
    BY LogAssumption DEF Times
  <2>2. \A i \in DOMAIN cache : cache[i] \in Row
    OBVIOUS
  <2>. QED  BY <2>1, <2>2 DEF Row
<1>. HIDE DEF last
<1>4. last \in 0..Len(cache)
  BY <1>1, <1>2
<1>5. \A i \in DOMAIN cache : cache[i].time > c <=> i > last
  <2>. TAKE i \in DOMAIN cache
  <2>1. CASE i > last
    <3>1. i \notin old
      BY <1>1, <1>2, <1>4, <2>1
    <3>. QED  BY <1>3, <2>1, <3>1
  <2>2. CASE i <= last
    <3>1. last \in DOMAIN cache /\ cache[last].time <= c
      BY <1>1, <1>2, <1>4, <2>2
    <3>2. cache[i].time <= cache[last].time
      BY <1>1, <1>3, <2>2, <3>1 DEF InOrder
    <3>. QED  BY <1>1, <1>3, <1>4, <2>2, <3>1, <3>2
  <2>. QED  BY <1>1, <1>4, <2>1, <2>2
<1>6. /\ new \in Seq(Row) /\ Len(new) = Len(cache) - last
      /\ \A i \in 1..(Len(cache) - last) : new[i] = cache[last + i]
  <2>1. last + 1 \in 1..(Len(cache) + 1) /\ Len(cache) \in 0..Len(cache) /\ last + 1 <= Len(cache) + 1
    BY <1>1, <1>4
  <2>2. /\ new \in Seq(Row) /\ Len(new) = Len(cache) - (last + 1) + 1
        /\ \A i \in 1..(Len(cache) - (last + 1) + 1) : new[i] = cache[last + 1 + i - 1]
    BY <2>1, SubSeqIs
  <2>. HIDE DEF new, old
  <2>. QED  BY <1>1, <1>4, <2>2
<1>. HIDE DEF new, old
<1>7. Rows(new) = {cache[i] : i \in (last + 1)..Len(cache)}
  <2>1. DOMAIN new = 1..(Len(cache) - last)
    BY <1>6
  <2>2. \A i \in (last + 1)..Len(cache) : i - last \in DOMAIN new /\ new[i - last] = cache[i]
    BY <1>1, <1>4, <1>6, <2>1
  <2>3. \A i \in DOMAIN new : last + i \in (last + 1)..Len(cache) /\ new[i] = cache[last + i]
    BY <1>1, <1>4, <1>6, <2>1
  <2>. QED  BY <2>2, <2>3 DEF Rows
<1>8. Rows(new) = {x \in Rows(cache) : x.time > c}
  <2>1. (last + 1)..Len(cache) \subseteq DOMAIN cache
        /\ \A i \in DOMAIN cache : i \in (last + 1)..Len(cache) <=> cache[i].time > c
    BY <1>1, <1>4, <1>5
  <2>2. Rows(cache) = {cache[i] : i \in DOMAIN cache}
    BY DEF Rows
  <2>3. {cache[i] : i \in (last + 1)..Len(cache)} = {x \in {cache[i] : i \in DOMAIN cache} : x.time > c}
    BY <2>1, Zenon
  <2>. QED  BY <1>7, <2>2, <2>3
<1>9. Since(c) = Reverse(new)
  BY DEF Since, new, last, old
<1>. QED  BY <1>6, <1>8, <1>9, ReverseIs

\* Of rows in the order of their times, the first that are older than c.
LEMMA OlderAreFirst ==
    ASSUME NEW rows \in Seq(Row), InOrder(rows), NEW c \in Times
    PROVE  LET stop == Min({Len(rows) + 1} \cup {i \in DOMAIN rows : rows[i].time >= c}) IN
           /\ stop \in 1..(Len(rows) + 1)
           /\ {i \in DOMAIN rows : rows[i].time < c} = 1..(stop - 1)
<1>. DEFINE rest == {Len(rows) + 1} \cup {i \in DOMAIN rows : rows[i].time >= c}
            stop == Min(rest)
<1>1. Len(rows) \in Nat /\ DOMAIN rows = 1..Len(rows) /\ rest \subseteq Nat /\ rest # {}
  OBVIOUS
<1>2. stop \in rest /\ \A i \in rest : stop <= i
  BY <1>1, MinIsLeast
<1>3. c \in Nat /\ \A i \in DOMAIN rows : rows[i].time \in Nat
  <2>1. c \in Nat
    BY LogAssumption DEF Times
  <2>2. \A i \in DOMAIN rows : rows[i] \in Row /\ Times \subseteq Nat
    BY LogAssumption DEF Times
  <2>. QED  BY <2>1, <2>2 DEF Row
<1>. HIDE DEF stop
<1>4. stop \in 1..(Len(rows) + 1)
  BY <1>1, <1>2
<1>5. \A i \in DOMAIN rows : rows[i].time < c <=> i < stop
  <2>. TAKE i \in DOMAIN rows
  <2>1. CASE i < stop
    <3>1. i \notin rest
      BY <1>1, <1>2, <1>4, <2>1
    <3>. QED  BY <1>3, <2>1, <3>1
  <2>2. CASE stop <= i
    <3>1. stop \in DOMAIN rows /\ rows[stop].time >= c
      BY <1>1, <1>2, <1>4, <2>2
    <3>2. rows[stop].time <= rows[i].time
      BY <1>1, <1>3, <2>2, <3>1 DEF InOrder
    <3>. QED  BY <1>1, <1>3, <1>4, <2>2, <3>1, <3>2
  <2>. QED  BY <1>1, <1>4, <2>1, <2>2
<1>6. {i \in DOMAIN rows : rows[i].time < c} = 1..(stop - 1)
  BY <1>1, <1>4, <1>5
<1>. QED  BY <1>4, <1>6 DEF stop

\* Of an index in the order of its times, Before gives as many of the older rows as
\* fit, the newest of them, newest first.
LEMMA BeforeIsExact ==
    ASSUME NEW rows, rows = ReadRows(index), rows \in Seq(Row), InOrder(rows),
           NEW c \in Times, NEW limit \in 1..CacheMax,
           NEW older, older = {i \in DOMAIN rows : rows[i].time < c},
           NEW page, page = Before(c, limit)
    PROVE  /\ Len(page) = Min({limit, Cardinality(older)}) /\ InOrder(Reverse(page))
           /\ \A x \in Rows(page) :
                /\ x.time < c
                /\ \A i \in older : rows[i] \in Rows(page) \/ rows[i].time <= x.time
<1>. DEFINE stop == Min({Len(rows) + 1} \cup {i \in DOMAIN rows : rows[i].time >= c})
            k == stop - 1  first == SubSeq(rows, 1, k)  last == LastN(first, limit)
<1>1. limit \in Nat \ {0} /\ Len(rows) \in Nat /\ DOMAIN rows = 1..Len(rows)
  BY LogAssumption
<1>2. k \in 0..Len(rows) /\ older = 1..k
  <2>1. stop \in 1..(Len(rows) + 1) /\ older = 1..(stop - 1)
    BY OlderAreFirst
  <2>. HIDE DEF stop
  <2>. QED  BY <1>1, <2>1
<1>3. page = Reverse(last)
  BY DEF Before
<1>. HIDE DEF k
<1>4. first \in Seq(Row) /\ Len(first) = k /\ \A i \in 1..k : first[i] = rows[i]
  <2>1. 1 \in 1..(Len(rows) + 1) /\ 1 <= k + 1
    BY <1>1, <1>2
  <2>2. /\ first \in Seq(Row) /\ Len(first) = k - 1 + 1
        /\ \A i \in 1..(k - 1 + 1) : first[i] = rows[1 + i - 1]
    BY <1>2, <2>1, SubSeqIs
  <2>. HIDE DEF first
  <2>. QED  BY <1>1, <1>2, <2>2
<1>. HIDE DEF first
<1>5. /\ last \in Seq(Row) /\ Len(last) = (IF k <= limit THEN k ELSE limit)
      /\ \A i \in DOMAIN last : last[i] = first[k - Len(last) + i]
  BY <1>1, <1>4, LastNIsTheEnd
<1>. HIDE DEF last
<1>. DEFINE m == Len(last)  skipped == k - m
<1>6. m \in Nat /\ skipped \in Nat /\ m + skipped = k /\ DOMAIN last = 1..m
  BY <1>1, <1>2, <1>5
<1>7. \A i \in 1..m : skipped + i \in older /\ last[i] = rows[skipped + i]
  <2>1. \A i \in 1..m : last[i] = first[skipped + i]
    BY <1>5, <1>6
  <2>. HIDE DEF skipped, m
  <2>2. \A i \in 1..m : skipped + i \in 1..k
    BY <1>1, <1>2, <1>6
  <2>. QED  BY <1>2, <1>4, <2>1, <2>2
<1>8. /\ Reverse(page) = last /\ Rows(page) = Rows(last) /\ Len(page) = m
  BY <1>3, <1>5, ReverseIs
<1>9. Len(page) = Min({limit, Cardinality(older)})
  <2>1. Cardinality(1..k) = IF 1 > k THEN 0 ELSE k - 1 + 1
    BY <1>1, <1>2, FS_Interval
  <2>2. Cardinality(older) = Cardinality(1..k)
    BY <1>2
  <2>3. k \in Nat
    BY <1>1, <1>2
  <2>4. Cardinality(older) = k
    BY <2>1, <2>2, <2>3
  <2>5. Min({limit, k}) \in {limit, k} /\ Min({limit, k}) <= limit /\ Min({limit, k}) <= k
    BY <1>1, <2>3, MinIsLeast
  <2>6. m = Min({limit, k})
    BY <1>1, <1>5, <2>3, <2>5
  <2>. QED  BY <1>8, <2>4, <2>6
<1>. HIDE DEF skipped, m
<1>10. \A i \in DOMAIN rows : rows[i].time \in Nat
  <2>1. \A i \in DOMAIN rows : rows[i] \in Row /\ Times \subseteq Nat
    BY LogAssumption DEF Times
  <2>. QED  BY <2>1 DEF Row
<1>11. older \subseteq DOMAIN rows
  OBVIOUS
<1>12. InOrder(last)
  <2>. SUFFICES ASSUME NEW i \in 1..m, NEW j \in 1..m, i < j PROVE last[i].time <= last[j].time
    BY <1>6 DEF InOrder
  <2>1. skipped + i < skipped + j
    BY <1>6
  <2>. QED  BY <1>7, <1>11, <2>1 DEF InOrder
<1>13. ASSUME NEW x \in Rows(last)
       PROVE  /\ x.time < c
              /\ \A i \in older : rows[i] \in Rows(last) \/ rows[i].time <= x.time
  <2>1. PICK j \in 1..m : x = last[j]
    BY <1>6 DEF Rows
  <2>2. skipped + j \in older /\ x = rows[skipped + j]
    BY <1>7, <2>1
  <2>3. ASSUME NEW i \in older PROVE rows[i] \in Rows(last) \/ rows[i].time <= x.time
    <3>1. CASE i <= skipped
      <4>1. i < skipped + j
        BY <1>1, <1>2, <1>6, <3>1
      <4>. QED  BY <1>11, <2>2, <4>1 DEF InOrder
    <3>2. CASE ~(i <= skipped)
      <4>1. i - skipped \in 1..m /\ skipped + (i - skipped) = i
        BY <1>1, <1>2, <1>6, <3>2
      <4>2. last[i - skipped] = rows[i]
        BY <1>7, <4>1
      <4>. QED  BY <1>6, <4>1, <4>2 DEF Rows
    <3>. QED  BY <3>1, <3>2
  <2>. QED  BY <2>2, <2>3
<1>. QED  BY <1>8, <1>9, <1>12, <1>13

\* While the entries are in the order of their times, Since tells everything newer
\* that is cached, and Before pages through the older rows without a gap, newest
\* first (Since, Before).
THEOREM ReadersExact == LogSpec => []ReadersAreExact
<1>1. LogInv => ReadersAreExact
  <2>. SUFFICES ASSUME LogInv, InOrder(ReadRows(index)), NEW c \in Times
                PROVE  /\ InOrder(cache) => Rows(Since(c)) = {x \in Rows(cache) : x.time > c}
                       /\ \A limit \in 1..CacheMax :
                            LET rows == ReadRows(index)
                                older == {i \in DOMAIN rows : rows[i].time < c}
                                page == Before(c, limit) IN
                            /\ Len(page) = Min({limit, Cardinality(older)}) /\ InOrder(Reverse(page))
                            /\ \A x \in Rows(page) :
                                /\ x.time < c
                                /\ \A i \in older : rows[i] \in Rows(page) \/ rows[i].time <= x.time
    BY DEF ReadersAreExact
  <2>1. cache \in Seq(Row) /\ index \in Seq(Line)
    BY DEF LogInv, LogTypeOK
  <2>2. ReadRows(index) \in Seq(Row)
    BY <2>1, RowsAreRead
  <2>3. InOrder(cache) => Rows(Since(c)) = {x \in Rows(cache) : x.time > c}
    BY <2>1, SinceIsExact
  <2>. QED  BY <2>2, <2>3, BeforeIsExact, Zenon
<1>. QED  BY <1>1, LogFits, PTL
=============================================================================
