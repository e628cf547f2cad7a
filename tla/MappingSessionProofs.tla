------------------------ MODULE MappingSessionProofs ------------------------
(***************************************************************************)
(* For programs of any size, samples of any length, and any number of      *)
(* edits: the zones stay well formed, an undo gives back what was heard,   *)
(* and edits of slices move boundaries only.                               *)
(*                                                                         *)
(* Every operation of ProgramMapping leads from a program to one that      *)
(* evolves from it: it has its assets and groups and may have more assets, *)
(* its zones fit if the zones before did, and the range of a group is that *)
(* of its zones or as it was, with zones of the same ranges.  An entry of  *)
(* the history that was made in this program keeps a state all of whose    *)
(* zones the program has, which is all that an undo asks for.              *)
(***************************************************************************)
EXTENDS MappingSession, FiniteSetTheorems, SequenceTheorems, WellFoundedInduction, TLAPS

-----------------------------------------------------------------------------
(* The inductive invariant.                                                *)

\* An edit of a window is one of the loop, too: the sliders give both.
Edits == {e \in [zone : Nat, asset : Nat, lo : Int, hi : Int, root : Int,
                 start : Int, end : Int, ls : Int, le : Int, gain : Int] :
            e.start # Unset \/ e.end # Unset => e.ls # Unset \/ e.le # Unset}
Sliders == [zone : Nat, asset : Nat, lo : Int, hi : Int, root : Int,
            start : Int, end : Int, ls : Nat, le : Nat, gain : Int]
Rows == [asset : Nat, lo : Int, hi : Int, root : Int, gain : Int,
         start : Nat, end : Nat, ls : Int, le : Int]

\* The program, and how its zones and groups agree with it.
StoreOK ==
  /\ IsProgram(program)
  /\ path = None => program = Empty
  /\ slices \in BOOLEAN /\ trusted \in BOOLEAN /\ library \in Nat
  /\ DOMAIN program.groups = DOMAIN origin.groups
  /\ trusted => Fits(program)
  /\ GroupCoversZones

\* The rows may be of an older program, but there is one for each that is selected.
Shows(R, S, c) ==
  /\ R \in Seq(Rows)
  /\ S \subseteq DOMAIN R
  /\ Cardinality(S) = 1 => c \in Sliders

ViewOK == Shows(rows, selection, control)

\* The state of an entry is one of program p, whose zones it may take.
OfProgram(entry, p, t) ==
  /\ \A i \in DOMAIN entry.state : Has(p, entry.state[i])
  /\ t => /\ Fits([p EXCEPT !.zones = entry.state])
          /\ sound([p EXCEPT !.zones = entry.state]) = entry.sound

EntryOK(entry, p, t, l) ==
  /\ entry.kind \in {"settings", "mapping"}
  /\ entry.kind = "mapping" =>
       /\ entry.state \in Seq(Zones) /\ Len(entry.state) <= MaxZones
       /\ entry.library \in Nat /\ entry.library <= l
       /\ entry.library = l => OfProgram(entry, p, t)

IsList(s) == Len(s) \in Nat /\ s = [i \in 1 .. Len(s) |-> s[i]]

StackOK(stack, p, t, l) ==
  IsList(stack) /\ \A i \in 1 .. Len(stack) : EntryOK(stack[i], p, t, l)

HistoryOK(h, p, t, l) ==
  /\ h = [undo |-> h.undo, redo |-> h.redo, after |-> h.after, last |-> h.last, path |-> h.path]
  /\ StackOK(h.undo, p, t, l) /\ StackOK(h.redo, p, t, l)

SessionInv == StoreOK /\ ViewOK /\ HistoryOK(history, program, trusted, library)

-----------------------------------------------------------------------------
(* Numbers.                                                                *)

\* Every non-empty set of natural numbers has a least element.
LEMMA LeastExists ==
  ASSUME NEW M, M \subseteq Nat, M # {}
  PROVE  \E x \in M : \A y \in M : x <= y
<1> DEFINE R == OpToRel(<, Nat)
<1>1. \A x, y \in Nat : y < x => <<y, x>> \in R
  BY DEF OpToRel
<1>2. IsWellFoundedOn(R, Nat)
  BY NatLessThanWellFounded
<1> HIDE DEF R
<1>3. PICK x \in M : \A y \in M : ~(<<y, x>> \in R)
  BY <1>2, WFMin
<1>4. \A y \in M : y \in Nat /\ x \in Nat /\ ~(y < x)
  BY <1>1, <1>3
<1> QED
  BY <1>4

LEMMA Least ==
  ASSUME NEW M, M \subseteq Nat, M # {}
  PROVE  Min(M) \in M /\ \A y \in M : Min(M) <= y
<1>1. \E x \in M : \A y \in M : x =< y
  BY LeastExists
<1> QED
  BY <1>1 DEF Min

LEMMA Greatest ==
  ASSUME NEW n \in Nat, NEW M, M \subseteq 0 .. n, M # {}
  PROVE  Max(M) \in M /\ \A y \in M : y <= Max(M)
<1> DEFINE D == {n - x : x \in M}
<1>1. D \subseteq Nat /\ D # {}
  <2>1. \A x \in M : n - x \in Nat
    OBVIOUS
  <2>2. PICK x \in M : TRUE
    OBVIOUS
  <2>3. n - x \in D
    OBVIOUS
  <2> QED BY <2>1, <2>3
<1>2. PICK d \in D : \A y \in D : d <= y
  <2> HIDE DEF D
  <2> QED BY <1>1, LeastExists
<1>3. PICK x \in M : d = n - x
  OBVIOUS
<1>4. \A y \in M : y \in Nat /\ x \in Nat /\ d <= n - y
  BY <1>2
<1>5. \A y \in M : x >= y
  BY <1>3, <1>4
<1>6. \E m \in M : \A y \in M : m >= y
  BY <1>5
<1>7. Max(M) \in M /\ \A y \in M : Max(M) >= y
  BY <1>6 DEF Max
<1> QED
  BY <1>7

LEMMA LeastOfTwo ==
  ASSUME NEW a \in Int, NEW b \in Int
  PROVE  Min({a, b}) = IF a <= b THEN a ELSE b
<1>1. CASE a <= b
  <2>1. \A y \in {a, b} : a =< y
    BY <1>1
  <2>2. \A x \in {a, b} : (\A y \in {a, b} : x =< y) => x = a
    BY <1>1
  <2>3. (CHOOSE x \in {a, b} : \A y \in {a, b} : x =< y) = a
    BY <2>1, <2>2
  <2> QED BY <1>1, <2>3 DEF Min
<1>2. CASE ~(a <= b)
  <2>1. \A y \in {a, b} : b =< y
    BY <1>2
  <2>2. \A x \in {a, b} : (\A y \in {a, b} : x =< y) => x = b
    BY <1>2
  <2>3. (CHOOSE x \in {a, b} : \A y \in {a, b} : x =< y) = b
    BY <2>1, <2>2
  <2> QED BY <1>2, <2>3 DEF Min
<1> QED
  BY <1>1, <1>2

LEMMA GreatestOfTwo ==
  ASSUME NEW a \in Int, NEW b \in Int
  PROVE  Max({a, b}) = IF a >= b THEN a ELSE b
<1>1. CASE a >= b
  <2>1. \A y \in {a, b} : a >= y
    BY <1>1
  <2>2. \A x \in {a, b} : (\A y \in {a, b} : x >= y) => x = a
    BY <1>1
  <2>3. (CHOOSE x \in {a, b} : \A y \in {a, b} : x >= y) = a
    BY <2>1, <2>2
  <2> QED BY <1>1, <2>3 DEF Max
<1>2. CASE ~(a >= b)
  <2>1. \A y \in {a, b} : b >= y
    BY <1>2
  <2>2. \A x \in {a, b} : (\A y \in {a, b} : x >= y) => x = b
    BY <1>2
  <2>3. (CHOOSE x \in {a, b} : \A y \in {a, b} : x >= y) = b
    BY <2>1, <2>2
  <2> QED BY <1>2, <2>3 DEF Max
<1> QED
  BY <1>1, <1>2

\* What is limited lies between the bounds, and is kept if it did before.
LEMMA Limited ==
  ASSUME NEW a \in Int, NEW b \in Int, NEW x \in Int
  PROVE  /\ limit(a, b, x) \in Int
         /\ a <= b => a <= limit(a, b, x) /\ limit(a, b, x) <= b
         /\ a <= x /\ x <= b => limit(a, b, x) = x
         /\ limit(a, b, x) = IF x < a THEN a ELSE IF b < x THEN b ELSE x
BY DEF limit

LEMMA KeyIsKey ==
  ASSUME NEW x \in Int
  PROVE  key(x) \in 0 .. MaxKey /\ (x \in 0 .. MaxKey => key(x) = x)
<1>1. MaxKey \in Nat
  BY MappingAssumption
<1> QED
  BY <1>1, Limited DEF key

-----------------------------------------------------------------------------
(* Sequences and places.                                                   *)

\* A function on 1 .. n is a sequence.
LEMMA IsSequence ==
  ASSUME NEW S, NEW n \in Nat, NEW f, f = [k \in 1 .. n |-> f[k]], \A k \in 1 .. n : f[k] \in S
  PROVE  f \in Seq(S) /\ Len(f) = n /\ DOMAIN f = 1 .. n
<1>1. f \in [1 .. n -> S]
  OBVIOUS
<1>2. f \in Seq(S)
  BY <1>1, SeqDef
<1>3. Len(f) \in Nat /\ DOMAIN f = 1 .. Len(f)
  BY <1>2, LenProperties
<1>4. Len(f) = n
  BY <1>1, <1>3
<1> QED
  BY <1>2, <1>3, <1>4

LEMMA SequenceParts ==
  ASSUME NEW S, NEW s \in Seq(S)
  PROVE  /\ Len(s) \in Nat /\ DOMAIN s = 1 .. Len(s)
         /\ s = [k \in 1 .. Len(s) |-> s[k]]
         /\ \A k \in DOMAIN s : s[k] \in S
<1>1. Len(s) \in Nat /\ DOMAIN s = 1 .. Len(s) /\ s \in [1 .. Len(s) -> S]
  BY LenProperties
<1> QED
  BY <1>1

LEMMA Appended ==
  ASSUME NEW S, NEW s \in Seq(S), NEW x \in S
  PROVE  /\ Append(s, x) \in Seq(S) /\ Len(Append(s, x)) = Len(s) + 1
         /\ DOMAIN Append(s, x) = 1 .. Len(s) + 1
         /\ \A k \in DOMAIN s : k \in DOMAIN Append(s, x) /\ Append(s, x)[k] = s[k]
         /\ Append(s, x)[Len(s) + 1] = x /\ Len(s) + 1 \in DOMAIN Append(s, x)
<1>1. Append(s, x) \in Seq(S)
  BY AppendProperties
<1>2. Len(s) \in Nat /\ DOMAIN s = 1 .. Len(s)
  BY LenProperties
<1>3. /\ Len(Append(s, x)) = Len(s) + 1
      /\ \A i \in 1 .. Len(s) : Append(s, x)[i] = s[i]
      /\ Append(s, x)[Len(s) + 1] = x
  BY AppendProperties
<1>4. DOMAIN Append(s, x) = 1 .. Len(s) + 1
  BY <1>1, <1>3, LenProperties
<1> QED
  BY <1>1, <1>2, <1>3, <1>4

\* The places of a set, counted by their ranks, are the numbers from 0.
LEMMA Places ==
  ASSUME NEW n \in Nat, NEW I \in SUBSET (1 .. n), NEW rank, \A i \in I : rank[i] \in Nat
  PROVE  /\ IsFiniteSet(I) /\ Cardinality(I) \in Nat /\ Cardinality(I) <= n
         /\ \A i \in I : place(I, rank, i) \in 0 .. Cardinality(I) - 1
         /\ \A i, j \in I : place(I, rank, i) = place(I, rank, j) => i = j
         /\ \A k \in 0 .. Cardinality(I) - 1 : \E i \in I : place(I, rank, i) = k
<1> DEFINE m == Cardinality(I)
           Before(j, i) == rank[j] < rank[i] \/ (rank[j] = rank[i] /\ j < i)
           B(i) == {j \in I : Before(j, i)}
           R(i) == place(I, rank, i)
<1>1. \A i \in I : R(i) = Cardinality(B(i))
  BY DEF place
<1>2. IsFiniteSet(I) /\ m \in Nat /\ m <= n
  <2>1. IsFiniteSet(1 .. n) /\ Cardinality(1 .. n) = n
    BY FS_Interval
  <2> QED
    BY <2>1, FS_Subset, FS_CardinalityType
<1>3. \A i \in I : i \in Nat /\ rank[i] \in Nat
  OBVIOUS
<1>4. \A i, j \in I : i # j => Before(i, j) \/ Before(j, i)
  BY <1>3
<1>5. \A i, j, l \in I : Before(i, j) /\ Before(j, l) => Before(i, l)
  BY <1>3
<1>6. \A i \in I : ~Before(i, i)
  BY <1>3
<1> HIDE DEF Before, m, R
<1>7. ASSUME NEW i \in I
      PROVE  IsFiniteSet(B(i)) /\ R(i) \in 0 .. m - 1
  <2>1. IsFiniteSet(I \ {i}) /\ Cardinality(I \ {i}) = m - 1
    BY <1>2, FS_RemoveElement DEF m
  <2>2. B(i) \in SUBSET (I \ {i})
    BY <1>6
  <2>3. IsFiniteSet(B(i)) /\ Cardinality(B(i)) <= m - 1
    <3> HIDE DEF B
    <3> QED BY <2>1, <2>2, FS_Subset
  <2>4. Cardinality(B(i)) \in Nat
    BY <2>3, FS_CardinalityType
  <2> QED
    BY <1>1, <1>2, <2>3, <2>4
<1>8. ASSUME NEW i \in I, NEW j \in I, Before(i, j), R(i) = R(j)
      PROVE  FALSE
  <2>1. B(i) \in SUBSET B(j)
    BY <1>5, <1>8
  <2>2. B(i) = B(j)
    <3> HIDE DEF B
    <3> QED BY <1>1, <1>7, <1>8, <2>1, FS_Subset
  <2>3. i \in B(j)
    BY <1>8
  <2> QED
    BY <1>6, <2>2, <2>3
<1>9. \A i, j \in I : R(i) = R(j) => i = j
  BY <1>4, <1>8
<1> HIDE DEF B
<1> DEFINE f == [i \in I |-> R(i) + 1]
<1>10. \A k \in 0 .. m - 1 : \E i \in I : R(i) = k
  <2>1. IsFiniteSet(1 .. m) /\ Cardinality(1 .. m) = m
    BY <1>2, FS_Interval
  <2>2. /\ f \in [I -> 1 .. m]
        /\ \A i \in I : f[i] = R(i) + 1
        /\ \A i, j \in I : f[i] = f[j] => i = j
    <3>1. \A i \in I : R(i) + 1 \in 1 .. m /\ R(i) \in Int
      BY <1>2, <1>7
    <3> QED BY <1>9, <3>1
  <2> HIDE DEF f
  <2>3. f \in Injection(I, 1 .. m)
    BY <2>2 DEF Injection, IsInjective
  <2>4. f \in Surjection(I, 1 .. m)
    <3>1. Cardinality(I) = Cardinality(1 .. m)
      BY <2>1 DEF m
    <3> QED BY <1>2, <2>1, <2>3, <3>1, FS_Injection
  <2>5. \A k \in 1 .. m : \E i \in I : f[i] = k
    BY <2>2, <2>4 DEF Surjection
  <2>6. ASSUME NEW k \in 0 .. m - 1 PROVE \E i \in I : R(i) = k
    <3>1. k + 1 \in 1 .. m
      BY <1>2
    <3>2. PICK i \in I : f[i] = k + 1
      BY <2>5, <3>1
    <3>3. R(i) \in Int /\ R(i) + 1 = k + 1
      BY <1>7, <2>2, <3>2
    <3> QED BY <3>3
  <2> QED
    BY <2>6
<1> QED
  BY <1>2, <1>7, <1>9, <1>10 DEF R, m

\* Every place is one of the set's.
LEMMA AtPlace ==
  ASSUME NEW n \in Nat, NEW I \in SUBSET (1 .. n), NEW rank, \A i \in I : rank[i] \in Nat
  PROVE  \A k \in 0 .. Cardinality(I) - 1 : \E i \in I : place(I, rank, i) = k
<1> DEFINE m == Cardinality(I)
<1>1. /\ m \in Nat
      /\ \A i \in I : place(I, rank, i) \in 0 .. m - 1
      /\ \A i, j \in I : place(I, rank, i) = place(I, rank, j) => i = j
      /\ \A k \in 0 .. m - 1 : \E i \in I : place(I, rank, i) = k
  BY Places
<1> QED
  BY <1>1

\* In order, each place of the set is there once.
LEMMA Ordered ==
  ASSUME NEW n \in Nat, NEW I \in SUBSET (1 .. n), NEW rank, \A i \in I : rank[i] \in Nat
  PROVE  /\ DOMAIN ordered(I, rank) = 1 .. Cardinality(I) /\ Cardinality(I) \in Nat
         /\ Len(ordered(I, rank)) = Cardinality(I)
         /\ \A k \in 1 .. Cardinality(I) :
              ordered(I, rank)[k] \in I /\ place(I, rank, ordered(I, rank)[k]) = k - 1
         /\ \A k, l \in 1 .. Cardinality(I) : ordered(I, rank)[k] = ordered(I, rank)[l] => k = l
         /\ \A i \in I : /\ place(I, rank, i) + 1 \in 1 .. Cardinality(I)
                         /\ ordered(I, rank)[place(I, rank, i) + 1] = i
<1> DEFINE m == Cardinality(I)
           s == ordered(I, rank)
<1>1. s = [k \in 1 .. m |-> CHOOSE i \in I : place(I, rank, i) = k - 1]
  BY DEF ordered
<1>2. /\ m \in Nat
      /\ \A i \in I : place(I, rank, i) \in 0 .. m - 1
      /\ \A i, j \in I : place(I, rank, i) = place(I, rank, j) => i = j
      /\ \A k \in 0 .. m - 1 : \E i \in I : place(I, rank, i) = k
  BY Places
<1> HIDE DEF m, s
<1>3. ASSUME NEW k \in 1 .. m PROVE s[k] \in I /\ place(I, rank, s[k]) = k - 1
  <2>1. k - 1 \in 0 .. m - 1
    BY <1>2
  <2>2. \E i \in I : place(I, rank, i) = k - 1
    BY <1>2, <2>1
  <2>3. s[k] = CHOOSE i \in I : place(I, rank, i) = k - 1
    BY <1>1
  <2> QED BY <2>2, <2>3
<1>4. ASSUME NEW k \in 1 .. m, NEW l \in 1 .. m, s[k] = s[l] PROVE k = l
  <2>1. k - 1 = l - 1
    BY <1>3, <1>4
  <2> QED BY <1>2, <2>1
<1>5. ASSUME NEW i \in I PROVE place(I, rank, i) + 1 \in 1 .. m /\ s[place(I, rank, i) + 1] = i
  <2>1. place(I, rank, i) + 1 \in 1 .. m /\ (place(I, rank, i) + 1) - 1 = place(I, rank, i)
    BY <1>2
  <2>2. s[place(I, rank, i) + 1] = i
    BY <1>2, <1>3, <2>1
  <2> QED BY <2>1, <2>2
<1>6. DOMAIN s = 1 .. m /\ Len(s) = m
  <2>1. s = [k \in 1 .. m |-> s[k]] /\ DOMAIN s = 1 .. m
    BY <1>1
  <2> QED BY <1>2, <1>3, <2>1, IsSequence
<1> QED
  BY <1>2, <1>3, <1>4, <1>5, <1>6 DEF m, s

\* The places of a whole sequence, in their order.
LEMMA OrderOfAll ==
  ASSUME NEW n \in Nat
  PROVE  LET order == ordered(1 .. n, [i \in 1 .. n |-> i])
         IN  DOMAIN order = 1 .. n /\ \A k \in 1 .. n : order[k] = k
<1> DEFINE id == [i \in 1 .. n |-> i]
           order == ordered(1 .. n, id)
<1>1. Cardinality(1 .. n) = n
  BY FS_Interval
<1>2. ASSUME NEW i \in 1 .. n PROVE place(1 .. n, id, i) = i - 1
  <2>1. {j \in 1 .. n : id[j] < id[i] \/ (id[j] = id[i] /\ j < i)} = 1 .. i - 1
    OBVIOUS
  <2>2. Cardinality(1 .. i - 1) = i - 1
    <3>1. 1 \in Int /\ i - 1 \in Int
      OBVIOUS
    <3>2. Cardinality(1 .. i - 1) = IF 1 > i - 1 THEN 0 ELSE (i - 1) - 1 + 1
      BY <3>1, FS_Interval
    <3> QED BY <3>2
  <2> HIDE DEF id
  <2> QED BY <2>1, <2>2 DEF place
<1>3. \A i \in 1 .. n : id[i] \in Nat
  OBVIOUS
<1> HIDE DEF id
<1>4. /\ DOMAIN order = 1 .. n
      /\ \A k \in 1 .. n : order[k] \in 1 .. n /\ place(1 .. n, id, order[k]) = k - 1
  <2>1. 1 .. n \in SUBSET (1 .. n)
    OBVIOUS
  <2>2. /\ DOMAIN order = 1 .. Cardinality(1 .. n)
        /\ \A k \in 1 .. Cardinality(1 .. n) :
             order[k] \in 1 .. n /\ place(1 .. n, id, order[k]) = k - 1
    BY <1>3, <2>1, Ordered, Zenon
  <2> QED BY <1>1, <2>2
<1> HIDE DEF order
<1>5. ASSUME NEW k \in 1 .. n PROVE order[k] = k
  <2>1. order[k] \in 1 .. n /\ order[k] - 1 = k - 1
    BY <1>2, <1>4
  <2> QED BY <2>1
<1> QED
  BY <1>4, <1>5 DEF id, order

\* What is selected of a sequence.
LEMMA Selected ==
  ASSUME NEW S, NEW s \in Seq(S), NEW I \in SUBSET (DOMAIN s)
  PROVE  /\ select(s, I) \in Seq(S) /\ Len(select(s, I)) <= Len(s)
         /\ Len(select(s, I)) = Cardinality(I)
         /\ \A k \in DOMAIN select(s, I) : \E i \in I : select(s, I)[k] = s[i]
         /\ \A i \in I : \E k \in DOMAIN select(s, I) : select(s, I)[k] = s[i]
<1> DEFINE id == [i \in I |-> i]
           order == ordered(I, id)
           t == select(s, I)
           m == Cardinality(I)
<1>1. Len(s) \in Nat /\ DOMAIN s = 1 .. Len(s) /\ \A k \in DOMAIN s : s[k] \in S
  BY SequenceParts
<1>2. I \in SUBSET (1 .. Len(s)) /\ \A i \in I : id[i] \in Nat
  BY <1>1
<1> HIDE DEF id
<1>3. /\ DOMAIN order = 1 .. m /\ m \in Nat
      /\ \A k \in 1 .. m : order[k] \in I
      /\ \A i \in I : \E k \in 1 .. m : order[k] = i
  <2>1. PICK n \in Nat : I \in SUBSET (1 .. n)
    BY <1>1, <1>2
  <2>2. DOMAIN order = 1 .. m /\ m \in Nat
    BY <1>2, <2>1, Ordered
  <2>3. ASSUME NEW k \in 1 .. m PROVE order[k] \in I
    BY <1>2, <2>1, Ordered, ZenonT(30)
  <2>4. ASSUME NEW i \in I PROVE \E k \in 1 .. m : order[k] = i
    <3>1. place(I, id, i) + 1 \in 1 .. m /\ order[place(I, id, i) + 1] = i
      BY <1>2, <2>1, Ordered
    <3> QED BY <3>1
  <2> QED BY <2>2, <2>3, <2>4
<1>4. m <= Len(s)
  BY <1>1, <1>2, Places
<1>5. t = [k \in DOMAIN order |-> s[order[k]]]
  BY DEF select, id
<1> HIDE DEF order, t, m
<1>6. /\ t = [k \in 1 .. m |-> t[k]]
      /\ \A k \in 1 .. m : t[k] = s[order[k]] /\ t[k] \in S
  BY <1>1, <1>3, <1>5
<1>7. t \in Seq(S) /\ Len(t) = m /\ DOMAIN t = 1 .. m
  BY <1>3, <1>6, IsSequence
<1> QED
  BY <1>3, <1>4, <1>6, <1>7 DEF t, m

LEMMA SelectAll ==
  ASSUME NEW S, NEW s \in Seq(S)
  PROVE  select(s, DOMAIN s) = s
<1>1. Len(s) \in Nat /\ DOMAIN s = 1 .. Len(s) /\ s = [k \in 1 .. Len(s) |-> s[k]]
  BY SequenceParts
<1> DEFINE order == ordered(1 .. Len(s), [i \in 1 .. Len(s) |-> i])
<1>2. DOMAIN order = 1 .. Len(s) /\ \A k \in 1 .. Len(s) : order[k] = k
  BY <1>1, OrderOfAll
<1>3. select(s, DOMAIN s) = [k \in DOMAIN order |-> s[order[k]]]
  BY <1>1 DEF select
<1> HIDE DEF order
<1> QED
  BY <1>1, <1>2, <1>3

\* What an insertion makes of a sequence.
LEMMA Inserted ==
  ASSUME NEW S, NEW s \in Seq(S), NEW a \in 1 .. Len(s) + 1, NEW x \in S
  PROVE  /\ InsertAt(s, a, x) \in Seq(S) /\ Len(InsertAt(s, a, x)) = Len(s) + 1
         /\ \A k \in 1 .. Len(s) + 1 :
              InsertAt(s, a, x)[k] = IF k < a THEN s[k] ELSE IF k = a THEN x ELSE s[k - 1]
<1> DEFINE L == SubSeq(s, 1, a - 1)
           R == SubSeq(s, a, Len(s))
           M == L \o <<x>>
<1>1. Len(s) \in Nat /\ DOMAIN s = 1 .. Len(s) /\ \A k \in DOMAIN s : s[k] \in S
  BY SequenceParts
<1>2. /\ L \in Seq(S) /\ Len(L) = a - 1
      /\ \A i \in 1 .. a - 1 : L[i] = s[i]
  <2>1. \A i \in 1 .. a - 1 : s[i] \in S
    BY <1>1
  <2>2. /\ L \in Seq(S)
        /\ Len(L) = IF 1 <= a - 1 THEN (a - 1) - 1 + 1 ELSE 0
        /\ \A i \in 1 .. (a - 1) - 1 + 1 : L[i] = s[1 + i - 1]
    <3>1. 1 \in Int /\ a - 1 \in Int
      BY <1>1
    <3> QED BY <2>1, <3>1, SubSeqProperties
  <2>3. \A i \in 1 .. a - 1 : i \in 1 .. (a - 1) - 1 + 1 /\ 1 + i - 1 = i
    BY <1>1
  <2> QED BY <1>1, <2>2, <2>3
<1>3. /\ R \in Seq(S) /\ Len(R) = Len(s) - a + 1
      /\ \A i \in 1 .. Len(s) - a + 1 : R[i] = s[a + i - 1]
  <2>1. \A i \in a .. Len(s) : s[i] \in S
    BY <1>1
  <2>2. /\ R \in Seq(S)
        /\ Len(R) = IF a <= Len(s) THEN Len(s) - a + 1 ELSE 0
        /\ \A i \in 1 .. Len(s) - a + 1 : R[i] = s[a + i - 1]
    BY <1>1, <2>1, SubSeqProperties
  <2> QED BY <1>1, <2>2
<1> HIDE DEF L, R
<1>4. <<x>> \in Seq(S) /\ Len(<<x>>) = 1 /\ <<x>>[1] = x
  OBVIOUS
<1>5. /\ M \in Seq(S) /\ Len(M) = a
      /\ \A i \in 1 .. a : M[i] = IF i < a THEN s[i] ELSE x
  <2>1. M \in Seq(S) /\ Len(M) = Len(L) + Len(<<x>>)
        /\ \A i \in 1 .. Len(L) + Len(<<x>>) :
             M[i] = IF i <= Len(L) THEN L[i] ELSE <<x>>[i - Len(L)]
    BY <1>2, <1>4, ConcatProperties
  <2>2. Len(L) + Len(<<x>>) = a /\ a \in Nat
    BY <1>1, <1>2, <1>4
  <2> HIDE DEF M
  <2>3. ASSUME NEW i \in 1 .. a PROVE M[i] = IF i < a THEN s[i] ELSE x
    <3>1. M[i] = IF i <= a - 1 THEN L[i] ELSE <<x>>[i - (a - 1)]
      BY <1>2, <2>1, <2>2
    <3>2. CASE i < a
      BY <1>2, <2>2, <3>1, <3>2
    <3>3. CASE i = a
      <4>1. i - (a - 1) = 1 /\ ~(i <= a - 1)
        BY <2>2, <3>3
      <4> QED BY <1>4, <3>1, <3>3, <4>1
    <3> QED BY <2>2, <3>2, <3>3
  <2> QED BY <2>1, <2>2, <2>3
<1>6. InsertAt(s, a, x) = M \o R
  BY DEF InsertAt, L, R
<1> HIDE DEF M
<1>7. /\ M \o R \in Seq(S) /\ Len(M \o R) = Len(M) + Len(R)
      /\ \A i \in 1 .. Len(M) + Len(R) :
           (M \o R)[i] = IF i <= Len(M) THEN M[i] ELSE R[i - Len(M)]
  BY <1>3, <1>5, ConcatProperties
<1>8. Len(M) + Len(R) = Len(s) + 1 /\ a \in Nat
  BY <1>1, <1>3, <1>5
<1>9. ASSUME NEW k \in 1 .. Len(s) + 1
      PROVE  (M \o R)[k] = IF k < a THEN s[k] ELSE IF k = a THEN x ELSE s[k - 1]
  <2>1. (M \o R)[k] = IF k <= a THEN M[k] ELSE R[k - a]
    BY <1>5, <1>7, <1>8
  <2>2. CASE k <= a
    BY <1>5, <1>8, <2>1, <2>2
  <2>3. CASE k > a
    <3>1. k - a \in 1 .. Len(s) - a + 1 /\ a + (k - a) - 1 = k - 1
      BY <1>1, <1>8, <2>3
    <3>2. R[k - a] = s[k - 1]
      BY <1>3, <3>1
    <3> QED BY <1>8, <2>1, <2>3, <3>2
  <2> QED BY <1>8, <2>2, <2>3
<1> QED
  BY <1>6, <1>7, <1>8, <1>9

-----------------------------------------------------------------------------
(* Programs, and what may come of them.                                    *)

Ranges == [lo : 0 .. MaxKey, hi : 0 .. MaxKey]
Typed(p) ==
  /\ p \in [zones : Seq(Zones), assets : Seq(Samples), groups : Seq(Ranges)]
  /\ \A i \in DOMAIN p.zones : Has(p, p.zones[i])

Extends(p, r) ==
  /\ \A a \in DOMAIN p.assets : a \in DOMAIN r.assets /\ r.assets[a] = p.assets[a]
  /\ DOMAIN r.groups = DOMAIN p.groups

GroupsFollow(p, r) ==
  \A g \in DOMAIN r.groups :
    Tight(r, g) \/ (r.groups[g] = p.groups[g] /\ ranges(r, g) = ranges(p, g))

Evolves(p, r) == Typed(r) /\ Extends(p, r) /\ GroupsFollow(p, r) /\ (Fits(p) => Fits(r))

LEMMA ZoneParts ==
  ASSUME NEW z \in Zones
  PROVE  /\ z.asset \in Nat \ {0} /\ z.group \in Nat
         /\ z.lo \in 0 .. MaxKey /\ z.hi \in 0 .. MaxKey /\ z.root \in 0 .. MaxKey /\ z.lo <= z.hi
         /\ z.lo \in Nat /\ z.hi \in Nat /\ z.root \in Nat
         /\ z.start \in Nat /\ z.end \in Int /\ z.ls \in Int /\ z.le \in Int /\ z.gain \in Int
         /\ z = [asset |-> z.asset, group |-> z.group, lo |-> z.lo, hi |-> z.hi, root |-> z.root,
                 start |-> z.start, end |-> z.end, ls |-> z.ls, le |-> z.le, gain |-> z.gain]
<1>1. MaxKey \in Nat
  BY MappingAssumption
<1> QED
  BY <1>1 DEF Zones

LEMMA ProgramParts ==
  ASSUME NEW p, Typed(p)
  PROVE  /\ p = [zones |-> p.zones, assets |-> p.assets, groups |-> p.groups]
         /\ p.zones \in Seq(Zones) /\ p.assets \in Seq(Samples) /\ p.groups \in Seq(Ranges)
         /\ Len(p.zones) \in Nat /\ DOMAIN p.zones = 1 .. Len(p.zones)
         /\ Len(p.assets) \in Nat /\ DOMAIN p.assets = 1 .. Len(p.assets)
         /\ Len(p.groups) \in Nat /\ DOMAIN p.groups = 1 .. Len(p.groups)
         /\ \A i \in DOMAIN p.zones :
              /\ p.zones[i] \in Zones /\ Has(p, p.zones[i])
              /\ p.zones[i].asset \in DOMAIN p.assets /\ p.zones[i].group <= Len(p.groups)
         /\ \A a \in DOMAIN p.assets : Length[p.assets[a]] \in Nat \ {0}
<1>1. /\ p = [zones |-> p.zones, assets |-> p.assets, groups |-> p.groups]
      /\ p.zones \in Seq(Zones) /\ p.assets \in Seq(Samples) /\ p.groups \in Seq(Ranges)
  BY DEF Typed
<1>2. /\ Len(p.zones) \in Nat /\ DOMAIN p.zones = 1 .. Len(p.zones)
      /\ \A i \in DOMAIN p.zones : p.zones[i] \in Zones
  BY <1>1, SequenceParts
<1>3. /\ Len(p.assets) \in Nat /\ DOMAIN p.assets = 1 .. Len(p.assets)
      /\ \A a \in DOMAIN p.assets : p.assets[a] \in Samples
  BY <1>1, SequenceParts
<1>4. Len(p.groups) \in Nat /\ DOMAIN p.groups = 1 .. Len(p.groups)
  BY <1>1, SequenceParts
<1>5. \A a \in DOMAIN p.assets : Length[p.assets[a]] \in Nat \ {0}
  BY <1>3, MappingAssumption
<1>6. \A i \in DOMAIN p.zones : Has(p, p.zones[i])
  BY DEF Typed
<1> QED
  BY <1>1, <1>2, <1>3, <1>4, <1>5, <1>6 DEF Has

LEMMA WithZones ==
  ASSUME NEW p, Typed(p), NEW zs
  PROVE  LET q == [p EXCEPT !.zones = zs]
         IN  /\ q.zones = zs /\ q.assets = p.assets /\ q.groups = p.groups
             /\ q = [zones |-> zs, assets |-> p.assets, groups |-> p.groups]
             /\ zs \in Seq(Zones) /\ (\A k \in DOMAIN zs : Has(p, zs[k])) => Typed(q)
<1> DEFINE q == [p EXCEPT !.zones = zs]
<1>1. p = [zones |-> p.zones, assets |-> p.assets, groups |-> p.groups]
      /\ p.assets \in Seq(Samples) /\ p.groups \in Seq(Ranges)
  BY DEF Typed
<1>2. q = [zones |-> zs, assets |-> p.assets, groups |-> p.groups]
  BY <1>1
<1> HIDE DEF q
<1>3. q.zones = zs /\ q.assets = p.assets /\ q.groups = p.groups
  BY <1>2
<1>4. ASSUME zs \in Seq(Zones), \A k \in DOMAIN zs : Has(p, zs[k]) PROVE Typed(q)
  <2>1. q \in [zones : Seq(Zones), assets : Seq(Samples), groups : Seq(Ranges)]
    BY <1>1, <1>2, <1>4
  <2>2. \A k \in DOMAIN zs : Has(q, zs[k])
    BY <1>3, <1>4 DEF Has
  <2> QED BY <1>3, <2>1, <2>2 DEF Typed
<1> QED
  BY <1>2, <1>3, <1>4 DEF q

\* Whether a zone fits depends on the assets only.
LEMMA FitsByAssets ==
  ASSUME NEW p, NEW r, Extends(p, r), NEW z, z.asset \in DOMAIN p.assets
  PROVE  fits(r, z) <=> fits(p, z)
<1>1. r.assets[z.asset] = p.assets[z.asset]
  BY DEF Extends
<1> QED
  BY <1>1 DEF fits, windowEnd

LEMMA ZonesOf ==
  ASSUME NEW p, NEW g, NEW z
  PROVE  z \in zonesOf(p, g) <=> \E i \in DOMAIN p.zones : z = p.zones[i] /\ p.zones[i].group = g
BY DEF zonesOf, ToSet

\* A group's range after the recomputing of some.
LEMMA Recomputed ==
  ASSUME NEW q, Typed(q), NEW G
  PROVE  LET r == recompute(q, G)
         IN  /\ Typed(r)
             /\ r.zones = q.zones /\ r.assets = q.assets /\ DOMAIN r.groups = DOMAIN q.groups
             /\ \A g \in DOMAIN q.groups : g \in G => Tight(r, g)
             /\ \A g \in DOMAIN q.groups : g \notin G => r.groups[g] = q.groups[g]
<1> DEFINE r == recompute(q, G)
           low(g) == Min({z.lo : z \in zonesOf(q, g)})
           high(g) == Max({z.hi : z \in zonesOf(q, g)})
           groups == [g \in DOMAIN q.groups |->
                        IF g \notin G \/ zonesOf(q, g) = {} THEN q.groups[g]
                        ELSE [lo |-> low(g), hi |-> high(g)]]
<1>1. /\ q = [zones |-> q.zones, assets |-> q.assets, groups |-> q.groups]
      /\ q.zones \in Seq(Zones) /\ q.assets \in Seq(Samples) /\ q.groups \in Seq(Ranges)
      /\ Len(q.groups) \in Nat /\ DOMAIN q.groups = 1 .. Len(q.groups)
      /\ \A i \in DOMAIN q.zones : q.zones[i] \in Zones /\ Has(q, q.zones[i])
  BY ProgramParts
<1>2. r = [zones |-> q.zones, assets |-> q.assets, groups |-> groups]
  <2>1. r = [q EXCEPT !.groups = groups]
    BY Zenon DEF recompute
  <2> HIDE DEF r, groups
  <2> QED BY <1>1, <2>1
<1>3. \A g \in DOMAIN q.groups : q.groups[g] \in Ranges
  BY <1>1, SequenceParts
<1>4. ASSUME NEW g \in DOMAIN q.groups, zonesOf(q, g) # {}
      PROVE  [lo |-> low(g), hi |-> high(g)] \in Ranges
  <2>1. \A z \in zonesOf(q, g) : z \in Zones
    BY <1>1, ZonesOf
  <2>2. {z.lo : z \in zonesOf(q, g)} \subseteq 0 .. MaxKey /\ {z.hi : z \in zonesOf(q, g)} \subseteq 0 .. MaxKey
    BY <2>1, ZoneParts
  <2>3. {z.lo : z \in zonesOf(q, g)} # {} /\ {z.hi : z \in zonesOf(q, g)} # {}
    BY <1>4
  <2>4. MaxKey \in Nat
    BY MappingAssumption
  <2>5. {z.lo : z \in zonesOf(q, g)} \subseteq Nat
    BY <2>2, <2>4
  <2>6. low(g) \in 0 .. MaxKey
    BY <2>2, <2>3, <2>5, Least
  <2>7. high(g) \in 0 .. MaxKey
    BY <2>2, <2>3, <2>4, Greatest
  <2> HIDE DEF low, high
  <2> QED BY <2>6, <2>7 DEF Ranges
<1> HIDE DEF low, high
<1>5. groups \in Seq(Ranges) /\ DOMAIN groups = DOMAIN q.groups
  <2>1. \A g \in DOMAIN q.groups : groups[g] \in Ranges
    BY <1>3, <1>4
  <2>2. groups = [g \in 1 .. Len(q.groups) |-> groups[g]]
    BY <1>1
  <2> HIDE DEF groups
  <2> QED BY <1>1, <2>1, <2>2, IsSequence
<1>6. \A g \in DOMAIN q.groups :
        groups[g] = IF g \notin G \/ zonesOf(q, g) = {} THEN q.groups[g]
                    ELSE [lo |-> low(g), hi |-> high(g)]
  OBVIOUS
<1> HIDE DEF groups, r
<1>7. r.zones = q.zones /\ r.assets = q.assets /\ r.groups = groups
  BY <1>2
<1>8. Typed(r)
  <2>1. r \in [zones : Seq(Zones), assets : Seq(Samples), groups : Seq(Ranges)]
    BY <1>1, <1>2, <1>5
  <2>2. Len(groups) = Len(q.groups)
    <3>1. Len(groups) \in Nat /\ DOMAIN groups = 1 .. Len(groups)
      BY <1>5, SequenceParts
    <3> QED BY <1>1, <1>5, <3>1
  <2>3. \A i \in DOMAIN r.zones : Has(r, r.zones[i])
    BY <1>1, <1>7, <2>2 DEF Has
  <2> QED BY <2>1, <2>3 DEF Typed
<1>9. \A g : zonesOf(r, g) = zonesOf(q, g)
  BY <1>7 DEF zonesOf
<1>10. ASSUME NEW g \in DOMAIN q.groups, g \in G PROVE Tight(r, g)
  <2>1. CASE zonesOf(q, g) = {}
    BY <1>9, <2>1 DEF Tight
  <2>2. CASE zonesOf(q, g) # {}
    <3>1. r.groups[g] = [lo |-> low(g), hi |-> high(g)]
      BY <1>6, <1>7, <1>10, <2>2
    <3>2. r.groups[g].lo = low(g) /\ r.groups[g].hi = high(g)
      BY <3>1
    <3>3. low(g) = Min({z.lo : z \in zonesOf(r, g)}) /\ high(g) = Max({z.hi : z \in zonesOf(r, g)})
      BY <1>9, Zenon DEF low, high
    <3> QED BY <3>2, <3>3 DEF Tight
  <2> QED BY <2>1, <2>2
<1>11. \A g \in DOMAIN q.groups : g \notin G => r.groups[g] = q.groups[g]
  BY <1>6, <1>7
<1> QED
  BY <1>5, <1>7, <1>8, <1>10, <1>11 DEF r

\* The tightness of a range depends on the ranges of its zones.
LEMMA TightByRanges ==
  ASSUME NEW p, NEW r, NEW g, Tight(p, g), r.groups[g] = p.groups[g], ranges(r, g) = ranges(p, g)
  PROVE  Tight(r, g)
<1> DEFINE lows(q) == {z.lo : z \in zonesOf(q, g)}
           highs(q) == {z.hi : z \in zonesOf(q, g)}
<1>1. ASSUME NEW q, NEW s, ranges(q, g) = ranges(s, g), NEW z \in zonesOf(q, g)
      PROVE  z.lo \in lows(s) /\ z.hi \in highs(s)
  <2>1. <<z.lo, z.hi>> \in ranges(q, g)
    BY DEF ranges
  <2>2. <<z.lo, z.hi>> \in ranges(s, g)
    BY <1>1, <2>1
  <2>3. PICK y \in zonesOf(s, g) : <<z.lo, z.hi>> = <<y.lo, y.hi>>
    BY <2>2 DEF ranges
  <2>4. z.lo = y.lo /\ z.hi = y.hi
    BY <2>3
  <2> QED BY <2>4
<1>2. lows(r) = lows(p) /\ highs(r) = highs(p)
  BY <1>1
<1>3. zonesOf(r, g) # {} => zonesOf(p, g) # {}
  BY <1>1
<1> QED
  BY <1>2, <1>3 DEF Tight

LEMMA EvolvesFurther ==
  ASSUME NEW p, NEW q, NEW r, Evolves(p, q), Evolves(q, r)
  PROVE  Evolves(p, r)
<1>1. Typed(r) /\ (Fits(p) => Fits(r))
  BY DEF Evolves
<1>2. Extends(p, r)
  BY DEF Evolves, Extends
<1>3. ASSUME NEW g \in DOMAIN r.groups
      PROVE  Tight(r, g) \/ (r.groups[g] = p.groups[g] /\ ranges(r, g) = ranges(p, g))
  <2>1. Tight(r, g) \/ (r.groups[g] = q.groups[g] /\ ranges(r, g) = ranges(q, g))
    BY DEF Evolves, GroupsFollow
  <2>2. g \in DOMAIN q.groups
    BY DEF Evolves, Extends
  <2>3. Tight(q, g) \/ (q.groups[g] = p.groups[g] /\ ranges(q, g) = ranges(p, g))
    BY <2>2 DEF Evolves, GroupsFollow
  <2> QED BY <2>1, <2>3, TightByRanges
<1> QED
  BY <1>1, <1>2, <1>3 DEF Evolves, GroupsFollow

SameRange(y, z) == y.group = z.group /\ y.lo = z.lo /\ y.hi = z.hi

\* Zones that a program has, the groups of those that are new recomputed.
LEMMA Revised ==
  ASSUME NEW p, Typed(p), NEW zs \in Seq(Zones), NEW G,
         \A k \in DOMAIN zs : Has(p, zs[k]),
         Fits(p) => \A k \in DOMAIN zs : fits(p, zs[k]),
         \A k \in DOMAIN zs : zs[k].group \in G \/ \E i \in DOMAIN p.zones : SameRange(zs[k], p.zones[i]),
         \A i \in DOMAIN p.zones : p.zones[i].group \in G \/ \E k \in DOMAIN zs : SameRange(zs[k], p.zones[i])
  PROVE  LET r == recompute([p EXCEPT !.zones = zs], G)
         IN  Evolves(p, r) /\ r.zones = zs /\ r.assets = p.assets
<1> DEFINE q == [p EXCEPT !.zones = zs]
           r == recompute(q, G)
<1>1. q.zones = zs /\ q.assets = p.assets /\ q.groups = p.groups /\ Typed(q)
  BY WithZones
<1> HIDE DEF q
<1>2. /\ Typed(r)
      /\ r.zones = q.zones /\ r.assets = q.assets /\ DOMAIN r.groups = DOMAIN q.groups
      /\ \A g \in DOMAIN q.groups : g \in G => Tight(r, g)
      /\ \A g \in DOMAIN q.groups : g \notin G => r.groups[g] = q.groups[g]
  BY <1>1, Recomputed
<1> HIDE DEF r
<1>3. Extends(p, r)
  BY <1>1, <1>2 DEF Extends
<1>4. ASSUME NEW g \in DOMAIN r.groups, g \notin G PROVE ranges(r, g) = ranges(p, g)
  <2>1. ASSUME NEW z \in zonesOf(r, g) PROVE <<z.lo, z.hi>> \in ranges(p, g)
    <3>1. PICK k \in DOMAIN zs : z = zs[k] /\ zs[k].group = g
      BY <1>1, <1>2, ZonesOf
    <3>2. PICK i \in DOMAIN p.zones : SameRange(zs[k], p.zones[i])
      BY <1>4, <3>1
    <3>3. p.zones[i] \in zonesOf(p, g)
      BY <3>1, <3>2, ZonesOf DEF SameRange
    <3>4. z.lo = p.zones[i].lo /\ z.hi = p.zones[i].hi
      BY <3>1, <3>2 DEF SameRange
    <3> QED BY <3>3, <3>4 DEF ranges
  <2>2. ASSUME NEW z \in zonesOf(p, g) PROVE <<z.lo, z.hi>> \in ranges(r, g)
    <3>1. PICK i \in DOMAIN p.zones : z = p.zones[i] /\ p.zones[i].group = g
      BY ZonesOf
    <3>2. PICK k \in DOMAIN zs : SameRange(zs[k], p.zones[i])
      BY <1>4, <3>1
    <3>3. zs[k] \in zonesOf(r, g)
      BY <1>1, <1>2, <3>1, <3>2, ZonesOf DEF SameRange
    <3>4. z.lo = zs[k].lo /\ z.hi = zs[k].hi
      BY <3>1, <3>2 DEF SameRange
    <3> QED BY <3>3, <3>4 DEF ranges
  <2> QED BY <2>1, <2>2 DEF ranges
<1>5. GroupsFollow(p, r)
  BY <1>1, <1>2, <1>4 DEF GroupsFollow
<1>6. ASSUME Fits(p) PROVE Fits(r)
  <2>1. \A k \in DOMAIN zs : fits(r, zs[k])
    BY <1>3, <1>6, FitsByAssets DEF Has
  <2> QED BY <1>1, <1>2, <2>1 DEF Fits
<1> QED
  BY <1>1, <1>2, <1>3, <1>5, <1>6 DEF Evolves, r, q

-----------------------------------------------------------------------------
(* Edits of one zone.                                                      *)

SameSound(y, z) == y.asset = z.asset /\ y.start = z.start /\ y.end = z.end /\ y.ls = z.ls /\ y.le = z.le

LEMMA FitsAsItSounds ==
  ASSUME NEW p, NEW y, NEW z, SameSound(y, z)
  PROVE  windowEnd(p, y) = windowEnd(p, z) /\ (fits(p, y) <=> fits(p, z))
BY DEF SameSound, fits, windowEnd

LEMMA Unordered ==
  ASSUME NEW z \in Zones, NEW a \in Int, NEW b \in Int
  PROVE  LET y == fromUnordered(z, a, b)
         IN  /\ y \in Zones /\ SameSound(y, z)
             /\ y.group = z.group /\ y.root = z.root /\ y.gain = z.gain
<1> DEFINE low == Min({key(a), key(b)})
           high == Max({key(a), key(b)})
           y == fromUnordered(z, a, b)
<1>1. MaxKey \in Nat /\ key(a) \in 0 .. MaxKey /\ key(b) \in 0 .. MaxKey
  BY MappingAssumption, KeyIsKey
<1>2. low \in 0 .. MaxKey /\ high \in 0 .. MaxKey /\ low <= high
  <2>1. key(a) \in Int /\ key(b) \in Int
    BY <1>1
  <2>2. low = IF key(a) <= key(b) THEN key(a) ELSE key(b)
    BY <2>1, LeastOfTwo
  <2>3. high = IF key(a) >= key(b) THEN key(a) ELSE key(b)
    BY <2>1, GreatestOfTwo
  <2> HIDE DEF low, high
  <2> QED BY <1>1, <2>1, <2>2, <2>3
<1>3. y = [z EXCEPT !.lo = low, !.hi = high]
  BY DEF fromUnordered
<1> HIDE DEF low, high, y
<1>4. y = [asset |-> z.asset, group |-> z.group, lo |-> low, hi |-> high, root |-> z.root,
           start |-> z.start, end |-> z.end, ls |-> z.ls, le |-> z.le, gain |-> z.gain]
  <2>1. z = [asset |-> z.asset, group |-> z.group, lo |-> z.lo, hi |-> z.hi, root |-> z.root,
             start |-> z.start, end |-> z.end, ls |-> z.ls, le |-> z.le, gain |-> z.gain]
    BY ZoneParts
  <2> QED BY <1>3, <2>1
<1>5. y \in Zones
  BY <1>2, <1>4, ZoneParts DEF Zones
<1>6. y.asset = z.asset /\ y.start = z.start /\ y.end = z.end /\ y.ls = z.ls /\ y.le = z.le
      /\ y.group = z.group /\ y.root = z.root /\ y.gain = z.gain
  BY <1>4
<1> QED
  BY <1>5, <1>6 DEF y, SameSound

\* A zone with another key for its root, sample or gain.
retuned(z, root, asset, gain) == [z EXCEPT !.root = root, !.asset = asset, !.gain = gain]

LEMMA Retuned ==
  ASSUME NEW z \in Zones, NEW root \in 0 .. MaxKey, NEW asset \in Nat \ {0}, NEW gain \in Int
  PROVE  LET y == retuned(z, root, asset, gain)
         IN  /\ y \in Zones
             /\ y.asset = asset /\ y.group = z.group /\ y.lo = z.lo /\ y.hi = z.hi /\ y.root = root
             /\ y.start = z.start /\ y.end = z.end /\ y.ls = z.ls /\ y.le = z.le
<1> DEFINE y == retuned(z, root, asset, gain)
<1> DEFINE w == [z EXCEPT !.root = root, !.asset = asset]
<1>1. y = [asset |-> asset, group |-> z.group, lo |-> z.lo, hi |-> z.hi, root |-> root,
           start |-> z.start, end |-> z.end, ls |-> z.ls, le |-> z.le, gain |-> gain]
  <2>1. z = [asset |-> z.asset, group |-> z.group, lo |-> z.lo, hi |-> z.hi, root |-> z.root,
             start |-> z.start, end |-> z.end, ls |-> z.ls, le |-> z.le, gain |-> z.gain]
    BY ZoneParts
  <2>2. w = [asset |-> asset, group |-> z.group, lo |-> z.lo, hi |-> z.hi, root |-> root,
             start |-> z.start, end |-> z.end, ls |-> z.ls, le |-> z.le, gain |-> z.gain]
    <3>1. w = [z EXCEPT !.root = root, !.asset = asset]
      OBVIOUS
    <3> HIDE DEF w
    <3> QED BY <2>1, <3>1
  <2>3. y = [w EXCEPT !.gain = gain]
    BY DEF retuned
  <2> HIDE DEF w, y
  <2> QED BY <2>2, <2>3
<1> HIDE DEF y
<1>2. y \in Zones
  BY <1>1, ZoneParts DEF Zones
<1> QED
  BY <1>1, <1>2 DEF y

LEMMA Rooted ==
  ASSUME NEW z \in Zones, NEW root \in 0 .. MaxKey, NEW y, y = [z EXCEPT !.root = root]
  PROVE  y \in Zones /\ SameSound(y, z) /\ SameRange(y, z)
<1>1. y = [asset |-> z.asset, group |-> z.group, lo |-> z.lo, hi |-> z.hi, root |-> root,
           start |-> z.start, end |-> z.end, ls |-> z.ls, le |-> z.le, gain |-> z.gain]
  <2>1. z = [asset |-> z.asset, group |-> z.group, lo |-> z.lo, hi |-> z.hi, root |-> z.root,
            start |-> z.start, end |-> z.end, ls |-> z.ls, le |-> z.le, gain |-> z.gain]
    BY ZoneParts
  <2> QED BY <2>1
<1>2. y \in Zones
  BY <1>1, ZoneParts DEF Zones
<1>3. SameSound(y, z) /\ SameRange(y, z)
  BY <1>1 DEF SameSound, SameRange
<1> QED
  BY <1>2, <1>3

\* A zone with another window or loop.
recut(z, start, end, ls, le) ==
  [asset |-> z.asset, group |-> z.group, lo |-> z.lo, hi |-> z.hi, root |-> z.root,
   start |-> start, end |-> end, ls |-> ls, le |-> le, gain |-> z.gain]

IsRecut(y, z, start, end, ls, le) ==
  /\ y \in Zones /\ SameRange(y, z) /\ y.asset = z.asset /\ y.root = z.root
  /\ y.start = start /\ y.end = end /\ y.ls = ls /\ y.le = le

LEMMA Cut ==
  ASSUME NEW z \in Zones, NEW a \in Nat, NEW b \in Int, NEW c \in Int, NEW d \in Int
  PROVE  IsRecut(recut(z, a, b, c, d), z, a, b, c, d)
<1> DEFINE y == recut(z, a, b, c, d)
<1>1. y = [asset |-> z.asset, group |-> z.group, lo |-> z.lo, hi |-> z.hi, root |-> z.root,
           start |-> a, end |-> b, ls |-> c, le |-> d, gain |-> z.gain]
  BY DEF recut
<1> HIDE DEF y
<1>2. y \in Zones
  BY <1>1, ZoneParts DEF Zones
<1>3. SameRange(y, z)
  BY <1>1 DEF SameRange
<1>4. IsRecut(y, z, a, b, c, d)
  BY <1>1, <1>2, <1>3 DEF IsRecut
<1> QED
  BY <1>4 DEF y

\* How the code reads the window of a zone.
LEMMA Resolved ==
  ASSUME NEW p, Typed(p), NEW z \in Zones, z.asset \in DOMAIN p.assets
  PROVE  LET L == Length[p.assets[z.asset]]
             last == resolveSampleEndInclusive(z, L)
         IN  /\ L \in Nat \ {0} /\ resolveSampleLength(p, z) = L
             /\ windowEnd(p, z) \in Int
             /\ last \in 0 .. L - 1
             /\ z.start < L => z.start <= last
             /\ z.start < L /\ windowEnd(p, z) <= L => last = windowEnd(p, z) - 1
             /\ z.start < L /\ windowEnd(p, z) <= L => resolveZoneSampleEndExclusive(p, z) = windowEnd(p, z)
             /\ resolveZoneSampleEndExclusive(p, z) \in Int
<1> DEFINE L == Length[p.assets[z.asset]]
           last == resolveSampleEndInclusive(z, L)
<1>1. L \in Nat \ {0}
  BY ProgramParts
<1>2. resolveSampleLength(p, z) = L
  BY DEF resolveSampleLength
<1>3. z.start \in Nat /\ z.end \in Int
  BY ZoneParts
<1>4. windowEnd(p, z) = IF z.end > z.start THEN z.end ELSE L
  BY DEF windowEnd
<1>5. last = IF z.end > z.start THEN limit(z.start, L - 1, z.end - 1) ELSE L - 1
  BY DEF resolveSampleEndInclusive
<1>6. resolveZoneSampleEndExclusive(p, z) = IF z.end > z.start THEN limit(z.start + 1, L, z.end) ELSE L
  BY <1>2 DEF resolveZoneSampleEndExclusive
<1> HIDE DEF L, last
<1>7. windowEnd(p, z) \in Int
  BY <1>1, <1>3, <1>4
<1>8. /\ last \in 0 .. L - 1
      /\ z.start < L => z.start <= last
      /\ z.start < L /\ windowEnd(p, z) <= L => last = windowEnd(p, z) - 1
  BY <1>1, <1>3, <1>4, <1>5 DEF limit
<1>9. /\ z.start < L /\ windowEnd(p, z) <= L => resolveZoneSampleEndExclusive(p, z) = windowEnd(p, z)
      /\ resolveZoneSampleEndExclusive(p, z) \in Int
  BY <1>1, <1>3, <1>4, <1>6 DEF limit
<1> QED
  BY <1>1, <1>2, <1>7, <1>8, <1>9 DEF L, last

LEMMA Windowed ==
  ASSUME NEW p, Typed(p), NEW z \in Zones, z.asset \in DOMAIN p.assets,
         NEW e, e.start \in Int, e.end \in Int
  PROVE  LET y == window(p, z, e)
             L == Length[p.assets[z.asset]]
         IN  /\ y \in Zones /\ SameRange(y, z) /\ y.asset = z.asset /\ y.root = z.root
             /\ y.ls = z.ls /\ y.le = z.le
             /\ y.start < windowEnd(p, y) /\ windowEnd(p, y) <= L
<1> DEFINE L == Length[p.assets[z.asset]]
           first == limit(0, L - 1, IF e.start = Unset THEN z.start ELSE e.start)
           end == 1 + limit(first, L - 1, IF e.end = Unset THEN resolveSampleEndInclusive(z, L) ELSE e.end)
           y == window(p, z, e)
<1>1. /\ L \in Nat \ {0} /\ resolveSampleLength(p, z) = L /\ resolveSampleEndInclusive(z, L) \in 0 .. L - 1
  BY Resolved
<1>2. (L - 1) + 1 = L
  BY <1>1
<1>3. y = [z EXCEPT !.start = first, !.end = end]
  BY <1>1, <1>2, Zenon DEF window
<1>4. z.start \in Nat /\ z.ls \in Int /\ z.le \in Int
  BY ZoneParts
<1> HIDE DEF L
<1>5. first \in 0 .. L - 1
  <2> DEFINE x == IF e.start = Unset THEN z.start ELSE e.start
  <2>1. x \in Int /\ L - 1 \in Int /\ 0 \in Int /\ 0 <= L - 1
    BY <1>1, <1>4
  <2> HIDE DEF x
  <2>2. limit(0, L - 1, x) \in Int /\ 0 <= limit(0, L - 1, x) /\ limit(0, L - 1, x) <= L - 1
    BY <2>1 DEF limit
  <2> QED BY <2>1, <2>2 DEF x
<1> HIDE DEF first
<1>6. end \in Int /\ first < end /\ end <= L
  <2> DEFINE x == IF e.end = Unset THEN resolveSampleEndInclusive(z, L) ELSE e.end
  <2>1. x \in Int /\ L - 1 \in Int /\ first \in Int /\ first <= L - 1
    BY <1>1, <1>5
  <2> HIDE DEF x
  <2>2. limit(first, L - 1, x) \in Int /\ first <= limit(first, L - 1, x) /\ limit(first, L - 1, x) <= L - 1
    BY <2>1 DEF limit
  <2>3. end = 1 + limit(first, L - 1, x)
    BY DEF x
  <2> HIDE DEF end
  <2> QED BY <1>1, <1>5, <2>2, <2>3
<1> HIDE DEF end, y
<1>7. y = recut(z, first, end, z.ls, z.le)
  <2>1. z = [asset |-> z.asset, group |-> z.group, lo |-> z.lo, hi |-> z.hi, root |-> z.root,
             start |-> z.start, end |-> z.end, ls |-> z.ls, le |-> z.le, gain |-> z.gain]
    BY ZoneParts
  <2> QED BY <1>3, <2>1 DEF recut
<1>8. /\ y \in Zones /\ SameRange(y, z) /\ y.asset = z.asset /\ y.root = z.root
      /\ y.start = first /\ y.end = end /\ y.ls = z.ls /\ y.le = z.le
  <2>1. first \in Nat
    BY <1>1, <1>5
  <2>2. end \in Int
    BY <1>6
  <2>3. z.ls \in Int
    BY <1>4
  <2>4. z.le \in Int
    BY <1>4
  <2>5. IsRecut(y, z, first, end, z.ls, z.le)
    BY <1>7, <2>1, <2>2, <2>3, <2>4, Cut, Zenon
  <2> QED BY <2>5 DEF IsRecut
<1>9. windowEnd(p, y) = end
  BY <1>5, <1>6, <1>8 DEF windowEnd
<1> QED
  BY <1>6, <1>8, <1>9 DEF L, y

LEMMA Looped ==
  ASSUME NEW p, Typed(p), NEW z \in Zones, z.asset \in DOMAIN p.assets,
         NEW e, e.ls \in Int, e.le \in Int
  PROVE  LET y == loop(p, z, e)
         IN  /\ y \in Zones /\ SameRange(y, z) /\ y.asset = z.asset /\ y.root = z.root
             /\ z.start < windowEnd(p, z) /\ windowEnd(p, z) <= Length[p.assets[z.asset]] => fits(p, y)
<1> DEFINE L == Length[p.assets[z.asset]]
           last == resolveSampleEndInclusive(z, L)
           old == resolveLoopRange(z, z.start, last)
           or(value, default) == IF value = Unset THEN default ELSE value
           first == limit(z.start, last, or(e.ls, or(old.ls, z.start)))
           le == 1 + limit(first, last, or(e.le, or(old.le, last)))
           y == loop(p, z, e)
<1>1. /\ L \in Nat \ {0} /\ resolveSampleLength(p, z) = L /\ last \in 0 .. L - 1
      /\ z.start < L => z.start <= last
      /\ z.start < L /\ windowEnd(p, z) <= L => last = windowEnd(p, z) - 1
      /\ windowEnd(p, z) \in Int
  BY Resolved
<1>2. y = [z EXCEPT !.ls = first, !.le = le]
  BY <1>1, Zenon DEF loop
<1>3. z.start \in Nat /\ z.end \in Int /\ z.ls \in Int /\ z.le \in Int
  BY ZoneParts
<1> HIDE DEF L, last
<1>4. last \in Int /\ z.start \in Int /\ Unset \in Int
  BY <1>1, <1>3 DEF Unset
<1>5. old.ls \in Int /\ old.le \in Int
  <2> DEFINE ls == limit(z.start, last, z.ls)
             end == limit(ls, last, z.le - 1)
  <2>1. ls \in Int
    BY <1>3, <1>4, Limited
  <2> HIDE DEF ls
  <2>2. end \in Int
    <3>1. z.le - 1 \in Int
      BY <1>3
    <3> QED BY <1>4, <2>1, <3>1 DEF limit
  <2> HIDE DEF end
  <2>3. old = IF z.ls < 0 \/ z.le <= z.ls THEN [ls |-> Unset, le |-> Unset] ELSE [ls |-> ls, le |-> end]
    BY Zenon DEF resolveLoopRange, ls, end
  <2> HIDE DEF old
  <2> QED BY <1>4, <2>1, <2>2, <2>3
<1> HIDE DEF old
<1>6. or(e.ls, or(old.ls, z.start)) \in Int /\ or(e.le, or(old.le, last)) \in Int
  BY <1>4, <1>5
<1> HIDE DEF or
<1>7. first \in Int /\ (z.start <= last => z.start <= first /\ first <= last)
  BY <1>4, <1>6 DEF limit
<1> HIDE DEF first
<1>8. le \in Int /\ (first <= last => le <= last + 1)
  <2> DEFINE x == limit(first, last, or(e.le, or(old.le, last)))
  <2>1. x \in Int /\ (first <= last => x <= last)
    BY <1>4, <1>6, <1>7 DEF limit
  <2> HIDE DEF x
  <2>2. le = 1 + x
    BY Zenon DEF x
  <2> HIDE DEF le
  <2> QED BY <1>4, <1>7, <2>1, <2>2
<1> HIDE DEF le, y
<1>9. y = recut(z, z.start, z.end, first, le)
  <2>1. z = [asset |-> z.asset, group |-> z.group, lo |-> z.lo, hi |-> z.hi, root |-> z.root,
             start |-> z.start, end |-> z.end, ls |-> z.ls, le |-> z.le, gain |-> z.gain]
    BY ZoneParts
  <2> QED BY <1>2, <2>1 DEF recut
<1>10. /\ y \in Zones /\ SameRange(y, z) /\ y.asset = z.asset /\ y.root = z.root
       /\ y.start = z.start /\ y.end = z.end /\ y.ls = first /\ y.le = le
  <2>1. z.start \in Nat
    BY <1>3
  <2>2. z.end \in Int
    BY <1>3
  <2>3. first \in Int
    BY <1>7
  <2>4. le \in Int
    BY <1>8
  <2>5. IsRecut(y, z, z.start, z.end, first, le)
    BY <1>9, <2>1, <2>2, <2>3, <2>4, Cut, Zenon
  <2> QED BY <2>5 DEF IsRecut
<1>11. ASSUME z.start < windowEnd(p, z), windowEnd(p, z) <= L PROVE fits(p, y)
  <2>1. windowEnd(p, y) = windowEnd(p, z)
    BY <1>10 DEF windowEnd
  <2>2. z.start < L
    BY <1>1, <1>3, <1>11
  <2>3. first >= z.start /\ le <= windowEnd(p, z)
    BY <1>1, <1>4, <1>7, <1>8, <1>11, <2>2
  <2> QED BY <1>3, <1>7, <1>8, <1>10, <1>11, <2>1, <2>3 DEF fits, L
<1> QED
  BY <1>10, <1>11 DEF y, L

\* An edited zone is one the program has; it fits if it did before.
LEMMA EditedZone ==
  ASSUME NEW p, Typed(p), NEW e \in Edits, e.zone \in DOMAIN p.zones, e.asset \in DOMAIN p.assets \cup {0}
  PROVE  /\ edited(p, e) \in Zones /\ Has(p, edited(p, e))
         /\ edited(p, e).group = p.zones[e.zone].group
         /\ fits(p, p.zones[e.zone]) => fits(p, edited(p, e))
<1> DEFINE old == p.zones[e.zone]
           moved == e.asset # 0 /\ e.asset # old.asset
           ranged == fromUnordered(old, e.lo, e.hi)
           asset == IF e.asset = 0 THEN ranged.asset ELSE e.asset
           gain == IF e.gain = Unset THEN ranged.gain ELSE e.gain
           mapped == [ranged EXCEPT !.root = key(e.root), !.asset = asset, !.gain = gain]
           windowed == IF moved \/ e.start # Unset \/ e.end # Unset THEN window(p, mapped, e) ELSE mapped
           y == IF moved \/ e.ls # Unset \/ e.le # Unset THEN loop(p, windowed, e) ELSE windowed
<1>1. edited(p, e) = y
  BY Zenon DEF edited
<1>2. /\ e.asset \in Nat /\ e.lo \in Int /\ e.hi \in Int /\ e.root \in Int /\ e.start \in Int
      /\ e.end \in Int /\ e.ls \in Int /\ e.le \in Int /\ e.gain \in Int
      /\ e.start # Unset \/ e.end # Unset => e.ls # Unset \/ e.le # Unset
  BY DEF Edits
<1>3. old \in Zones /\ Has(p, old) /\ old.asset \in DOMAIN p.assets /\ old.group <= Len(p.groups)
  BY ProgramParts
<1> HIDE DEF old
<1>4. ranged \in Zones /\ SameSound(ranged, old) /\ ranged.group = old.group
  BY <1>2, <1>3, Unordered
<1> HIDE DEF ranged
<1>5. asset \in Nat \ {0} /\ asset \in DOMAIN p.assets /\ gain \in Int /\ key(e.root) \in 0 .. MaxKey
      /\ (~moved => asset = old.asset)
  <2>1. ranged.asset = old.asset /\ ranged.gain \in Int /\ ranged.asset \in Nat \ {0}
    BY <1>4, ZoneParts DEF SameSound
  <2>2. asset \in DOMAIN p.assets
    BY <1>3, <2>1
  <2> QED BY <1>2, <2>1, <2>2, KeyIsKey
<1> HIDE DEF asset, gain
<1>6. /\ mapped \in Zones /\ mapped.asset = asset /\ mapped.group = old.group
      /\ mapped.start = old.start /\ mapped.end = old.end /\ mapped.ls = old.ls /\ mapped.le = old.le
  <2>1. mapped = retuned(ranged, key(e.root), asset, gain)
    BY DEF retuned
  <2> HIDE DEF mapped
  <2> QED BY <1>4, <1>5, <2>1, Retuned DEF SameSound
<1> HIDE DEF mapped
<1> DEFINE L == Length[p.assets[asset]]
           Inside(z) == z.start < windowEnd(p, z) /\ windowEnd(p, z) <= L
<1>7. ~moved => (fits(p, mapped) <=> fits(p, old))
  <2>1. ~moved => SameSound(mapped, old)
    BY <1>5, <1>6 DEF SameSound
  <2> QED BY <2>1, FitsAsItSounds
<1>8. CASE moved \/ e.start # Unset \/ e.end # Unset
  <2>1. /\ windowed \in Zones /\ SameRange(windowed, mapped) /\ windowed.asset = asset /\ Inside(windowed)
    BY <1>2, <1>5, <1>6, <1>8, Windowed
  <2> HIDE DEF windowed
  <2>2. moved \/ e.ls # Unset \/ e.le # Unset
    BY <1>2, <1>8
  <2>3. y = loop(p, windowed, e)
    BY <2>2
  <2>4. y \in Zones /\ SameRange(y, windowed) /\ y.asset = asset /\ fits(p, y)
    BY <1>2, <1>5, <2>1, <2>3, Looped
  <2> HIDE DEF y
  <2> QED BY <1>1, <1>3, <1>5, <1>6, <2>1, <2>4 DEF Has, SameRange, old
<1>9. CASE ~(moved \/ e.start # Unset \/ e.end # Unset)
  <2>1. windowed = mapped
    BY <1>9
  <2> HIDE DEF windowed
  <2>2. CASE e.ls # Unset \/ e.le # Unset
    <3>1. y = loop(p, mapped, e)
      BY <2>1, <2>2
    <3>2. y \in Zones /\ SameRange(y, mapped) /\ y.asset = asset /\ (Inside(mapped) => fits(p, y))
      BY <1>2, <1>5, <1>6, <3>1, Looped
    <3>3. fits(p, mapped) => Inside(mapped)
      BY <1>6 DEF fits
    <3> HIDE DEF y
    <3> QED BY <1>1, <1>3, <1>5, <1>6, <1>7, <1>9, <3>2, <3>3 DEF Has, SameRange, old
  <2>3. CASE ~(e.ls # Unset \/ e.le # Unset)
    <3>1. y = mapped
      BY <1>9, <2>1, <2>3
    <3> HIDE DEF y
    <3> QED BY <1>1, <1>3, <1>5, <1>6, <1>7, <1>9, <3>1 DEF Has, old
  <2> QED BY <2>2, <2>3
<1> QED
  BY <1>8, <1>9


-----------------------------------------------------------------------------
(* Operations that give zones other ranges, or take and add zones.         *)

\* New zones in the places of a program that follow what they replace.
Follow(p, I, new) ==
  /\ I \subseteq DOMAIN p.zones /\ DOMAIN new = I
  /\ \A i \in I :
       /\ new[i] \in Zones /\ Has(p, new[i]) /\ new[i].group = p.zones[i].group
       /\ Fits(p) => fits(p, new[i])

placed(p, new) == [i \in DOMAIN p.zones |-> IF i \in DOMAIN new THEN new[i] ELSE p.zones[i]]

LEMMA Placed ==
  ASSUME NEW p, Typed(p), NEW I, NEW new, Follow(p, I, new)
  PROVE  /\ placed(p, new) \in Seq(Zones) /\ Len(placed(p, new)) = Len(p.zones)
         /\ DOMAIN placed(p, new) = DOMAIN p.zones
         /\ \A k \in DOMAIN p.zones :
              /\ k \in I => placed(p, new)[k] = new[k]
              /\ k \notin I => placed(p, new)[k] = p.zones[k]
              /\ Has(p, placed(p, new)[k]) /\ placed(p, new)[k].group = p.zones[k].group
              /\ Fits(p) => fits(p, placed(p, new)[k])
         /\ put(p, new) = [p EXCEPT !.zones = placed(p, new)]
<1> DEFINE zs == placed(p, new)
<1>1. /\ Len(p.zones) \in Nat /\ DOMAIN p.zones = 1 .. Len(p.zones)
      /\ \A i \in DOMAIN p.zones : p.zones[i] \in Zones /\ Has(p, p.zones[i])
  BY ProgramParts
<1>2. /\ zs = [k \in 1 .. Len(p.zones) |-> zs[k]]
      /\ \A k \in DOMAIN p.zones : k \in I => zs[k] = new[k]
      /\ \A k \in DOMAIN p.zones : k \notin I => zs[k] = p.zones[k]
  BY <1>1 DEF placed, Follow
<1>3. put(p, new) = [p EXCEPT !.zones = zs]
  BY Zenon DEF put, placed
<1> HIDE DEF zs
<1>4. ASSUME NEW k \in DOMAIN p.zones
      PROVE  /\ zs[k] \in Zones /\ Has(p, zs[k]) /\ zs[k].group = p.zones[k].group
             /\ Fits(p) => fits(p, zs[k])
  <2>1. CASE k \in I
    BY <1>2, <2>1 DEF Follow
  <2>2. CASE k \notin I
    BY <1>1, <1>2, <2>2 DEF Fits
  <2> QED BY <2>1, <2>2
<1>5. zs \in Seq(Zones) /\ Len(zs) = Len(p.zones) /\ DOMAIN zs = 1 .. Len(p.zones)
  BY <1>1, <1>2, <1>4, IsSequence
<1> QED
  BY <1>1, <1>2, <1>3, <1>4, <1>5 DEF zs

LEMMA Changed ==
  ASSUME NEW p, Typed(p), NEW I, NEW new, Follow(p, I, new)
  PROVE  /\ Evolves(p, change(p, new)) /\ change(p, new).zones = placed(p, new)
         /\ change(p, new).assets = p.assets /\ Len(change(p, new).zones) = Len(p.zones)
<1> DEFINE zs == placed(p, new)
           G == groupsOf(p, I)
<1>1. /\ zs \in Seq(Zones) /\ Len(zs) = Len(p.zones) /\ DOMAIN zs = DOMAIN p.zones
      /\ put(p, new) = [p EXCEPT !.zones = zs]
  BY Placed
<1>2. \A k \in DOMAIN p.zones :
        /\ k \notin I => zs[k] = p.zones[k]
        /\ Has(p, zs[k]) /\ zs[k].group = p.zones[k].group
        /\ Fits(p) => fits(p, zs[k])
  BY Placed
<1>3. \A k \in I : p.zones[k].group \in G
  BY DEF groupsOf
<1>4. change(p, new) = recompute([p EXCEPT !.zones = zs], G)
  BY <1>1, Zenon DEF change, Follow
<1> HIDE DEF zs, G
<1>5. \A k \in DOMAIN zs : zs[k].group \in G \/ \E i \in DOMAIN p.zones : SameRange(zs[k], p.zones[i])
  BY <1>1, <1>2, <1>3 DEF SameRange
<1>6. \A i \in DOMAIN p.zones : p.zones[i].group \in G \/ \E k \in DOMAIN zs : SameRange(zs[k], p.zones[i])
  BY <1>1, <1>2, <1>3 DEF SameRange
<1>7. \A k \in DOMAIN zs : Has(p, zs[k])
  BY <1>1, <1>2
<1>8. Fits(p) => \A k \in DOMAIN zs : fits(p, zs[k])
  BY <1>1, <1>2
<1>9. LET r == recompute([p EXCEPT !.zones = zs], G)
      IN  Evolves(p, r) /\ r.zones = zs /\ r.assets = p.assets
  BY <1>1, <1>5, <1>6, <1>7, <1>8, Revised
<1> QED
  BY <1>1, <1>4, <1>9 DEF zs

LEMMA EditsEvolve ==
  ASSUME NEW p, Typed(p), NEW E \in SUBSET Edits
  PROVE  \A r \in applyProgramZoneEditsAtomic(p, E) :
           Evolves(p, r) /\ Len(r.zones) = Len(p.zones) /\ r.assets = p.assets
<1> DEFINE I == {e.zone : e \in E}
           of(i) == CHOOSE e \in E : e.zone = i
           possible == I \subseteq DOMAIN p.zones /\ \A e \in E : e.asset \in DOMAIN p.assets \cup {0}
           new == [i \in I |-> edited(p, of(i))]
<1>1. applyProgramZoneEditsAtomic(p, E) = IF E = {} \/ ~possible THEN {} ELSE {change(p, new)}
  BY Zenon DEF applyProgramZoneEditsAtomic
<1>2. ASSUME possible PROVE Follow(p, I, new)
  <2>1. ASSUME NEW i \in I
        PROVE  /\ new[i] \in Zones /\ Has(p, new[i]) /\ new[i].group = p.zones[i].group
               /\ Fits(p) => fits(p, new[i])
    <3>1. PICK d \in E : d.zone = i
      OBVIOUS
    <3>2. of(i) \in E /\ of(i).zone = i
      BY <3>1
    <3>3. new[i] = edited(p, of(i))
      OBVIOUS
    <3> HIDE DEF of, new
    <3>4. of(i) \in Edits /\ of(i).zone \in DOMAIN p.zones /\ of(i).asset \in DOMAIN p.assets \cup {0}
      BY <1>2, <3>2
    <3>5. /\ edited(p, of(i)) \in Zones /\ Has(p, edited(p, of(i)))
          /\ edited(p, of(i)).group = p.zones[of(i).zone].group
          /\ fits(p, p.zones[of(i).zone]) => fits(p, edited(p, of(i)))
      BY <3>4, EditedZone
    <3>6. Fits(p) => fits(p, p.zones[i])
      BY <1>2 DEF Fits
    <3> QED BY <3>2, <3>3, <3>5, <3>6
  <2>2. I \subseteq DOMAIN p.zones /\ DOMAIN new = I
    BY <1>2
  <2> HIDE DEF new, I
  <2> QED BY <2>1, <2>2 DEF Follow
<1> HIDE DEF new, I
<1>3. ASSUME possible
      PROVE  /\ Evolves(p, change(p, new)) /\ Len(change(p, new).zones) = Len(p.zones)
             /\ change(p, new).assets = p.assets
  BY <1>2, <1>3, Changed
<1> HIDE DEF possible
<1> QED
  BY <1>1, <1>3

\* A zone that is added, with its group recomputed.
LEMMA Added ==
  ASSUME NEW p, Typed(p), NEW z \in Zones, Has(p, z), Fits(p) => fits(p, z)
  PROVE  LET r == recompute([p EXCEPT !.zones = Append(p.zones, z)], {z.group})
         IN  Evolves(p, r) /\ r.zones = Append(p.zones, z) /\ Len(r.zones) = Len(p.zones) + 1
             /\ r.assets = p.assets
<1> DEFINE zs == Append(p.zones, z)
<1>1. /\ p.zones \in Seq(Zones) /\ Len(p.zones) \in Nat /\ DOMAIN p.zones = 1 .. Len(p.zones)
      /\ \A i \in DOMAIN p.zones : Has(p, p.zones[i])
  BY ProgramParts
<1>2. /\ zs \in Seq(Zones) /\ Len(zs) = Len(p.zones) + 1 /\ DOMAIN zs = 1 .. Len(p.zones) + 1
      /\ \A k \in DOMAIN p.zones : k \in DOMAIN zs /\ zs[k] = p.zones[k]
      /\ zs[Len(p.zones) + 1] = z
  BY <1>1, Appended
<1> HIDE DEF zs
<1>3. \A k \in DOMAIN zs : k \in DOMAIN p.zones \/ zs[k] = z
  BY <1>1, <1>2
<1>4. \A k \in DOMAIN zs : Has(p, zs[k])
  BY <1>1, <1>2, <1>3
<1>5. Fits(p) => \A k \in DOMAIN zs : fits(p, zs[k])
  BY <1>2, <1>3 DEF Fits
<1>6. \A k \in DOMAIN zs : zs[k].group \in {z.group} \/ \E i \in DOMAIN p.zones : SameRange(zs[k], p.zones[i])
  BY <1>2, <1>3 DEF SameRange
<1>7. \A i \in DOMAIN p.zones : p.zones[i].group \in {z.group} \/ \E k \in DOMAIN zs : SameRange(zs[k], p.zones[i])
  BY <1>2 DEF SameRange
<1>8. LET r == recompute([p EXCEPT !.zones = zs], {z.group})
      IN  Evolves(p, r) /\ r.zones = zs /\ r.assets = p.assets
  <2> DEFINE G == {z.group}
  <2>1. \A k \in DOMAIN zs : zs[k].group \in G \/ \E i \in DOMAIN p.zones : SameRange(zs[k], p.zones[i])
    BY <1>6
  <2>2. \A i \in DOMAIN p.zones : p.zones[i].group \in G \/ \E k \in DOMAIN zs : SameRange(zs[k], p.zones[i])
    BY <1>7
  <2> HIDE DEF G
  <2>3. LET r == recompute([p EXCEPT !.zones = zs], G)
        IN  Evolves(p, r) /\ r.zones = zs /\ r.assets = p.assets
    <3>1. zs \in Seq(Zones)
      BY <1>2
    <3> QED BY <1>4, <1>5, <2>1, <2>2, <3>1, Revised
  <2> QED BY <2>3 DEF G
<1> QED
  BY <1>2, <1>8 DEF zs

LEMMA Created ==
  ASSUME NEW p, Typed(p), NEW asset \in Nat, NEW seed
  PROVE  \A r \in createProgramZoneForSampleAsset(p, asset, seed) :
           Evolves(p, r) /\ Len(r.zones) = Len(p.zones) + 1 /\ r.assets = p.assets
<1> DEFINE seeded == seed \in DOMAIN p.zones
           a == findDefaultSampleAssetIndex(p, IF asset = 0 /\ seeded THEN p.zones[seed].asset ELSE asset)
           root == IF seeded THEN p.zones[seed].root ELSE MaxKey \div 2
           group == IF seeded /\ p.zones[seed].group # 0 THEN p.zones[seed].group
                    ELSE IF Len(p.groups) = 1 THEN 1 ELSE 0
           zone == [asset |-> a, group |-> group, lo |-> root, hi |-> root, root |-> root,
                    start |-> 0, end |-> Length[p.assets[a]], ls |-> Unset, le |-> Unset, gain |-> 0]
<1>1. createProgramZoneForSampleAsset(p, asset, seed) =
        IF a = 0 THEN {} ELSE {recompute([p EXCEPT !.zones = Append(p.zones, zone)], {group})}
  BY Zenon DEF createProgramZoneForSampleAsset
<1>2. /\ p.assets \in Seq(Samples) /\ Len(p.assets) \in Nat /\ DOMAIN p.assets = 1 .. Len(p.assets)
      /\ Len(p.groups) \in Nat
      /\ \A i \in DOMAIN p.zones : p.zones[i] \in Zones /\ p.zones[i].group <= Len(p.groups)
      /\ \A b \in DOMAIN p.assets : Length[p.assets[b]] \in Nat \ {0}
  BY ProgramParts
<1>3. MaxKey \in Nat
  BY MappingAssumption
<1>4. a # 0 => a \in DOMAIN p.assets /\ a \in Nat \ {0}
  <2>1. \A b : findDefaultSampleAssetIndex(p, b) # 0 =>
           findDefaultSampleAssetIndex(p, b) \in DOMAIN p.assets
    <3>1. p.assets # <<>> => 1 \in DOMAIN p.assets
      BY <1>2, EmptySeq
    <3> QED BY <3>1 DEF findDefaultSampleAssetIndex
  <2>2. a # 0 => a \in DOMAIN p.assets
    BY <2>1
  <2> HIDE DEF a
  <2> QED BY <1>2, <2>2
<1>5. root \in 0 .. MaxKey
  <2>1. seeded => p.zones[seed].root \in 0 .. MaxKey
    BY <1>2, ZoneParts
  <2>2. MaxKey \div 2 \in 0 .. MaxKey
    BY <1>3
  <2> QED BY <2>1, <2>2
<1>6. group \in Nat /\ group <= Len(p.groups)
  <2>1. seeded => p.zones[seed].group \in Nat /\ p.zones[seed].group <= Len(p.groups)
    BY <1>2, ZoneParts
  <2> QED BY <1>2, <2>1
<1> HIDE DEF a, root, group
<1>7. ASSUME a # 0 PROVE zone \in Zones /\ Has(p, zone) /\ fits(p, zone) /\ zone.group = group
  <2>1. a \in Nat \ {0} /\ Length[p.assets[a]] \in Nat \ {0}
    BY <1>2, <1>4, <1>7
  <2>2. zone \in Zones
    BY <1>3, <1>5, <1>6, <2>1 DEF Zones, Unset
  <2>3. zone.asset = a /\ zone.group = group /\ zone.start = 0 /\ zone.end = Length[p.assets[a]]
        /\ zone.ls = Unset
    OBVIOUS
  <2> HIDE DEF zone
  <2>4. Has(p, zone)
    BY <1>4, <1>6, <1>7, <2>3 DEF Has
  <2>5. windowEnd(p, zone) = Length[p.assets[a]]
    BY <2>3 DEF windowEnd
  <2>6. fits(p, zone)
    BY <2>1, <2>3, <2>5 DEF fits, Unset
  <2> QED BY <2>2, <2>3, <2>4, <2>6
<1> HIDE DEF zone
<1>8. ASSUME a # 0
      PROVE  LET r == recompute([p EXCEPT !.zones = Append(p.zones, zone)], {group})
             IN  Evolves(p, r) /\ Len(r.zones) = Len(p.zones) + 1 /\ r.assets = p.assets
  BY <1>7, <1>8, Added
<1> QED
  BY <1>1, <1>8

LEMMA Duplicated ==
  ASSUME NEW p, Typed(p), NEW i
  PROVE  \A r \in duplicateProgramZone(p, i) : Evolves(p, r)
<1>1. SUFFICES ASSUME i \in DOMAIN p.zones
               PROVE  Evolves(p, recompute([p EXCEPT !.zones = Append(p.zones, p.zones[i])], {p.zones[i].group}))
  BY Zenon DEF duplicateProgramZone
<1>2. p.zones[i] \in Zones /\ Has(p, p.zones[i])
  BY <1>1, ProgramParts
<1>3. Fits(p) => fits(p, p.zones[i])
  BY <1>1 DEF Fits
<1> QED
  BY <1>2, <1>3, Added

LEMMA Deleted ==
  ASSUME NEW p, Typed(p), NEW I
  PROVE  \A r \in deleteProgramZonesAtomic(p, I) : Evolves(p, r)
<1> DEFINE J == DOMAIN p.zones \ I
           zs == select(p.zones, J)
           G == groupsOf(p, I)
<1>1. SUFFICES Evolves(p, recompute([p EXCEPT !.zones = zs], G))
  BY Zenon DEF deleteProgramZonesAtomic
<1>2. p.zones \in Seq(Zones) /\ \A i \in DOMAIN p.zones : Has(p, p.zones[i])
  BY ProgramParts
<1>3. /\ zs \in Seq(Zones)
      /\ \A k \in DOMAIN zs : \E i \in J : zs[k] = p.zones[i]
      /\ \A i \in J : \E k \in DOMAIN zs : zs[k] = p.zones[i]
  <2>1. J \in SUBSET (DOMAIN p.zones)
    OBVIOUS
  <2> HIDE DEF J
  <2> QED BY <1>2, <2>1, Selected
<1>4. \A i \in DOMAIN p.zones : i \in J \/ p.zones[i].group \in G
  BY DEF groupsOf
<1>5. J \subseteq DOMAIN p.zones
  OBVIOUS
<1> HIDE DEF J, zs, G
<1>6. \A k \in DOMAIN zs : Has(p, zs[k])
  BY <1>2, <1>3, <1>5
<1>7. Fits(p) => \A k \in DOMAIN zs : fits(p, zs[k])
  BY <1>3, <1>5 DEF Fits
<1>8. \A k \in DOMAIN zs : zs[k].group \in G \/ \E i \in DOMAIN p.zones : SameRange(zs[k], p.zones[i])
  BY <1>3, <1>5 DEF SameRange
<1>9. \A i \in DOMAIN p.zones : p.zones[i].group \in G \/ \E k \in DOMAIN zs : SameRange(zs[k], p.zones[i])
  BY <1>3, <1>4 DEF SameRange
<1> QED
  BY <1>3, <1>6, <1>7, <1>8, <1>9, Revised

LEMMA SplitByKeyEvolves ==
  ASSUME NEW p, Typed(p), NEW i
  PROVE  \A r \in splitProgramZoneByKey(p, i) : Evolves(p, r)
<1> DEFINE z == p.zones[i]
           lower == fromUnordered(z, z.lo, middle(z))
           upper == fromUnordered(z, middle(z) + 1, z.hi)
           new == [k \in {i} |-> lower]
           hs == placed(p, new)
           zs == Append(hs, upper)
           halved == put(p, new)
           G == {z.group}
           q == [halved EXCEPT !.zones = Append(halved.zones, upper)]
<1>1. SUFFICES ASSUME i \in DOMAIN p.zones PROVE Evolves(p, recompute(q, G))
  BY Zenon DEF splitProgramZoneByKey
<1>2. /\ z \in Zones /\ Has(p, z) /\ p.zones \in Seq(Zones)
      /\ \A k \in DOMAIN p.zones : Has(p, p.zones[k])
      /\ Len(p.zones) \in Nat /\ DOMAIN p.zones = 1 .. Len(p.zones)
  BY <1>1, ProgramParts
<1>3. middle(z) \in Int /\ middle(z) + 1 \in Int /\ z.lo \in Int /\ z.hi \in Int
  <2>1. z.lo \in Nat /\ z.hi \in Nat
    BY <1>2, ZoneParts
  <2> HIDE DEF z
  <2>2. z.lo + (z.hi - z.lo) \div 2 \in Int
    BY <2>1
  <2> QED BY <2>1, <2>2 DEF middle
<1>4. /\ lower \in Zones /\ SameSound(lower, z) /\ lower.group = z.group
      /\ upper \in Zones /\ SameSound(upper, z) /\ upper.group = z.group
  BY <1>2, <1>3, Unordered
<1>5. Fits(p) => fits(p, z)
  BY <1>1 DEF Fits
<1> HIDE DEF z, lower, upper
<1>6. \A y \in {lower, upper} : Has(p, y) /\ (Fits(p) => fits(p, y))
  <2>1. ASSUME NEW y, SameSound(y, z), y.group = z.group PROVE Has(p, y) /\ (Fits(p) => fits(p, y))
    BY <1>2, <1>5, <2>1, FitsAsItSounds DEF Has, SameSound
  <2> QED BY <1>4, <2>1
<1>7. Follow(p, {i}, new)
  BY <1>1, <1>4, <1>6 DEF Follow, z
<1> HIDE DEF new
<1>8. /\ hs \in Seq(Zones) /\ Len(hs) = Len(p.zones) /\ DOMAIN hs = DOMAIN p.zones
      /\ \A k \in DOMAIN p.zones :
           /\ k \notin {i} => hs[k] = p.zones[k]
           /\ Has(p, hs[k]) /\ hs[k].group = p.zones[k].group
           /\ Fits(p) => fits(p, hs[k])
      /\ halved = [p EXCEPT !.zones = hs]
  BY <1>7, Placed
<1> HIDE DEF hs, halved
<1>9. /\ zs \in Seq(Zones) /\ DOMAIN zs = 1 .. Len(p.zones) + 1
      /\ \A k \in DOMAIN hs : k \in DOMAIN zs /\ zs[k] = hs[k]
      /\ zs[Len(p.zones) + 1] = upper
  BY <1>4, <1>8, Appended
<1>10. q = [p EXCEPT !.zones = zs]
  <2>1. p = [zones |-> p.zones, assets |-> p.assets, groups |-> p.groups]
    BY ProgramParts
  <2>2. halved = [zones |-> hs, assets |-> p.assets, groups |-> p.groups] /\ halved.zones = hs
    BY <1>8, WithZones
  <2>3. q = [halved EXCEPT !.zones = zs]
    BY <2>2
  <2> HIDE DEF q, zs
  <2> QED BY <2>1, <2>2, <2>3
<1> HIDE DEF q, zs
<1>11. \A k \in DOMAIN zs : (k \in DOMAIN p.zones /\ zs[k] = hs[k]) \/ zs[k] = upper
  BY <1>2, <1>8, <1>9
<1>12. \A k \in DOMAIN zs : Has(p, zs[k])
  BY <1>6, <1>8, <1>11
<1>13. Fits(p) => \A k \in DOMAIN zs : fits(p, zs[k])
  BY <1>6, <1>8, <1>11
<1>14. upper.group \in G /\ p.zones[i].group \in G
  BY <1>4 DEF z
<1> HIDE DEF G
<1>15. \A k \in DOMAIN zs : zs[k].group \in G \/ \E j \in DOMAIN p.zones : SameRange(zs[k], p.zones[j])
  BY <1>8, <1>11, <1>14 DEF SameRange
<1>16. \A j \in DOMAIN p.zones : p.zones[j].group \in G \/ \E k \in DOMAIN zs : SameRange(zs[k], p.zones[j])
  BY <1>8, <1>9, <1>14 DEF SameRange
<1>17. zs \in Seq(Zones)
  BY <1>9
<1> QED
  BY <1>10, <1>12, <1>13, <1>15, <1>16, <1>17, Revised

\* A zone on one key.
onto(z, note) == [z EXCEPT !.lo = note, !.hi = note, !.root = note]

LEMMA Onto ==
  ASSUME NEW z \in Zones, NEW note \in 0 .. MaxKey
  PROVE  LET y == onto(z, note)
         IN  y \in Zones /\ SameSound(y, z) /\ y.group = z.group /\ y.lo = note /\ y.hi = note
<1> DEFINE w == [z EXCEPT !.lo = note, !.hi = note]
           y == onto(z, note)
<1>1. y = [asset |-> z.asset, group |-> z.group, lo |-> note, hi |-> note, root |-> note,
           start |-> z.start, end |-> z.end, ls |-> z.ls, le |-> z.le, gain |-> z.gain]
  <2>1. z = [asset |-> z.asset, group |-> z.group, lo |-> z.lo, hi |-> z.hi, root |-> z.root,
             start |-> z.start, end |-> z.end, ls |-> z.ls, le |-> z.le, gain |-> z.gain]
    BY ZoneParts
  <2>2. w = [asset |-> z.asset, group |-> z.group, lo |-> note, hi |-> note, root |-> z.root,
             start |-> z.start, end |-> z.end, ls |-> z.ls, le |-> z.le, gain |-> z.gain]
    <3>1. w = [z EXCEPT !.lo = note, !.hi = note]
      OBVIOUS
    <3> HIDE DEF w
    <3> QED BY <2>1, <3>1
  <2>3. y = [w EXCEPT !.root = note]
    BY DEF onto
  <2> HIDE DEF w, y
  <2> QED BY <2>2, <2>3
<1> HIDE DEF y
<1>2. MaxKey \in Nat /\ note \in Nat
  BY MappingAssumption
<1>3. y \in Zones
  BY <1>1, <1>2, ZoneParts DEF Zones
<1> QED
  BY <1>1, <1>3 DEF y, SameSound

remapped(p, I, rank, base) == [i \in I |-> onto(p.zones[i], key(base) + place(I, rank, i))]

LEMMA Remapped ==
  ASSUME NEW p, Typed(p), NEW I \in SUBSET (DOMAIN p.zones), NEW rank, \A i \in I : rank[i] \in Nat,
         NEW base \in Int, NEW r \in remap(p, I, rank, base)
  PROVE  /\ r = change(p, remapped(p, I, rank, base))
         /\ Follow(p, I, remapped(p, I, rank, base))
         /\ \A i \in I :
              LET y == remapped(p, I, rank, base)[i]
              IN  SameSound(y, p.zones[i]) /\ y.lo = key(base) + place(I, rank, i) /\ y.hi = y.lo
<1> DEFINE new == remapped(p, I, rank, base)
           target(i) == key(base) + place(I, rank, i)
           m == Cardinality(I)
<1>1. r = change(p, new) /\ ~(m > MaxKey - key(base) + 1)
  BY Zenon DEF remap, remapped, onto
<1>2. MaxKey \in Nat /\ key(base) \in 0 .. MaxKey
  BY MappingAssumption, KeyIsKey
<1>3. /\ Len(p.zones) \in Nat /\ DOMAIN p.zones = 1 .. Len(p.zones)
      /\ \A i \in DOMAIN p.zones : p.zones[i] \in Zones /\ Has(p, p.zones[i])
  BY ProgramParts
<1>4. m \in Nat /\ \A i \in I : place(I, rank, i) \in 0 .. m - 1
  <2>1. I \in SUBSET (1 .. Len(p.zones)) /\ Len(p.zones) \in Nat
    BY <1>3
  <2> QED BY <2>1, Places
<1> HIDE DEF m
<1>5. \A i \in I : new[i] = onto(p.zones[i], target(i)) /\ DOMAIN new = I
  BY DEF remapped
<1>6. ASSUME NEW i \in I
      PROVE  /\ new[i] \in Zones /\ SameSound(new[i], p.zones[i]) /\ new[i].group = p.zones[i].group
             /\ new[i].lo = target(i) /\ new[i].hi = new[i].lo
             /\ Has(p, new[i]) /\ (Fits(p) => fits(p, new[i]))
  <2>1. target(i) \in 0 .. MaxKey
    <3>1. place(I, rank, i) \in 0 .. m - 1
      BY <1>4
    <3> HIDE DEF target
    <3>2. target(i) = key(base) + place(I, rank, i)
      BY DEF target
    <3> QED BY <1>1, <1>2, <1>4, <3>1, <3>2
  <2> HIDE DEF target, new
  <2>2. p.zones[i] \in Zones /\ Has(p, p.zones[i])
    BY <1>3
  <2>3. /\ new[i] \in Zones /\ SameSound(new[i], p.zones[i]) /\ new[i].group = p.zones[i].group
        /\ new[i].lo = target(i) /\ new[i].hi = target(i)
    BY <1>5, <2>1, <2>2, Onto
  <2>4. Has(p, new[i])
    BY <2>2, <2>3 DEF Has, SameSound
  <2>5. Fits(p) => fits(p, new[i])
    BY <2>3, FitsAsItSounds DEF Fits
  <2> QED BY <2>3, <2>4, <2>5
<1>7. DOMAIN new = I
  BY DEF remapped
<1> HIDE DEF new
<1>8. Follow(p, I, new)
  BY <1>6, <1>7 DEF Follow
<1> QED
  BY <1>1, <1>6, <1>8 DEF new

LEMMA RemapEvolves ==
  ASSUME NEW p, Typed(p), NEW I \in SUBSET (DOMAIN p.zones), NEW rank, \A i \in I : rank[i] \in Nat,
         NEW base \in Int
  PROVE  \A r \in remap(p, I, rank, base) : Evolves(p, r)
BY Remapped, Changed

LEMMA MapToRootsEvolves ==
  ASSUME NEW p, Typed(p), NEW I
  PROVE  \A r \in mapProgramZonesToRootNotes(p, I) : Evolves(p, r)
<1> DEFINE at(z) == fromUnordered(z, z.root, z.root)
           new == [i \in I |-> at(p.zones[i])]
<1>1. SUFFICES ASSUME available(p, I) PROVE Evolves(p, change(p, new))
  BY Zenon DEF mapProgramZonesToRootNotes
<1>2. ASSUME NEW i \in I
      PROVE  /\ new[i] \in Zones /\ Has(p, new[i]) /\ new[i].group = p.zones[i].group
             /\ Fits(p) => fits(p, new[i])
  <2>1. p.zones[i] \in Zones /\ Has(p, p.zones[i]) /\ (Fits(p) => fits(p, p.zones[i]))
    BY <1>1, ProgramParts DEF available, Fits
  <2>2. p.zones[i].root \in Int
    BY <2>1, ZoneParts
  <2>3. new[i] = at(p.zones[i])
    OBVIOUS
  <2>4. at(p.zones[i]) \in Zones /\ SameSound(at(p.zones[i]), p.zones[i]) /\ at(p.zones[i]).group = p.zones[i].group
    BY <2>1, <2>2, Unordered
  <2> HIDE DEF new, at
  <2>5. Has(p, new[i])
    BY <2>1, <2>3, <2>4 DEF Has, SameSound
  <2> QED BY <2>1, <2>3, <2>4, <2>5, FitsAsItSounds
<1>3. DOMAIN new = I /\ I \subseteq DOMAIN p.zones
  BY <1>1 DEF available
<1> HIDE DEF new
<1>4. Follow(p, I, new)
  BY <1>2, <1>3 DEF Follow
<1> QED
  BY <1>4, Changed

LEMMA NothingRecomputed ==
  ASSUME NEW q, Typed(q)
  PROVE  recompute(q, {}) = q
<1>1. /\ q = [zones |-> q.zones, assets |-> q.assets, groups |-> q.groups]
      /\ q.groups \in Seq(Ranges)
  BY ProgramParts
<1>2. q.groups = [g \in DOMAIN q.groups |-> q.groups[g]]
  BY <1>1, SequenceParts
<1> DEFINE groups == [g \in DOMAIN q.groups |->
                        IF g \notin {} \/ zonesOf(q, g) = {} THEN q.groups[g]
                        ELSE [lo |-> Min({z.lo : z \in zonesOf(q, g)}),
                              hi |-> Max({z.hi : z \in zonesOf(q, g)})]]
<1>3. recompute(q, {}) = [q EXCEPT !.groups = groups]
  BY Zenon DEF recompute
<1>4. groups = [g \in DOMAIN q.groups |-> q.groups[g]]
  OBVIOUS
<1> HIDE DEF groups
<1> QED
  BY <1>1, <1>2, <1>3, <1>4

LEMMA DeriveRootsEvolves ==
  ASSUME NEW p, Typed(p), NEW I
  PROVE  \A r \in deriveProgramZoneRootNotesFromKeyRanges(p, I) : Evolves(p, r)
<1> DEFINE of(z) == [z EXCEPT !.root = key(middle(z))]
           new == [i \in I |-> of(p.zones[i])]
           zs == placed(p, new)
<1>1. SUFFICES ASSUME available(p, I) PROVE Evolves(p, put(p, new))
  BY Zenon DEF deriveProgramZoneRootNotesFromKeyRanges
<1>2. ASSUME NEW i \in I
      PROVE  /\ new[i] \in Zones /\ Has(p, new[i]) /\ SameRange(new[i], p.zones[i])
             /\ Fits(p) => fits(p, new[i])
  <2>1. p.zones[i] \in Zones /\ Has(p, p.zones[i]) /\ (Fits(p) => fits(p, p.zones[i]))
    BY <1>1, ProgramParts DEF available, Fits
  <2>2. middle(p.zones[i]) \in Int
    BY <2>1, ZoneParts DEF middle
  <2>3. key(middle(p.zones[i])) \in 0 .. MaxKey
    BY <2>2, KeyIsKey
  <2>4. new[i] = [p.zones[i] EXCEPT !.root = key(middle(p.zones[i]))]
    OBVIOUS
  <2> HIDE DEF new
  <2>5. new[i] \in Zones /\ SameSound(new[i], p.zones[i]) /\ SameRange(new[i], p.zones[i])
    BY <2>1, <2>3, <2>4, Rooted
  <2>6. Has(p, new[i])
    BY <2>1, <2>5 DEF Has, SameSound, SameRange
  <2> QED BY <2>1, <2>5, <2>6, FitsAsItSounds
<1>3. DOMAIN new = I /\ I \subseteq DOMAIN p.zones
  BY <1>1 DEF available
<1> HIDE DEF new
<1>4. Follow(p, I, new)
  BY <1>2, <1>3 DEF Follow, SameRange
<1>5. /\ zs \in Seq(Zones) /\ DOMAIN zs = DOMAIN p.zones
      /\ put(p, new) = [p EXCEPT !.zones = zs]
  BY <1>4, Placed
<1>6. \A k \in DOMAIN p.zones :
        /\ k \in I => zs[k] = new[k]
        /\ k \notin I => zs[k] = p.zones[k]
        /\ Has(p, zs[k]) /\ (Fits(p) => fits(p, zs[k]))
  BY <1>4, Placed
<1> HIDE DEF zs
<1>7. \A k \in DOMAIN p.zones : SameRange(zs[k], p.zones[k])
  BY <1>2, <1>6 DEF SameRange
<1>8. Typed(put(p, new))
  <2>1. zs \in Seq(Zones)
    BY <1>5
  <2>2. \A k \in DOMAIN zs : Has(p, zs[k])
    BY <1>5, <1>6
  <2>3. Typed([p EXCEPT !.zones = zs])
    BY <2>1, <2>2, WithZones
  <2> QED BY <1>5, <2>3
<1>9. Evolves(p, recompute([p EXCEPT !.zones = zs], {}))
  <2>1. zs \in Seq(Zones)
    BY <1>5
  <2>2. \A k \in DOMAIN zs : Has(p, zs[k])
    BY <1>5, <1>6
  <2>3. Fits(p) => \A k \in DOMAIN zs : fits(p, zs[k])
    BY <1>5, <1>6
  <2>4. \A k \in DOMAIN zs : zs[k].group \in {} \/ \E j \in DOMAIN p.zones : SameRange(zs[k], p.zones[j])
    BY <1>5, <1>7
  <2>5. \A j \in DOMAIN p.zones : p.zones[j].group \in {} \/ \E k \in DOMAIN zs : SameRange(zs[k], p.zones[j])
    BY <1>5, <1>7
  <2> QED BY <2>1, <2>2, <2>3, <2>4, <2>5, Revised
<1> QED
  BY <1>5, <1>8, <1>9, NothingRecomputed

LEMMA SpreadEvolves ==
  ASSUME NEW p, Typed(p), NEW I
  PROVE  \A r \in spreadProgramZonesAcrossKeyRange(p, I) : Evolves(p, r)
<1> DEFINE z == p.zones
           byRange == [i \in I |-> z[i].lo * (MaxKey + 1) + z[i].hi]
           n == Cardinality(I)
           low == Min({z[i].lo : i \in I})
           notes == Max({z[i].hi : i \in I}) - low + 1
           next(k) == low + k * (notes \div n) + Min({k, notes % n})
           range(i) == LET k == place(I, byRange, i) IN fromUnordered(z[i], next(k), next(k + 1) - 1)
           to(i) == [range(i) EXCEPT !.root = key(middle(range(i)))]
           new == [i \in I |-> to(i)]
<1>1. SUFFICES ASSUME available(p, I), ~(n < 2) PROVE Evolves(p, change(p, new))
  BY Zenon DEF spreadProgramZonesAcrossKeyRange
<1>2. /\ Len(z) \in Nat /\ DOMAIN z = 1 .. Len(z) /\ I \in SUBSET (1 .. Len(z)) /\ I # {}
      /\ \A i \in I : z[i] \in Zones /\ Has(p, z[i])
  BY <1>1, ProgramParts DEF available
<1>3. /\ MaxKey \in Nat
      /\ \A i \in I : z[i].lo \in Nat /\ z[i].lo \in 0 .. MaxKey /\ z[i].hi \in 0 .. MaxKey /\ z[i].hi \in Nat
  BY <1>2, MappingAssumption, ZoneParts
<1>4. \A i \in I : byRange[i] \in Nat
  BY <1>3
<1> HIDE DEF byRange
<1>5. n \in Nat /\ n >= 2 /\ \A i \in I : place(I, byRange, i) \in Nat
  <2>1. n \in Nat /\ \A i \in I : place(I, byRange, i) \in 0 .. n - 1
    BY <1>2, <1>4, Places
  <2> HIDE DEF n
  <2> QED BY <1>1, <2>1
<1>6. low \in Int /\ notes \in Int
  <2> DEFINE lows == {z[i].lo : i \in I}
             highs == {z[i].hi : i \in I}
  <2>1. lows \subseteq Nat /\ lows # {} /\ highs \subseteq 0 .. MaxKey /\ highs # {}
    BY <1>2, <1>3
  <2> HIDE DEF lows, highs
  <2>2. Min(lows) \in Nat
    BY <2>1, Least
  <2>3. Max(highs) \in 0 .. MaxKey
    BY <1>3, <2>1, Greatest
  <2> QED BY <1>3, <2>2, <2>3 DEF lows, highs
<1> HIDE DEF low, notes, n, z
<1>7. \A k \in Nat : next(k) \in Int
  <2>1. TAKE k \in Nat
  <2>2. notes \div n \in Int /\ notes % n \in Int
    BY <1>5, <1>6
  <2>3. Min({k, notes % n}) \in Int
    BY <2>2, LeastOfTwo
  <2>4. k * (notes \div n) \in Int
    BY <2>2
  <2> QED BY <1>6, <2>3, <2>4
<1> HIDE DEF next
<1>8. ASSUME NEW i \in I
      PROVE  /\ new[i] \in Zones /\ Has(p, new[i]) /\ new[i].group = p.zones[i].group
             /\ Fits(p) => fits(p, new[i])
  <2> DEFINE k == place(I, byRange, i)
             R == fromUnordered(z[i], next(k), next(k + 1) - 1)
             y == new[i]
  <2>1. k \in Nat /\ k + 1 \in Nat
    BY <1>5
  <2> HIDE DEF k
  <2>2. next(k) \in Int /\ next(k + 1) - 1 \in Int
    BY <1>7, <2>1
  <2>3. z[i] \in Zones /\ Has(p, z[i])
    BY <1>2
  <2>4. R \in Zones /\ SameSound(R, z[i]) /\ R.group = z[i].group
    BY <2>2, <2>3, Unordered
  <2>5. y = [R EXCEPT !.root = key(middle(R))]
    BY DEF k
  <2> HIDE DEF R, y
  <2>6. key(middle(R)) \in 0 .. MaxKey
    <3>1. middle(R) \in Int
      BY <2>4, ZoneParts DEF middle
    <3> QED BY <3>1, KeyIsKey
  <2>7. y \in Zones /\ SameSound(y, R) /\ SameRange(y, R)
    BY <2>4, <2>5, <2>6, Rooted
  <2>8. SameSound(y, z[i]) /\ y.group = z[i].group
    BY <2>4, <2>7 DEF SameSound, SameRange
  <2>9. Has(p, y)
    BY <2>3, <2>8 DEF Has, SameSound
  <2>10. Fits(p) => fits(p, z[i])
    BY <1>2 DEF Fits, z
  <2> QED BY <2>7, <2>8, <2>9, <2>10, FitsAsItSounds DEF y, z
<1>9. DOMAIN new = I /\ I \subseteq DOMAIN p.zones
  BY <1>1 DEF available
<1> HIDE DEF new
<1>10. Follow(p, I, new)
  BY <1>8, <1>9 DEF Follow
<1> QED
  BY <1>10, Changed

\* What a state gives back: its zones, if the program has them all.
LEMMA Restored ==
  ASSUME NEW p, Typed(p), NEW state \in Seq(Zones)
  PROVE  LET r == restoreProgramZoneStructureFromState(p, state)
         IN  /\ Typed(r) /\ Extends(p, r) /\ Extends(r, p) /\ r.assets = p.assets
             /\ Len(r.zones) <= Len(state)
             /\ \A g \in DOMAIN r.groups : Tight(r, g)
             /\ (\A i \in DOMAIN state : Has(p, state[i])) => r.zones = state
<1> DEFINE kept == {i \in DOMAIN state : Has(p, state[i])}
           zs == select(state, kept)
           q == [p EXCEPT !.zones = zs]
           r == restoreProgramZoneStructureFromState(p, state)
<1>1. r = recompute(q, DOMAIN p.groups)
  BY Zenon DEF restoreProgramZoneStructureFromState, Has
<1>2. /\ zs \in Seq(Zones) /\ Len(zs) <= Len(state)
      /\ \A k \in DOMAIN zs : \E i \in kept : zs[k] = state[i]
  <2>1. kept \in SUBSET (DOMAIN state)
    OBVIOUS
  <2> HIDE DEF kept
  <2> QED BY <2>1, Selected
<1>3. \A k \in DOMAIN zs : Has(p, zs[k])
  <2>1. \A i \in kept : Has(p, state[i])
    OBVIOUS
  <2> HIDE DEF kept, zs
  <2> QED BY <1>2, <2>1
<1>4. (\A i \in DOMAIN state : Has(p, state[i])) => zs = state
  <2>1. (\A i \in DOMAIN state : Has(p, state[i])) => kept = DOMAIN state
    OBVIOUS
  <2> HIDE DEF kept
  <2> QED BY <2>1, SelectAll
<1> HIDE DEF kept, zs
<1>5. q.zones = zs /\ q.assets = p.assets /\ q.groups = p.groups /\ Typed(q)
  BY <1>2, <1>3, WithZones
<1> HIDE DEF q, r
<1>6. /\ Typed(r) /\ r.zones = zs /\ r.assets = p.assets /\ DOMAIN r.groups = DOMAIN p.groups
      /\ \A g \in DOMAIN p.groups : Tight(r, g)
  BY <1>1, <1>5, Recomputed
<1>7. Extends(p, r) /\ Extends(r, p)
  BY <1>6 DEF Extends
<1> QED
  BY <1>2, <1>4, <1>6, <1>7 DEF r

LEMMA Ensured ==
  ASSUME NEW p, Typed(p), NEW s \in Samples
  PROVE  /\ Evolves(p, ensure(p, s)) /\ ensure(p, s).zones = p.zones /\ ensure(p, s).groups = p.groups
         /\ assetOf(ensure(p, s), s) \in DOMAIN ensure(p, s).assets
         /\ assetOf(ensure(p, s), s) \in Nat
<1> DEFINE q == ensure(p, s)
<1>1. /\ p = [zones |-> p.zones, assets |-> p.assets, groups |-> p.groups]
      /\ p.zones \in Seq(Zones) /\ p.assets \in Seq(Samples) /\ p.groups \in Seq(Ranges)
      /\ Len(p.assets) \in Nat /\ DOMAIN p.assets = 1 .. Len(p.assets)
      /\ \A i \in DOMAIN p.zones : Has(p, p.zones[i])
  BY ProgramParts
<1>2. CASE s \in ToSet(p.assets)
  <2>1. q = p
    BY <1>2 DEF ensure
  <2>2. \E a \in DOMAIN p.assets : p.assets[a] = s
    BY <1>2 DEF ToSet
  <2>3. assetOf(p, s) \in DOMAIN p.assets
    BY <2>2 DEF assetOf
  <2>4. Evolves(p, p)
    BY DEF Evolves, Extends, GroupsFollow
  <2> QED BY <1>1, <2>1, <2>3, <2>4
<1>3. CASE s \notin ToSet(p.assets)
  <2> DEFINE as == Append(p.assets, s)
  <2>1. q = [p EXCEPT !.assets = as]
    BY <1>3 DEF ensure
  <2>2. /\ as \in Seq(Samples) /\ DOMAIN as = 1 .. Len(p.assets) + 1
        /\ \A k \in DOMAIN p.assets : k \in DOMAIN as /\ as[k] = p.assets[k]
        /\ as[Len(p.assets) + 1] = s
    BY <1>1, Appended
  <2> HIDE DEF as, q
  <2>3. q = [zones |-> p.zones, assets |-> as, groups |-> p.groups]
    BY <1>1, <2>1
  <2>4. q.zones = p.zones /\ q.assets = as /\ q.groups = p.groups
    BY <2>3
  <2>5. Extends(p, q)
    BY <2>2, <2>4 DEF Extends
  <2>6. Typed(q)
    <3>1. q \in [zones : Seq(Zones), assets : Seq(Samples), groups : Seq(Ranges)]
      BY <1>1, <2>2, <2>3
    <3>2. \A i \in DOMAIN q.zones : Has(q, q.zones[i])
      BY <1>1, <2>2, <2>4 DEF Has
    <3> QED BY <3>1, <3>2 DEF Typed
  <2>7. Fits(p) => Fits(q)
    BY <1>1, <2>4, <2>5, FitsByAssets DEF Fits, Has
  <2>8. GroupsFollow(p, q)
    BY <2>4 DEF GroupsFollow, ranges, zonesOf
  <2>9. assetOf(q, s) \in DOMAIN q.assets
    <3>1. Len(p.assets) + 1 \in DOMAIN q.assets /\ q.assets[Len(p.assets) + 1] = s
      <4>1. Len(p.assets) + 1 \in 1 .. Len(p.assets) + 1
        BY <1>1
      <4> QED BY <2>2, <2>4, <4>1
    <3> QED BY <3>1 DEF assetOf
  <2>10. assetOf(q, s) \in Nat
    BY <1>1, <2>2, <2>4, <2>9
  <2> QED BY <2>4, <2>5, <2>6, <2>7, <2>8, <2>9, <2>10 DEF Evolves, q
<1> QED
  BY <1>2, <1>3

-----------------------------------------------------------------------------
(* Slices.                                                                 *)

\* Where every zone takes a new place, every range is that of its zones.
LEMMA AllTight ==
  ASSUME NEW q, Typed(q), NEW new, Follow(q, DOMAIN q.zones, new)
  PROVE  \A g \in DOMAIN q.groups : Tight(change(q, new), g)
<1> DEFINE r == change(q, new)
           h == put(q, new)
           G == groupsOf(q, DOMAIN q.zones)
           zs == placed(q, new)
<1>1. /\ zs \in Seq(Zones) /\ DOMAIN zs = DOMAIN q.zones /\ h = [q EXCEPT !.zones = zs]
      /\ \A k \in DOMAIN q.zones : Has(q, zs[k]) /\ zs[k].group = q.zones[k].group
  BY Placed
<1>2. r = recompute(h, G)
  BY Zenon DEF change, Follow
<1>3. \A k \in DOMAIN q.zones : q.zones[k].group \in G
  BY DEF groupsOf
<1> HIDE DEF zs, G, r, h
<1>4. h.zones = zs /\ h.groups = q.groups /\ Typed(h)
  <2>1. zs \in Seq(Zones)
    BY <1>1
  <2>2. \A k \in DOMAIN zs : Has(q, zs[k])
    BY <1>1
  <2>3. Typed([q EXCEPT !.zones = zs])
    BY <2>1, <2>2, WithZones
  <2> QED BY <1>1, <2>3, WithZones
<1>5. r.zones = h.zones /\ \A g \in DOMAIN h.groups : g \in G => Tight(r, g)
  BY <1>2, <1>4, Recomputed
<1>6. ASSUME NEW g \in DOMAIN q.groups, g \notin G PROVE Tight(r, g)
  <2>1. zonesOf(r, g) = {}
    BY <1>1, <1>3, <1>4, <1>5, <1>6, ZonesOf
  <2> QED BY <2>1 DEF Tight
<1> QED
  BY <1>4, <1>5, <1>6 DEF r

\* What a zone plays of the samples.
played(p, z) == {<<z.asset, n>> : n \in z.start .. windowEnd(p, z) - 1}

LEMMA Covers ==
  ASSUME NEW p, NEW c
  PROVE  c \in covered(p) <=> \E i \in DOMAIN p.zones : c \in played(p, p.zones[i])
BY DEF covered, played, ToSet

\* The keys of slices that were remapped.
Keyed(p, r) ==
  LET low == lowestKey(p)
  IN  \A i \in DOMAIN r.zones :
        r.zones[i].lo = low + place(DOMAIN r.zones, bySampleStart(r), i) /\ r.zones[i].hi = r.zones[i].lo

LEMMA LowestKey ==
  ASSUME NEW p, Typed(p), p.zones # <<>>
  PROVE  /\ lowestKey(p) \in 0 .. MaxKey /\ lowestKey(p) = Min(struck(p))
<1> DEFINE lows == {z.lo : z \in ToSet(p.zones)}
<1>1. /\ \A i \in DOMAIN p.zones : p.zones[i] \in Zones
      /\ Len(p.zones) \in Nat /\ DOMAIN p.zones = 1 .. Len(p.zones) /\ p.zones \in Seq(Zones)
  BY ProgramParts
<1>2. \A z \in ToSet(p.zones) : z \in Zones
  BY <1>1 DEF ToSet
<1>3. 1 \in DOMAIN p.zones
  BY <1>1, EmptySeq
<1>4. MaxKey \in Nat
  BY MappingAssumption
<1>5. \A z \in ToSet(p.zones) : z.lo \in 0 .. MaxKey /\ z.hi \in 0 .. MaxKey /\ z.lo <= z.hi
  BY <1>2, ZoneParts
<1>6. p.zones[1] \in ToSet(p.zones)
  BY <1>3 DEF ToSet
<1>7. lows \subseteq 0 .. MaxKey /\ lows \subseteq Nat /\ lows # {}
  BY <1>4, <1>5, <1>6
<1>8. lowestKey(p) = Min(lows)
  BY DEF lowestKey
<1> HIDE DEF lows
<1>9. Min(lows) \in lows /\ \A x \in lows : Min(lows) <= x
  BY <1>7, Least
<1>10. struck(p) \subseteq Nat /\ Min(lows) \in struck(p) /\ \A x \in struck(p) : Min(lows) <= x
  <2>1. \A x : x \in struck(p) <=> \E z \in ToSet(p.zones) : x \in z.lo .. z.hi
    BY DEF struck
  <2>2. PICK y \in ToSet(p.zones) : Min(lows) = y.lo
    BY <1>9 DEF lows
  <2>3. Min(lows) \in struck(p)
    BY <1>4, <1>5, <2>1, <2>2
  <2>4. ASSUME NEW x \in struck(p) PROVE x \in Nat /\ Min(lows) <= x
    <3>1. PICK z \in ToSet(p.zones) : x \in z.lo .. z.hi
      BY <2>1
    <3>2. z.lo \in lows /\ z.lo \in 0 .. MaxKey /\ z.hi \in 0 .. MaxKey
      BY <1>5 DEF lows
    <3>3. Min(lows) <= z.lo /\ Min(lows) \in Nat
      BY <1>7, <1>9, <3>2
    <3> QED BY <1>4, <3>1, <3>2, <3>3
  <2> QED BY <2>3, <2>4
<1>11. Min(struck(p)) \in struck(p) /\ \A y \in struck(p) : Min(struck(p)) <= y
  <2> DEFINE M == struck(p)
  <2>1. M \subseteq Nat /\ M # {}
    BY <1>10
  <2> HIDE DEF M
  <2>2. Min(M) \in M /\ \A y \in M : Min(M) <= y
    BY <2>1, Least
  <2> QED BY <2>2 DEF M
<1>12. Min(struck(p)) <= Min(lows) /\ Min(lows) <= Min(struck(p)) /\ Min(lows) \in Nat /\ Min(struck(p)) \in Nat
  BY <1>7, <1>9, <1>10, <1>11
<1> QED
  BY <1>7, <1>8, <1>9, <1>12

\* Slices cut anew from the same samples, and remapped, cover what they did,
\* from the same key up without a gap.
LEMMA Sliced ==
  ASSUME NEW p, Typed(p), p.zones # <<>>, NEW q, Typed(q), q.assets = p.assets, q.groups = p.groups,
         Fits(p) => Fits(q), Fits(p) => covered(q) = covered(p), q.zones # <<>>,
         NEW r \in remap(q, DOMAIN q.zones, bySampleStart(q), lowestKey(p))
  PROVE  /\ Evolves(p, r)
         /\ Fits(p) => covered(r) = covered(p)
         /\ struck(r) = Min(struck(p)) .. Min(struck(p)) + Len(r.zones) - 1
<1> DEFINE base == lowestKey(p)
           I == DOMAIN q.zones
           rank == bySampleStart(q)
           new == remapped(q, I, rank, base)
           n == Len(q.zones)
<1>1. base \in 0 .. MaxKey /\ base = Min(struck(p)) /\ base \in Int /\ key(base) = base /\ base \in Nat
  <2>1. base \in 0 .. MaxKey /\ base = Min(struck(p))
    BY LowestKey
  <2> HIDE DEF base
  <2>2. MaxKey \in Nat
    BY MappingAssumption
  <2>3. base \in Int /\ base \in Nat
    BY <2>1, <2>2
  <2> QED BY <2>1, <2>3, KeyIsKey
<1>2. /\ n \in Nat /\ I = 1 .. n
      /\ \A i \in I : q.zones[i] \in Zones
  BY ProgramParts
<1>3. \A i \in I : rank[i] \in Nat
  BY <1>2, ZoneParts DEF bySampleStart
<1> HIDE DEF rank, base
<1>4. /\ r = change(q, new) /\ Follow(q, I, new)
      /\ \A i \in I : SameSound(new[i], q.zones[i]) /\ new[i].lo = base + place(I, rank, i) /\ new[i].hi = new[i].lo
  <2>1. r \in remap(q, I, rank, base)
    BY DEF rank, base
  <2>2. I \in SUBSET (DOMAIN q.zones)
    OBVIOUS
  <2>0. base \in Int
    BY <1>1
  <2>3. r = change(q, new)
    BY <1>3, <2>0, <2>1, <2>2, Remapped
  <2>4. Follow(q, I, new)
    BY <1>3, <2>0, <2>1, <2>2, Remapped
  <2>5. \A i \in I : SameSound(new[i], q.zones[i]) /\ new[i].lo = key(base) + place(I, rank, i) /\ new[i].hi = new[i].lo
    BY <1>3, <2>0, <2>1, <2>2, Remapped, Zenon
  <2> QED BY <1>1, <2>3, <2>4, <2>5
<1> HIDE DEF new
<1>5. Evolves(q, r) /\ r.zones = placed(q, new) /\ r.assets = q.assets
  BY <1>4, Changed
<1>6. DOMAIN r.zones = I /\ Len(r.zones) = n /\ \A k \in I : r.zones[k] = new[k]
  <2>1. DOMAIN placed(q, new) = I /\ Len(placed(q, new)) = n
    BY <1>4, Placed
  <2>2. \A k \in I : placed(q, new)[k] = new[k]
    BY <1>4, Placed
  <2> QED BY <1>5, <2>1, <2>2
<1>7. Evolves(p, r)
  <2>1. \A g \in DOMAIN r.groups : Tight(r, g)
    BY <1>4, <1>5, AllTight DEF Evolves, Extends
  <2>2. Extends(p, r)
    BY <1>5 DEF Evolves, Extends
  <2> QED BY <1>5, <2>1, <2>2 DEF Evolves, GroupsFollow
<1>8. covered(r) = covered(q)
  <2>1. ASSUME NEW i \in I PROVE played(r, r.zones[i]) = played(q, q.zones[i])
    <3>1. SameSound(r.zones[i], q.zones[i])
      BY <1>4, <1>6
    <3>2. windowEnd(r, r.zones[i]) = windowEnd(q, q.zones[i])
      BY <1>5, <3>1 DEF windowEnd, SameSound
    <3> QED BY <3>1, <3>2 DEF played, SameSound
  <2>2. \A c : c \in covered(r) <=> c \in covered(q)
    BY <1>6, <2>1, Covers
  <2> QED BY <2>2
<1>9. struck(r) = base .. base + n - 1
  <2>1. /\ \A i \in I : place(I, rank, i) \in 0 .. n - 1
        /\ \A k \in 0 .. n - 1 : \E i \in I : place(I, rank, i) = k
    <3>1. Cardinality(1 .. n) = n
      BY <1>2, FS_Interval
    <3>2. I \in SUBSET (1 .. n)
      BY <1>2
    <3> HIDE DEF n, I
    <3>3. /\ \A i \in I : place(I, rank, i) \in 0 .. Cardinality(I) - 1
          /\ \A k \in 0 .. Cardinality(I) - 1 : \E i \in I : place(I, rank, i) = k
      <4>1. n \in Nat
        BY <1>2
      <4>2. \A i \in I : place(I, rank, i) \in 0 .. Cardinality(I) - 1
        BY <1>3, <3>2, <4>1, Places
      <4>4. \A k \in 0 .. Cardinality(I) - 1 : \E i \in I : place(I, rank, i) = k
        BY <1>3, <3>2, <4>1, AtPlace
      <4> QED BY <4>2, <4>4
    <3> QED BY <1>2, <3>1, <3>3
  <2>2. \A i \in I : r.zones[i].lo = base + place(I, rank, i) /\ r.zones[i].hi = r.zones[i].lo
    BY <1>4, <1>6
  <2>3. \A x : x \in struck(r) <=> \E i \in I : x \in r.zones[i].lo .. r.zones[i].hi
    BY <1>6 DEF struck, ToSet
  <2> HIDE DEF I, n
  <2>4. ASSUME NEW x \in struck(r) PROVE x \in base .. base + n - 1
    <3>1. PICK i \in I : x \in r.zones[i].lo .. r.zones[i].hi
      BY <2>3
    <3>2. place(I, rank, i) \in 0 .. n - 1 /\ r.zones[i].lo = base + place(I, rank, i) /\ r.zones[i].hi = r.zones[i].lo
      BY <2>1, <2>2
    <3> QED BY <1>1, <1>2, <3>1, <3>2
  <2>5. ASSUME NEW x \in base .. base + n - 1 PROVE x \in struck(r)
    <3>1. x - base \in 0 .. n - 1
      BY <1>1, <1>2
    <3>2. PICK i \in I : place(I, rank, i) = x - base
      BY <2>1, <3>1
    <3>3. r.zones[i].lo = x /\ r.zones[i].hi = x /\ x \in Int
      BY <1>1, <1>2, <2>2, <3>2
    <3>4. x \in r.zones[i].lo .. r.zones[i].hi
      BY <3>3
    <3> QED BY <2>3, <3>4
  <2> QED BY <2>4, <2>5
<1> QED
  BY <1>1, <1>6, <1>7, <1>8, <1>9

LEMMA ClippedEnd ==
  ASSUME NEW z \in Zones, NEW end \in Int
  PROVE  LET y == clipLoopEnd([z EXCEPT !.end = end])
         IN  /\ y \in Zones /\ SameRange(y, z) /\ y.asset = z.asset /\ y.start = z.start /\ y.end = end
             /\ y.ls \in Int /\ y.le \in Int
             /\ y.ls = IF z.ls >= end THEN Unset ELSE z.ls
             /\ y.le = IF z.le > end THEN Unset ELSE z.le
<1> DEFINE w == [z EXCEPT !.end = end]
           y == clipLoopEnd(w)
           ls == IF z.ls >= end THEN Unset ELSE z.ls
           le == IF z.le > end THEN Unset ELSE z.le
<1>1. z = [asset |-> z.asset, group |-> z.group, lo |-> z.lo, hi |-> z.hi, root |-> z.root,
           start |-> z.start, end |-> z.end, ls |-> z.ls, le |-> z.le, gain |-> z.gain]
  BY ZoneParts
<1>2. w = [asset |-> z.asset, group |-> z.group, lo |-> z.lo, hi |-> z.hi, root |-> z.root,
           start |-> z.start, end |-> end, ls |-> z.ls, le |-> z.le, gain |-> z.gain]
  BY <1>1
<1>3. y = [w EXCEPT !.ls = IF w.ls >= w.end THEN Unset ELSE w.ls,
                    !.le = IF w.le > w.end THEN Unset ELSE w.le]
  BY Zenon DEF clipLoopEnd
<1> HIDE DEF w
<1>4. w.ls = z.ls /\ w.le = z.le /\ w.end = end
  BY <1>2
<1>5. y = [w EXCEPT !.ls = ls, !.le = le]
  BY <1>3, <1>4
<1>6. z.start \in Nat /\ ls \in Int /\ le \in Int
  BY ZoneParts DEF Unset
<1> HIDE DEF ls, le, y
<1>7. y = recut(z, z.start, end, ls, le)
  BY <1>2, <1>5 DEF recut
<1>8. /\ y \in Zones /\ SameRange(y, z) /\ y.asset = z.asset /\ y.start = z.start /\ y.end = end
      /\ y.ls = ls /\ y.le = le
  <2>1. z.start \in Nat
    BY <1>6
  <2>2. ls \in Int
    BY <1>6
  <2>3. le \in Int
    BY <1>6
  <2>4. IsRecut(y, z, z.start, end, ls, le)
    BY <1>7, <2>1, <2>2, <2>3, Cut, Zenon
  <2> QED BY <2>4 DEF IsRecut
<1> QED
  BY <1>6, <1>8 DEF y, ls, le, w

LEMMA ClippedStart ==
  ASSUME NEW z \in Zones, NEW start \in Nat, NEW end \in Int
  PROVE  LET y == clipLoopStart([z EXCEPT !.start = start, !.end = end])
         IN  /\ y \in Zones /\ SameRange(y, z) /\ y.asset = z.asset /\ y.start = start /\ y.end = end
             /\ y.ls \in Int /\ y.le \in Int
             /\ y.ls = IF z.ls >= 0 /\ z.ls < start THEN start ELSE z.ls
             /\ y.le = IF z.le > 0 /\ z.le <= start THEN Unset ELSE z.le
<1> DEFINE w == [z EXCEPT !.start = start, !.end = end]
           y == clipLoopStart(w)
           ls == IF z.ls >= 0 /\ z.ls < start THEN start ELSE z.ls
           le == IF z.le > 0 /\ z.le <= start THEN Unset ELSE z.le
<1>1. z = [asset |-> z.asset, group |-> z.group, lo |-> z.lo, hi |-> z.hi, root |-> z.root,
           start |-> z.start, end |-> z.end, ls |-> z.ls, le |-> z.le, gain |-> z.gain]
  BY ZoneParts
<1>2. w = [asset |-> z.asset, group |-> z.group, lo |-> z.lo, hi |-> z.hi, root |-> z.root,
           start |-> start, end |-> end, ls |-> z.ls, le |-> z.le, gain |-> z.gain]
  <2>1. w = [z EXCEPT !.start = start, !.end = end]
    OBVIOUS
  <2> HIDE DEF w
  <2> QED BY <1>1, <2>1
<1>3. y = [w EXCEPT !.ls = IF w.ls >= 0 /\ w.ls < w.start THEN w.start ELSE w.ls,
                    !.le = IF w.le > 0 /\ w.le <= w.start THEN Unset ELSE w.le]
  BY Zenon DEF clipLoopStart
<1> HIDE DEF w
<1>4. w.ls = z.ls /\ w.le = z.le /\ w.start = start
  BY <1>2
<1>5. y = [w EXCEPT !.ls = ls, !.le = le]
  BY <1>3, <1>4
<1>6. ls \in Int /\ le \in Int
  BY ZoneParts DEF Unset
<1> HIDE DEF ls, le, y
<1>7. y = recut(z, start, end, ls, le)
  BY <1>2, <1>5 DEF recut
<1>8. /\ y \in Zones /\ SameRange(y, z) /\ y.asset = z.asset /\ y.start = start /\ y.end = end
      /\ y.ls = ls /\ y.le = le
  <2>1. start \in Nat
    BY <1>6
  <2>2. ls \in Int
    BY <1>6
  <2>3. le \in Int
    BY <1>6
  <2>4. IsRecut(y, z, start, end, ls, le)
    BY <1>7, <2>1, <2>2, <2>3, Cut, Zenon
  <2> QED BY <2>4 DEF IsRecut
<1> QED
  BY <1>6, <1>8 DEF y, ls, le, w

\* The zones at the places J of a program are cut anew into the zones N.
Recast(p, J, N, vs) ==
  /\ J \subseteq DOMAIN p.zones /\ vs \in Seq(Zones)
  /\ \A k \in DOMAIN vs : vs[k] \in N \/ \E i \in DOMAIN p.zones \ J : vs[k] = p.zones[i]
  /\ \A i \in DOMAIN p.zones \ J : \E k \in DOMAIN vs : vs[k] = p.zones[i]
  /\ \A y \in N : Has(p, y) /\ \E k \in DOMAIN vs : vs[k] = y
  /\ Fits(p) =>
       /\ \A y \in N : fits(p, y)
       /\ \A c : (\E y \in N : c \in played(p, y)) <=> (\E i \in J : c \in played(p, p.zones[i]))

LEMMA CutAnew ==
  ASSUME NEW p, Typed(p), NEW J, NEW N, NEW vs, Recast(p, J, N, vs)
  PROVE  LET q == [p EXCEPT !.zones = vs]
         IN  /\ Typed(q) /\ q.zones = vs /\ q.assets = p.assets /\ q.groups = p.groups
             /\ Fits(p) => Fits(q)
             /\ Fits(p) => covered(q) = covered(p)
<1> DEFINE q == [p EXCEPT !.zones = vs]
<1> HIDE DEF q
<1>0. vs \in Seq(Zones) /\ J \subseteq DOMAIN p.zones
  BY DEF Recast
<1>1. \A i \in DOMAIN p.zones : Has(p, p.zones[i])
  BY ProgramParts
<1>2. \A k \in DOMAIN vs : Has(p, vs[k])
  BY <1>1 DEF Recast
<1>3. q.zones = vs /\ q.assets = p.assets /\ q.groups = p.groups
  BY WithZones DEF q
<1>4. Typed(q)
  <2>1. vs \in Seq(Zones)
    BY <1>0
  <2> QED BY <1>2, <2>1, WithZones DEF q
<1>5. \A z : windowEnd(q, z) = windowEnd(p, z) /\ (fits(q, z) <=> fits(p, z)) /\ played(q, z) = played(p, z)
  BY <1>3 DEF windowEnd, fits, played
<1>6. ASSUME Fits(p) PROVE Fits(q)
  <2>1. \A k \in DOMAIN vs : fits(p, vs[k])
    BY <1>6 DEF Fits, Recast
  <2> QED BY <1>3, <1>5, <2>1 DEF Fits
<1>7. ASSUME Fits(p) PROVE covered(q) = covered(p)
  <2>1. ASSUME NEW c \in covered(q) PROVE c \in covered(p)
    <3>1. PICK k \in DOMAIN vs : c \in played(p, vs[k])
      <4>1. \E k \in DOMAIN q.zones : c \in played(q, q.zones[k])
        BY Covers
      <4> QED BY <1>3, <1>5, <4>1
    <3>2. CASE vs[k] \in N
      <4>1. PICK i \in J : c \in played(p, p.zones[i])
        BY <1>7, <3>1, <3>2 DEF Recast
      <4>2. i \in DOMAIN p.zones
        BY <1>0, <4>1
      <4> QED BY <4>1, <4>2, Covers
    <3>3. CASE \E i \in DOMAIN p.zones \ J : vs[k] = p.zones[i]
      BY <3>1, <3>3, Covers
    <3> QED BY <3>2, <3>3 DEF Recast
  <2>2. ASSUME NEW c \in covered(p) PROVE c \in covered(q)
    <3>1. PICK i \in DOMAIN p.zones : c \in played(p, p.zones[i])
      BY Covers
    <3>2. \E k \in DOMAIN vs : c \in played(p, vs[k])
      <4>1. CASE i \in J
        <5>1. PICK y \in N : c \in played(p, y)
          BY <1>7, <3>1, <4>1 DEF Recast
        <5> QED BY <5>1 DEF Recast
      <4>2. CASE i \notin J
        BY <3>1, <4>2 DEF Recast
      <4> QED BY <4>1, <4>2
    <3> QED BY <1>3, <1>5, <3>2, Covers
  <2> QED BY <2>1, <2>2
<1> QED
  BY <1>3, <1>4, <1>6, <1>7 DEF q

\* How a zone that fits is read, and what it plays.
LEMMA ReadWhole ==
  ASSUME NEW p, Typed(p), NEW i \in DOMAIN p.zones
  PROVE  /\ resolveZoneSampleEndExclusive(p, p.zones[i]) \in Int
         /\ Fits(p) => /\ fits(p, p.zones[i])
                       /\ resolveZoneSampleEndExclusive(p, p.zones[i]) = windowEnd(p, p.zones[i])
<1> DEFINE z == p.zones[i]
           L == Length[p.assets[z.asset]]
<1>1. z \in Zones /\ z.asset \in DOMAIN p.assets
  BY ProgramParts
<1>2. /\ L \in Nat \ {0}
      /\ windowEnd(p, z) \in Int
      /\ z.start < L /\ windowEnd(p, z) <= L => resolveZoneSampleEndExclusive(p, z) = windowEnd(p, z)
      /\ resolveZoneSampleEndExclusive(p, z) \in Int
  BY <1>1, Resolved
<1>3. z.start \in Nat
  BY <1>1, ZoneParts
<1>4. ASSUME Fits(p) PROVE fits(p, z) /\ z.start < L /\ windowEnd(p, z) <= L
  <2>1. fits(p, z)
    BY <1>4 DEF Fits
  <2>2. z.start < windowEnd(p, z) /\ windowEnd(p, z) <= L
    BY <2>1 DEF fits
  <2> HIDE DEF L, z
  <2> QED BY <1>2, <1>3, <2>1, <2>2
<1> HIDE DEF L, z
<1>5. resolveZoneSampleEndExclusive(p, z) \in Int /\ (Fits(p) => resolveZoneSampleEndExclusive(p, z) = windowEnd(p, z))
  BY <1>2, <1>4
<1>6. Fits(p) => fits(p, z)
  BY <1>4
<1> QED
  BY <1>5, <1>6 DEF z

\* Slices as the properties have them.
SlicedWell(p, r) ==
  /\ Evolves(p, r)
  /\ Fits(p) => covered(r) = covered(p)
  /\ struck(r) = Min(struck(p)) .. Min(struck(p)) + Len(r.zones) - 1

LEMMA SliceSplit ==
  ASSUME NEW p, Typed(p), NEW sample \in Nat, NEW r \in splitProgramSliceAtSample(p, sample)
  PROVE  SlicedWell(p, r)
<1> DEFINE zs == p.zones
           endOf(z) == resolveZoneSampleEndExclusive(p, z)
           around == {i \in DOMAIN zs : zs[i].start < sample /\ sample < endOf(zs[i])}
           at == Min(around)
           z == zs[at]
           end == endOf(z)
           left == clipLoopEnd([z EXCEPT !.end = sample])
           right == clipLoopStart([z EXCEPT !.start = sample, !.end = end])
           ws == [zs EXCEPT ![at] = left]
           vs == InsertAt(ws, at + 1, right)
           q == [p EXCEPT !.zones = vs]
<1>1. r \in remap(q, DOMAIN q.zones, bySampleStart(q), lowestKey(p)) /\ around # {}
  BY Zenon DEF splitProgramSliceAtSample
<1>2. /\ zs \in Seq(Zones) /\ Len(zs) \in Nat /\ DOMAIN zs = 1 .. Len(zs)
      /\ \A i \in DOMAIN zs : zs[i] \in Zones /\ Has(p, zs[i])
  BY ProgramParts
<1>3. at \in DOMAIN zs /\ z.start < sample /\ sample < end
  <2>1. around \subseteq Nat
    BY <1>2
  <2>2. \A i \in around : i \in DOMAIN zs /\ zs[i].start < sample /\ sample < endOf(zs[i])
    OBVIOUS
  <2>3. at \in around
    <3> HIDE DEF around
    <3> QED BY <1>1, <2>1, Least
  <2> HIDE DEF around, at
  <2> QED BY <2>2, <2>3
<1> HIDE DEF around, at
<1>4. /\ end \in Int
      /\ Fits(p) => fits(p, z) /\ end = windowEnd(p, z)
  BY <1>3, ReadWhole
<1>5. z \in Zones /\ Has(p, z)
  BY <1>2, <1>3
<1> HIDE DEF end, z
<1>6. z.start \in Nat /\ z.ls \in Int /\ z.le \in Int
  BY <1>5, ZoneParts
<1>7. /\ left \in Zones /\ SameRange(left, z) /\ left.asset = z.asset /\ left.start = z.start /\ left.end = sample
      /\ left.ls \in Int /\ left.le \in Int
      /\ left.ls = IF z.ls >= sample THEN Unset ELSE z.ls
      /\ left.le = IF z.le > sample THEN Unset ELSE z.le
  BY <1>5, ClippedEnd
<1>8. /\ right \in Zones /\ SameRange(right, z) /\ right.asset = z.asset /\ right.start = sample /\ right.end = end
      /\ right.ls \in Int /\ right.le \in Int
      /\ right.ls = IF z.ls >= 0 /\ z.ls < sample THEN sample ELSE z.ls
      /\ right.le = IF z.le > 0 /\ z.le <= sample THEN Unset ELSE z.le
  BY <1>4, <1>5, ClippedStart
<1> HIDE DEF left, right
<1>9. Has(p, left) /\ Has(p, right)
  BY <1>5, <1>7, <1>8 DEF Has, SameRange
<1>10. windowEnd(p, left) = sample /\ windowEnd(p, right) = end
  BY <1>3, <1>7, <1>8 DEF windowEnd
<1>11. ASSUME Fits(p) PROVE fits(p, left) /\ fits(p, right)
  <2> DEFINE L == Length[p.assets[z.asset]]
  <2>1. L \in Nat
    BY <1>5, ProgramParts DEF Has
  <2>2. end <= L /\ (z.ls >= 0 /\ z.le > z.ls => z.start <= z.ls /\ z.le <= end)
    BY <1>4, <1>11 DEF fits
  <2>3. Length[p.assets[left.asset]] = L /\ Length[p.assets[right.asset]] = L
    BY <1>7, <1>8
  <2> HIDE DEF L
  <2>4. fits(p, left)
    <3>1. left.start < sample /\ sample <= L
      BY <1>3, <1>4, <1>6, <1>7, <2>1, <2>2
    <3>2. left.ls >= 0 /\ left.le > left.ls => left.start <= left.ls /\ left.le <= sample
      BY <1>6, <1>7, <2>2 DEF Unset
    <3> QED BY <1>10, <2>3, <3>1, <3>2 DEF fits
  <2>5. fits(p, right)
    <3>1. right.start < end /\ end <= L
      BY <1>3, <1>8, <2>2
    <3>2. right.ls >= 0 /\ right.le > right.ls => right.start <= right.ls /\ right.le <= end
      BY <1>4, <1>6, <1>8, <2>2 DEF Unset
    <3> QED BY <1>10, <2>3, <3>1, <3>2 DEF fits
  <2> QED BY <2>4, <2>5
<1>12. /\ ws \in Seq(Zones) /\ Len(ws) = Len(zs) /\ DOMAIN ws = DOMAIN zs
       /\ \A k \in DOMAIN zs : ws[k] = IF k = at THEN left ELSE zs[k]
  <2>1. /\ ws = [k \in 1 .. Len(zs) |-> ws[k]]
        /\ \A k \in DOMAIN zs : ws[k] = IF k = at THEN left ELSE zs[k]
    BY <1>2, SequenceParts
  <2> HIDE DEF ws
  <2>2. \A k \in 1 .. Len(zs) : ws[k] \in Zones
    BY <1>2, <1>7, <2>1
  <2>3. ws \in Seq(Zones) /\ Len(ws) = Len(zs) /\ DOMAIN ws = 1 .. Len(zs)
    BY <1>2, <2>1, <2>2, IsSequence
  <2> QED BY <1>2, <2>1, <2>3
<1> HIDE DEF ws
<1>13. at \in Nat /\ at + 1 \in 1 .. Len(ws) + 1 /\ at <= Len(zs) /\ at >= 1
  BY <1>2, <1>3, <1>12
<1>14. /\ vs \in Seq(Zones) /\ Len(vs) = Len(zs) + 1 /\ DOMAIN vs = 1 .. Len(zs) + 1
       /\ \A k \in 1 .. Len(zs) + 1 :
            vs[k] = IF k < at + 1 THEN ws[k] ELSE IF k = at + 1 THEN right ELSE ws[k - 1]
  <2>1. /\ vs \in Seq(Zones) /\ Len(vs) = Len(ws) + 1
        /\ \A k \in 1 .. Len(ws) + 1 :
             vs[k] = IF k < at + 1 THEN ws[k] ELSE IF k = at + 1 THEN right ELSE ws[k - 1]
    <3>1. ws \in Seq(Zones)
      BY <1>12
    <3>2. right \in Zones
      BY <1>8
    <3>3. at + 1 \in 1 .. Len(ws) + 1
      BY <1>13
    <3> DEFINE a == at + 1
    <3>4. a \in 1 .. Len(ws) + 1
      BY <3>3
    <3> HIDE DEF a
    <3>5. /\ InsertAt(ws, a, right) \in Seq(Zones) /\ Len(InsertAt(ws, a, right)) = Len(ws) + 1
          /\ \A k \in 1 .. Len(ws) + 1 :
               InsertAt(ws, a, right)[k] = IF k < a THEN ws[k] ELSE IF k = a THEN right ELSE ws[k - 1]
      BY <3>1, <3>2, <3>4, Inserted
    <3> QED BY <3>5 DEF a
  <2> HIDE DEF vs
  <2>2. DOMAIN vs = 1 .. Len(vs)
    BY <2>1, SequenceParts
  <2> QED BY <1>12, <2>1, <2>2
<1> HIDE DEF vs
<1> DEFINE J == {at}
           N == {left, right}
<1>15. \A k \in DOMAIN vs : vs[k] \in N \/ \E i \in DOMAIN zs \ J : vs[k] = zs[i]
  <2>1. TAKE k \in DOMAIN vs
  <2>2. k \in 1 .. Len(zs) + 1
    BY <1>14
  <2>3. CASE k <= at
    <3>1. vs[k] = ws[k] /\ k \in DOMAIN zs
      BY <1>2, <1>13, <1>14, <2>2, <2>3
    <3> QED BY <1>12, <3>1
  <2>4. CASE k = at + 1
    BY <1>13, <1>14, <2>2, <2>4
  <2>5. CASE k > at + 1
    <3>1. vs[k] = ws[k - 1] /\ k - 1 \in DOMAIN zs /\ k - 1 # at
      BY <1>2, <1>13, <1>14, <2>2, <2>5
    <3> QED BY <1>12, <3>1
  <2> QED BY <1>13, <2>2, <2>3, <2>4, <2>5
<1>16. \A i \in DOMAIN zs \ J : \E k \in DOMAIN vs : vs[k] = zs[i]
  <2>1. TAKE i \in DOMAIN zs \ J
  <2>2. i \in 1 .. Len(zs) /\ i # at /\ ws[i] = zs[i]
    BY <1>2, <1>12
  <2>3. CASE i < at
    <3>1. i \in DOMAIN vs /\ vs[i] = ws[i]
      BY <1>2, <1>13, <1>14, <2>2, <2>3
    <3> QED BY <2>2, <3>1
  <2>4. CASE i > at
    <3>1. i + 1 \in 1 .. Len(zs) + 1 /\ ~(i + 1 < at + 1) /\ i + 1 # at + 1 /\ (i + 1) - 1 = i
      BY <1>2, <1>13, <2>2, <2>4
    <3>2. vs[i + 1] = ws[i]
      BY <1>14, <3>1
    <3> QED BY <1>14, <2>2, <3>1, <3>2
  <2> QED BY <1>13, <2>2, <2>3, <2>4
<1>17. \A y \in N : \E k \in DOMAIN vs : vs[k] = y
  <2>1. at \in DOMAIN vs /\ vs[at] = ws[at] /\ ws[at] = left
    BY <1>2, <1>3, <1>12, <1>13, <1>14
  <2>2. at + 1 \in DOMAIN vs /\ vs[at + 1] = right
    BY <1>2, <1>13, <1>14
  <2> QED BY <2>1, <2>2
<1>18. ASSUME Fits(p), NEW c
       PROVE  (\E y \in N : c \in played(p, y)) <=> (\E i \in J : c \in played(p, zs[i]))
  <2>1. end = windowEnd(p, z)
    BY <1>4, <1>18
  <2>2. played(p, left) = {<<z.asset, n>> : n \in z.start .. sample - 1}
    BY <1>7, <1>10 DEF played
  <2>3. played(p, right) = {<<z.asset, n>> : n \in sample .. end - 1}
    BY <1>8, <1>10 DEF played
  <2>4. played(p, z) = {<<z.asset, n>> : n \in z.start .. end - 1}
    BY <2>1 DEF played
  <2>5. \A n : n \in z.start .. end - 1 <=> n \in z.start .. sample - 1 \/ n \in sample .. end - 1
    BY <1>3, <1>4, <1>6
  <2>6. c \in played(p, z) <=> c \in played(p, left) \/ c \in played(p, right)
    BY <2>2, <2>3, <2>4, <2>5
  <2> QED BY <2>6 DEF z
<1>19. J \in SUBSET (DOMAIN zs) /\ N \in SUBSET Zones
  BY <1>3, <1>7, <1>8
<1>20. \A y \in N : Has(p, y) /\ (Fits(p) => fits(p, y))
  BY <1>9, <1>11
<1>21. zs # <<>> /\ vs # <<>>
  <2>1. Len(zs) # 0 /\ Len(vs) # 0
    BY <1>2, <1>13, <1>14
  <2> QED BY <2>1, EmptySeq
<1> HIDE DEF J, N
<1>22. Recast(p, J, N, vs)
  BY <1>14, <1>15, <1>16, <1>17, <1>18, <1>19, <1>20 DEF Recast
<1>23. /\ Typed(q) /\ q.zones = vs /\ q.assets = p.assets /\ q.groups = p.groups
       /\ Fits(p) => Fits(q)
       /\ Fits(p) => covered(q) = covered(p)
  BY <1>22, CutAnew
<1> HIDE DEF q
<1> QED
  BY <1>1, <1>21, <1>23, Sliced DEF SlicedWell

LEMMA SliceMerged ==
  ASSUME NEW p, Typed(p), NEW boundary, NEW r \in mergeProgramSlicesAtSampleBoundary(p, boundary)
  PROVE  SlicedWell(p, r)
<1> DEFINE zs == p.zones
           order == ordered(DOMAIN zs, bySampleStart(p))
           endOf(i) == resolveZoneSampleEndExclusive(p, zs[i])
           slice(i) == zs[i].asset = 1 /\ zs[i].lo = zs[i].hi
           meet == {k \in 1 .. Len(order) - 1 : endOf(order[k]) = boundary /\ zs[order[k + 1]].start = boundary}
           at == Min(meet)
           a == order[at]
           b == order[at + 1]
           end == endOf(b)
           left == clipLoopEnd([zs[a] EXCEPT !.end = end])
           ws == [zs EXCEPT ![a] = left]
           I == DOMAIN zs \ {b}
           vs == select(ws, I)
           q == [p EXCEPT !.zones = vs]
<1>1. /\ r \in remap(q, DOMAIN q.zones, bySampleStart(q), lowestKey(p))
      /\ ~(Len(zs) < 2) /\ meet # {} /\ \A j \in 1 .. at + 1 : slice(order[j])
  BY Zenon DEF mergeProgramSlicesAtSampleBoundary
<1>2. /\ zs \in Seq(Zones) /\ Len(zs) \in Nat /\ DOMAIN zs = 1 .. Len(zs)
      /\ \A i \in DOMAIN zs : zs[i] \in Zones /\ Has(p, zs[i])
  BY ProgramParts
<1>3. \A i \in DOMAIN zs : bySampleStart(p)[i] \in Nat
  BY <1>2, ZoneParts DEF bySampleStart
<1>4. Cardinality(DOMAIN zs) = Len(zs)
  BY <1>2, FS_Interval
<1>5. /\ Len(order) = Len(zs)
      /\ \A k \in 1 .. Len(zs) : order[k] \in DOMAIN zs
      /\ \A k, l \in 1 .. Len(zs) : order[k] = order[l] => k = l
  <2> DEFINE D == DOMAIN zs
             n == Len(zs)
             rank == bySampleStart(p)
  <2>1. D \in SUBSET (1 .. n) /\ n \in Nat
    BY <1>2
  <2>2. n \in Nat
    BY <1>2
  <2>3. \A i \in D : rank[i] \in Nat
    BY <1>3
  <2>4. Cardinality(D) = n
    BY <1>4
  <2> HIDE DEF D, n, rank
  <2>5. Len(ordered(D, rank)) = Cardinality(D)
    BY <2>1, <2>2, <2>3, Ordered
  <2>6. \A k \in 1 .. Cardinality(D) : ordered(D, rank)[k] \in D
    BY <2>1, <2>2, <2>3, Ordered, ZenonT(30)
  <2>7. \A k, l \in 1 .. Cardinality(D) : ordered(D, rank)[k] = ordered(D, rank)[l] => k = l
    BY <2>1, <2>2, <2>3, Ordered, ZenonT(30)
  <2> QED BY <2>4, <2>5, <2>6, <2>7 DEF D, n, rank
<1> HIDE DEF order
<1>6. at \in 1 .. Len(zs) - 1 /\ endOf(a) = boundary /\ zs[b].start = boundary
  <2>1. meet \subseteq Nat
    BY <1>2, <1>5
  <2>2. \A k \in meet : k \in 1 .. Len(zs) - 1 /\ endOf(order[k]) = boundary /\ zs[order[k + 1]].start = boundary
    BY <1>5
  <2>3. at \in meet
    <3> HIDE DEF meet
    <3> QED BY <1>1, <2>1, Least
  <2> HIDE DEF meet, at
  <2> QED BY <2>2, <2>3
<1> HIDE DEF meet, at
<1>7. /\ a \in DOMAIN zs /\ b \in DOMAIN zs /\ a # b
      /\ zs[a].asset = 1 /\ zs[b].asset = 1
  <2>1. at \in 1 .. Len(zs) /\ at + 1 \in 1 .. Len(zs) /\ at # at + 1 /\ at \in 1 .. at + 1 /\ at + 1 \in 1 .. at + 1
    BY <1>2, <1>6
  <2> QED BY <1>1, <1>5, <2>1
<1> HIDE DEF a, b
<1>8. /\ end \in Int /\ boundary \in Int
      /\ Fits(p) => /\ fits(p, zs[a]) /\ boundary = windowEnd(p, zs[a])
                    /\ fits(p, zs[b]) /\ end = windowEnd(p, zs[b])
  BY <1>6, <1>7, ReadWhole
<1>9. zs[a] \in Zones /\ Has(p, zs[a]) /\ zs[b] \in Zones
  BY <1>2, <1>7
<1> HIDE DEF end
<1>10. zs[a].start \in Nat /\ zs[a].ls \in Int /\ zs[a].le \in Int
  BY <1>9, ZoneParts
<1>11. /\ left \in Zones /\ SameRange(left, zs[a]) /\ left.asset = zs[a].asset /\ left.start = zs[a].start
       /\ left.end = end
       /\ left.ls \in Int /\ left.le \in Int
       /\ left.ls = IF zs[a].ls >= end THEN Unset ELSE zs[a].ls
       /\ left.le = IF zs[a].le > end THEN Unset ELSE zs[a].le
  BY <1>8, <1>9, ClippedEnd
<1> HIDE DEF left
<1>12. Has(p, left)
  BY <1>9, <1>11 DEF Has, SameRange
<1>13. ASSUME Fits(p)
       PROVE  /\ zs[a].start < boundary /\ boundary < end /\ zs[b].start = boundary
              /\ windowEnd(p, left) = end /\ fits(p, left)
  <2> DEFINE L == Length[p.assets[1]]
  <2>1. zs[a].start < boundary /\ boundary < end /\ end <= L
        /\ (zs[a].ls >= 0 /\ zs[a].le > zs[a].ls => zs[a].start <= zs[a].ls /\ zs[a].le <= boundary)
    BY <1>6, <1>7, <1>8, <1>13 DEF fits
  <2>2. windowEnd(p, left) = end
    BY <1>8, <1>10, <1>11, <2>1 DEF windowEnd
  <2>3. Length[p.assets[left.asset]] = L /\ left.start < end
    BY <1>7, <1>8, <1>10, <1>11, <2>1
  <2> HIDE DEF L
  <2>4. left.ls >= 0 /\ left.le > left.ls => left.start <= left.ls /\ left.le <= end
    BY <1>8, <1>10, <1>11, <2>1 DEF Unset
  <2>5. fits(p, left)
    BY <2>1, <2>2, <2>3, <2>4 DEF fits
  <2> QED BY <1>6, <2>1, <2>2, <2>5
<1>14. /\ ws \in Seq(Zones) /\ Len(ws) = Len(zs) /\ DOMAIN ws = DOMAIN zs
       /\ \A k \in DOMAIN zs : ws[k] = IF k = a THEN left ELSE zs[k]
  <2>1. /\ ws = [k \in 1 .. Len(zs) |-> ws[k]]
        /\ \A k \in DOMAIN zs : ws[k] = IF k = a THEN left ELSE zs[k]
    BY <1>2, SequenceParts
  <2> HIDE DEF ws
  <2>2. \A k \in 1 .. Len(zs) : ws[k] \in Zones
    BY <1>2, <1>11, <2>1
  <2>3. ws \in Seq(Zones) /\ Len(ws) = Len(zs) /\ DOMAIN ws = 1 .. Len(zs)
    BY <1>2, <2>1, <2>2, IsSequence
  <2> QED BY <1>2, <2>1, <2>3
<1> HIDE DEF ws
<1>15. /\ vs \in Seq(Zones)
       /\ \A k \in DOMAIN vs : \E i \in I : vs[k] = ws[i]
       /\ \A i \in I : \E k \in DOMAIN vs : vs[k] = ws[i]
  <2>1. I \in SUBSET (DOMAIN ws)
    BY <1>14
  <2>2. ws \in Seq(Zones)
    BY <1>14
  <2> HIDE DEF I
  <2> QED BY <2>1, <2>2, Selected
<1> HIDE DEF vs
<1> DEFINE J == {a, b}
           N == {left}
<1>16. \A k \in DOMAIN vs : vs[k] \in N \/ \E i \in DOMAIN zs \ J : vs[k] = zs[i]
  <2>1. TAKE k \in DOMAIN vs
  <2>2. PICK i \in I : vs[k] = ws[i]
    BY <1>15
  <2>3. CASE i = a
    BY <1>7, <1>14, <2>2, <2>3
  <2>4. CASE i # a
    BY <1>14, <2>2, <2>4
  <2> QED BY <2>3, <2>4
<1>17. \A i \in DOMAIN zs \ J : \E k \in DOMAIN vs : vs[k] = zs[i]
  <2>1. TAKE i \in DOMAIN zs \ J
  <2>2. i \in I /\ ws[i] = zs[i]
    BY <1>14
  <2> QED BY <1>15, <2>2
<1>18. \E k \in DOMAIN vs : vs[k] = left
  <2>1. a \in I /\ ws[a] = left
    BY <1>7, <1>14
  <2> QED BY <1>15, <2>1
<1>19. ASSUME Fits(p), NEW c
       PROVE  (\E y \in N : c \in played(p, y)) <=> (\E i \in J : c \in played(p, zs[i]))
  <2>1. played(p, left) = {<<1, n>> : n \in zs[a].start .. end - 1}
    BY <1>7, <1>11, <1>13, <1>19 DEF played
  <2>2. played(p, zs[a]) = {<<1, n>> : n \in zs[a].start .. boundary - 1}
    BY <1>7, <1>8, <1>19 DEF played
  <2>3. played(p, zs[b]) = {<<1, n>> : n \in boundary .. end - 1}
    BY <1>6, <1>7, <1>8, <1>19 DEF played
  <2>4. \A n : n \in zs[a].start .. end - 1 <=> n \in zs[a].start .. boundary - 1 \/ n \in boundary .. end - 1
    BY <1>8, <1>10, <1>13, <1>19
  <2>5. c \in played(p, left) <=> c \in played(p, zs[a]) \/ c \in played(p, zs[b])
    BY <2>1, <2>2, <2>3, <2>4
  <2> QED BY <2>5
<1>20. zs # <<>> /\ vs # <<>>
  <2>1. Len(zs) # 0 /\ vs # <<>>
    BY <1>1, <1>2, <1>18
  <2> QED BY <2>1
<1>21. Recast(p, J, N, vs)
  BY <1>7, <1>12, <1>13, <1>15, <1>16, <1>17, <1>18, <1>19 DEF Recast
<1> HIDE DEF J, N
<1>22. /\ Typed(q) /\ q.zones = vs /\ q.assets = p.assets /\ q.groups = p.groups
       /\ Fits(p) => Fits(q)
       /\ Fits(p) => covered(q) = covered(p)
  BY <1>21, CutAnew
<1> HIDE DEF q
<1> QED
  BY <1>1, <1>20, <1>22, Sliced DEF SlicedWell

-----------------------------------------------------------------------------
(* Lists of entries.                                                       *)

LEMMA ListOf ==
  ASSUME NEW S, NEW s \in Seq(S)
  PROVE  IsList(s)
BY SequenceParts DEF IsList

LEMMA ListParts ==
  ASSUME NEW s, IsList(s), NEW x
  PROVE  LET S == {s[i] : i \in 1 .. Len(s)} \cup {x}
         IN  s \in Seq(S) /\ x \in S /\ (s # <<>> => Len(s) \in Nat \ {0})
<1> DEFINE S == {s[i] : i \in 1 .. Len(s)} \cup {x}
<1>1. Len(s) \in Nat /\ s = [i \in 1 .. Len(s) |-> s[i]] /\ \A i \in 1 .. Len(s) : s[i] \in S
  BY DEF IsList
<1>2. x \in S
  OBVIOUS
<1> HIDE DEF S
<1>3. s \in Seq(S)
  BY <1>1, IsSequence
<1>4. s # <<>> => Len(s) \in Nat \ {0}
  BY <1>3, EmptySeq
<1> QED
  BY <1>2, <1>3, <1>4 DEF S

LEMMA ListAppend ==
  ASSUME NEW s, IsList(s), NEW x
  PROVE  /\ IsList(Append(s, x)) /\ Len(Append(s, x)) = Len(s) + 1
         /\ \A i \in 1 .. Len(s) + 1 : Append(s, x)[i] = IF i <= Len(s) THEN s[i] ELSE x
<1> DEFINE S == {s[i] : i \in 1 .. Len(s)} \cup {x}
<1>1. s \in Seq(S) /\ x \in S
  BY ListParts
<1> HIDE DEF S
<1>2. /\ Append(s, x) \in Seq(S) /\ Len(Append(s, x)) = Len(s) + 1
      /\ \A k \in DOMAIN s : Append(s, x)[k] = s[k]
      /\ Append(s, x)[Len(s) + 1] = x
  BY <1>1, Appended
<1>3. Len(s) \in Nat /\ DOMAIN s = 1 .. Len(s)
  BY <1>1, SequenceParts
<1>4. IsList(Append(s, x))
  BY <1>2, ListOf
<1> QED
  BY <1>2, <1>3, <1>4

LEMMA ListTail ==
  ASSUME NEW s, IsList(s), s # <<>>
  PROVE  /\ IsList(Tail(s)) /\ Len(Tail(s)) = Len(s) - 1 /\ Len(s) \in Nat \ {0}
         /\ \A i \in 1 .. Len(Tail(s)) : Tail(s)[i] = s[i + 1]
<1> DEFINE S == {s[i] : i \in 1 .. Len(s)} \cup {0}
<1>1. s \in Seq(S) /\ Len(s) \in Nat \ {0}
  BY ListParts
<1> HIDE DEF S
<1>2. /\ Tail(s) \in Seq(S) /\ Len(Tail(s)) = Len(s) - 1
      /\ \A i \in 1 .. Len(Tail(s)) : Tail(s)[i] = s[i + 1]
  BY <1>1, HeadTailProperties
<1>3. IsList(Tail(s))
  BY <1>2, ListOf
<1> QED
  BY <1>1, <1>2, <1>3

LEMMA ListFront ==
  ASSUME NEW s, IsList(s), s # <<>>
  PROVE  /\ IsList(Front(s)) /\ Len(Front(s)) = Len(s) - 1 /\ Len(s) \in Nat \ {0}
         /\ \A i \in 1 .. Len(Front(s)) : Front(s)[i] = s[i]
         /\ Last(s) = s[Len(s)]
<1> DEFINE S == {s[i] : i \in 1 .. Len(s)} \cup {0}
           n == Len(s) - 1
<1>1. s \in Seq(S) /\ Len(s) \in Nat \ {0}
  BY ListParts
<1> HIDE DEF S
<1>2. n \in Nat /\ n < Len(s) /\ Len(s) \in Nat /\ Len(s) - 1 = n
  BY <1>1
<1>3. \A i \in 1 .. n : s[i] \in S
  BY <1>1, <1>2, SequenceParts
<1>4. Front(s) = SubSeq(s, 1, n)
  BY Zenon DEF Front
<1> HIDE DEF n
<1>5. /\ SubSeq(s, 1, n) \in Seq(S)
      /\ Len(SubSeq(s, 1, n)) = IF 1 <= n THEN n - 1 + 1 ELSE 0
      /\ \A i \in 1 .. n - 1 + 1 : SubSeq(s, 1, n)[i] = s[1 + i - 1]
  <2>1. 1 \in Int /\ n \in Int
    BY <1>2
  <2> QED BY <1>3, <2>1, SubSeqProperties
<1>6. \A i \in 1 .. n : i \in 1 .. n - 1 + 1 /\ 1 + i - 1 = i
  BY <1>2
<1>7. Len(Front(s)) = n /\ \A i \in 1 .. n : Front(s)[i] = s[i]
  BY <1>2, <1>4, <1>5, <1>6
<1>8. IsList(Front(s))
  BY <1>4, <1>5, ListOf
<1>9. Last(s) = s[Len(s)]
  BY Zenon DEF Last
<1> QED
  BY <1>1, <1>2, <1>7, <1>8, <1>9

LEMMA StackEmpty ==
  ASSUME NEW p, NEW t, NEW l
  PROVE  StackOK(<<>>, p, t, l)
<1>1. <<>> \in Seq({}) /\ Len(<<>>) = 0
  BY EmptySeq
<1>2. IsList(<<>>)
  BY <1>1, ListOf
<1> QED
  BY <1>1, <1>2 DEF StackOK

LEMMA StackAppend ==
  ASSUME NEW p, NEW t, NEW l, NEW s, StackOK(s, p, t, l), NEW x, EntryOK(x, p, t, l)
  PROVE  StackOK(Append(s, x), p, t, l)
<1>1. IsList(s) /\ \A i \in 1 .. Len(s) : EntryOK(s[i], p, t, l)
  BY DEF StackOK
<1>2. /\ IsList(Append(s, x)) /\ Len(Append(s, x)) = Len(s) + 1
      /\ \A i \in 1 .. Len(s) + 1 : Append(s, x)[i] = IF i <= Len(s) THEN s[i] ELSE x
  BY <1>1, ListAppend
<1>3. Len(s) \in Nat
  BY <1>1 DEF IsList
<1>4. \A i \in 1 .. Len(s) + 1 : EntryOK(Append(s, x)[i], p, t, l)
  BY <1>1, <1>2, <1>3
<1> QED
  BY <1>2, <1>4 DEF StackOK

LEMMA StackTail ==
  ASSUME NEW p, NEW t, NEW l, NEW s, StackOK(s, p, t, l), s # <<>>
  PROVE  StackOK(Tail(s), p, t, l)
<1>1. IsList(s) /\ \A i \in 1 .. Len(s) : EntryOK(s[i], p, t, l)
  BY DEF StackOK
<1>2. /\ IsList(Tail(s)) /\ Len(Tail(s)) = Len(s) - 1 /\ Len(s) \in Nat \ {0}
      /\ \A i \in 1 .. Len(Tail(s)) : Tail(s)[i] = s[i + 1]
  BY <1>1, ListTail
<1>3. \A i \in 1 .. Len(Tail(s)) : i + 1 \in 1 .. Len(s)
  BY <1>2
<1> QED
  BY <1>1, <1>2, <1>3 DEF StackOK

LEMMA StackFront ==
  ASSUME NEW p, NEW t, NEW l, NEW s, StackOK(s, p, t, l), s # <<>>
  PROVE  StackOK(Front(s), p, t, l) /\ EntryOK(Last(s), p, t, l)
<1>1. IsList(s) /\ \A i \in 1 .. Len(s) : EntryOK(s[i], p, t, l)
  BY DEF StackOK
<1>2. /\ IsList(Front(s)) /\ Len(Front(s)) = Len(s) - 1 /\ Len(s) \in Nat \ {0}
      /\ \A i \in 1 .. Len(Front(s)) : Front(s)[i] = s[i]
      /\ Last(s) = s[Len(s)]
  BY <1>1, ListFront
<1>3. /\ \A i \in 1 .. Len(Front(s)) : i \in 1 .. Len(s)
      /\ Len(s) \in 1 .. Len(s)
  BY <1>2
<1> QED
  BY <1>1, <1>2, <1>3 DEF StackOK

LEMMA StackPush ==
  ASSUME NEW p, NEW t, NEW l, NEW s, StackOK(s, p, t, l), NEW x, EntryOK(x, p, t, l)
  PROVE  StackOK(push(s, x), p, t, l)
<1>1. MaxEntries \in Nat \ {0}
  BY SessionAssumption
<1>2. CASE Len(s) = MaxEntries
  <2>1. s # <<>>
    <3>1. <<>> \in Seq({}) /\ Len(<<>>) = 0
      BY EmptySeq
    <3> QED BY <1>1, <1>2, <3>1
  <2> QED BY <1>2, <2>1, StackTail, StackAppend DEF push
<1>3. CASE Len(s) # MaxEntries
  BY <1>3, StackAppend DEF push
<1> QED
  BY <1>2, <1>3

-----------------------------------------------------------------------------
(* Entries.                                                                *)

\* What is heard depends on the zones and on the samples that they name.
LEMMA RowByAssets ==
  ASSUME NEW p, NEW q, NEW z, z.asset \in DOMAIN p.assets, z.asset \in DOMAIN q.assets,
         q.assets[z.asset] = p.assets[z.asset]
  PROVE  row(q, z) = row(p, z)
<1>1. resolveSampleLength(q, z) = resolveSampleLength(p, z)
  BY DEF resolveSampleLength
<1> QED
  BY <1>1, Zenon DEF row

heard(p, z) == [row(p, z) EXCEPT !.asset = p.assets[row(p, z).asset]]

LEMMA SoundIs ==
  ASSUME NEW p
  PROVE  sound(p) = [i \in DOMAIN p.zones |-> heard(p, p.zones[i])]
BY Zenon DEF sound, heard

LEMMA RowAsset ==
  ASSUME NEW p, NEW z
  PROVE  row(p, z).asset = z.asset
BY DEF row

LEMMA SameSounds ==
  ASSUME NEW p, NEW q, q.zones = p.zones,
         \A i \in DOMAIN p.zones :
           LET a == p.zones[i].asset
           IN  a \in DOMAIN p.assets /\ a \in DOMAIN q.assets /\ q.assets[a] = p.assets[a]
  PROVE  sound(q) = sound(p)
<1>1. ASSUME NEW i \in DOMAIN p.zones PROVE heard(q, q.zones[i]) = heard(p, p.zones[i])
  <2>1. row(q, p.zones[i]) = row(p, p.zones[i])
    BY RowByAssets
  <2>2. q.assets[row(p, p.zones[i]).asset] = p.assets[row(p, p.zones[i]).asset]
    BY RowAsset
  <2> QED BY <2>1, <2>2, Zenon DEF heard
<1> QED
  BY <1>1, SoundIs

LEMMA OfProgramGrows ==
  ASSUME NEW p, Typed(p), NEW r, Typed(r), Extends(p, r), NEW t, NEW entry,
         entry.state \in Seq(Zones), OfProgram(entry, p, t)
  PROVE  OfProgram(entry, r, t)
<1> DEFINE P == [p EXCEPT !.zones = entry.state]
           R == [r EXCEPT !.zones = entry.state]
<1>1. P.zones = entry.state /\ P.assets = p.assets /\ R.zones = entry.state /\ R.assets = r.assets
  BY WithZones
<1>2. \A i \in DOMAIN entry.state : Has(p, entry.state[i])
  BY DEF OfProgram
<1>3. \A i \in DOMAIN entry.state : Has(r, entry.state[i])
  <2>1. Len(r.groups) = Len(p.groups)
    <3>1. /\ Len(p.groups) \in Nat /\ DOMAIN p.groups = 1 .. Len(p.groups)
          /\ Len(r.groups) \in Nat /\ DOMAIN r.groups = 1 .. Len(r.groups)
      BY ProgramParts
    <3> QED BY <3>1 DEF Extends
  <2> QED BY <1>2, <2>1 DEF Has, Extends
<1>4. ASSUME t PROVE Fits(P) /\ sound(P) = entry.sound
  BY <1>4 DEF OfProgram
<1> HIDE DEF P, R
<1>5. \A i \in DOMAIN P.zones : fits(R, P.zones[i]) <=> fits(P, P.zones[i])
  BY <1>1, <1>2 DEF fits, windowEnd, Has, Extends
<1>6. sound(R) = sound(P)
  <2>1. \A i \in DOMAIN P.zones :
          LET a == P.zones[i].asset
          IN  a \in DOMAIN P.assets /\ a \in DOMAIN R.assets /\ R.assets[a] = P.assets[a]
    BY <1>1, <1>2 DEF Has, Extends
  <2> QED BY <1>1, <2>1, SameSounds
<1>7. t => Fits(R) /\ sound(R) = entry.sound
  BY <1>1, <1>4, <1>5, <1>6 DEF Fits
<1> QED
  BY <1>3, <1>7 DEF OfProgram, R

\* Entries stay as good when the program grows and trust is lost, and those of
\* another program ask for nothing.
LEMMA StackGrows ==
  ASSUME NEW p, Typed(p), NEW r, Typed(r), Extends(p, r), NEW t, NEW u, u => t, NEW l,
         NEW s, StackOK(s, p, t, l)
  PROVE  StackOK(s, r, u, l)
<1>1. ASSUME NEW e, EntryOK(e, p, t, l) PROVE EntryOK(e, r, u, l)
  <2>1. ASSUME e.kind = "mapping", e.library = l PROVE OfProgram(e, r, u)
    <3>1. OfProgram(e, p, t) /\ e.state \in Seq(Zones)
      BY <1>1, <2>1 DEF EntryOK
    <3>2. OfProgram(e, p, u)
      BY <3>1 DEF OfProgram
    <3> QED BY <3>1, <3>2, OfProgramGrows
  <2> QED BY <1>1, <2>1 DEF EntryOK
<1> QED
  BY <1>1 DEF StackOK

LEMMA StackOfAnother ==
  ASSUME NEW p, NEW r, NEW t, NEW u, NEW l \in Nat, NEW s, StackOK(s, p, t, l)
  PROVE  StackOK(s, r, u, l + 1)
<1>1. ASSUME NEW e, EntryOK(e, p, t, l) PROVE EntryOK(e, r, u, l + 1)
  BY <1>1 DEF EntryOK
<1> QED
  BY <1>1 DEF StackOK

\* A row, and the zone of a state that it is kept in.
stateZone(p, z) ==
  [z EXCEPT !.start = row(p, z).start,
            !.ls = IF row(p, z).ls >= 0 /\ row(p, z).le >= row(p, z).ls THEN row(p, z).ls ELSE Unset]

LEMMA RowParts ==
  ASSUME NEW p, Typed(p), NEW z \in Zones, z.asset \in DOMAIN p.assets
  PROVE  LET L == Length[p.assets[z.asset]]
             first == limit(0, L - 1, z.start)
             last == resolveSampleEndInclusive(z, L)
             loops == resolveLoopRange(z, first, last)
         IN  /\ row(p, z) = [asset |-> z.asset, lo |-> z.lo, hi |-> z.hi, root |-> z.root, gain |-> z.gain,
                             start |-> first, end |-> last, ls |-> loops.ls, le |-> loops.le]
             /\ L \in Nat \ {0} /\ first \in 0 .. L - 1 /\ last \in 0 .. L - 1
             /\ loops.ls \in Int /\ loops.le \in Int
             /\ z.ls < 0 \/ z.le <= z.ls => loops.ls = Unset
             /\ fits(p, z) =>
                  /\ first = z.start /\ last = windowEnd(p, z) - 1
                  /\ z.ls >= 0 /\ z.le > z.ls => loops.ls = z.ls /\ loops.le = z.le - 1
<1> DEFINE L == Length[p.assets[z.asset]]
           first == limit(0, L - 1, z.start)
           last == resolveSampleEndInclusive(z, L)
           loops == resolveLoopRange(z, first, last)
<1>1. /\ L \in Nat \ {0} /\ resolveSampleLength(p, z) = L /\ windowEnd(p, z) \in Int /\ last \in 0 .. L - 1
      /\ z.start < L /\ windowEnd(p, z) <= L => last = windowEnd(p, z) - 1
  BY Resolved
<1>2. row(p, z) = [asset |-> z.asset, lo |-> z.lo, hi |-> z.hi, root |-> z.root, gain |-> z.gain,
                   start |-> first, end |-> last, ls |-> loops.ls, le |-> loops.le]
  BY <1>1, Zenon DEF row
<1>3. z.start \in Nat /\ z.ls \in Int /\ z.le \in Int
  BY ZoneParts
<1>4. fits(p, z) => z.start < windowEnd(p, z) /\ windowEnd(p, z) <= L
                    /\ (z.ls >= 0 /\ z.le > z.ls => z.start <= z.ls /\ z.le <= windowEnd(p, z))
  BY DEF fits
<1> HIDE DEF L, last
<1>5. first \in 0 .. L - 1 /\ (z.start < L => first = z.start)
  BY <1>1, <1>3 DEF limit
<1> HIDE DEF first
<1> DEFINE ls == limit(first, last, z.ls)
           le == limit(ls, last, z.le - 1)
<1>6. ls \in Int /\ (first <= z.ls /\ z.ls <= last => ls = z.ls)
  BY <1>1, <1>3, <1>5 DEF limit
<1> HIDE DEF ls
<1>7. le \in Int /\ (ls <= z.le - 1 /\ z.le - 1 <= last => le = z.le - 1)
  BY <1>1, <1>3, <1>6 DEF limit
<1> HIDE DEF le
<1>8. loops = IF z.ls < 0 \/ z.le <= z.ls THEN [ls |-> Unset, le |-> Unset] ELSE [ls |-> ls, le |-> le]
  BY Zenon DEF resolveLoopRange, ls, le
<1> HIDE DEF loops
<1>9. CASE z.ls < 0 \/ z.le <= z.ls
  <2>1. loops.ls = Unset /\ loops.le = Unset
    BY <1>8, <1>9
  <2>2. ~(z.ls >= 0 /\ z.le > z.ls)
    BY <1>3, <1>9
  <2>3. Unset \in Int
    BY DEF Unset
  <2>4. fits(p, z) => first = z.start /\ last = windowEnd(p, z) - 1
    BY <1>1, <1>3, <1>4, <1>5
  <2> QED BY <1>1, <1>2, <1>5, <2>1, <2>2, <2>3, <2>4 DEF L, last, first, loops
<1>10. CASE ~(z.ls < 0 \/ z.le <= z.ls)
  <2>1. loops.ls = ls /\ loops.le = le
    BY <1>8, <1>10
  <2>2. fits(p, z) => first = z.start /\ last = windowEnd(p, z) - 1
    BY <1>1, <1>3, <1>4, <1>5
  <2>3. fits(p, z) => ls = z.ls /\ le = z.le - 1
    BY <1>1, <1>3, <1>4, <1>6, <1>7, <1>10, <2>2
  <2> QED BY <1>1, <1>2, <1>5, <1>6, <1>7, <1>10, <2>1, <2>2, <2>3 DEF L, last, first, loops
<1> QED
  BY <1>9, <1>10

LEMMA StateZone ==
  ASSUME NEW p, Typed(p), NEW z \in Zones, Has(p, z)
  PROVE  /\ stateZone(p, z) \in Zones /\ Has(p, stateZone(p, z))
         /\ fits(p, z) => fits(p, stateZone(p, z)) /\ row(p, stateZone(p, z)) = row(p, z)
<1> DEFINE L == Length[p.assets[z.asset]]
           first == limit(0, L - 1, z.start)
           last == resolveSampleEndInclusive(z, L)
           loops == resolveLoopRange(z, first, last)
           ls == IF loops.ls >= 0 /\ loops.le >= loops.ls THEN loops.ls ELSE Unset
           y == stateZone(p, z)
<1>1. z.asset \in DOMAIN p.assets
  BY DEF Has
<1>2. row(p, z) = [asset |-> z.asset, lo |-> z.lo, hi |-> z.hi, root |-> z.root, gain |-> z.gain,
                   start |-> first, end |-> last, ls |-> loops.ls, le |-> loops.le]
  BY <1>1, RowParts
<1>3. L \in Nat \ {0} /\ first \in 0 .. L - 1 /\ last \in 0 .. L - 1
      /\ loops.ls \in Int /\ loops.le \in Int
  BY <1>1, RowParts
<1>4. /\ z.ls < 0 \/ z.le <= z.ls => loops.ls = Unset
      /\ fits(p, z) =>
           /\ first = z.start /\ last = windowEnd(p, z) - 1
           /\ z.ls >= 0 /\ z.le > z.ls => loops.ls = z.ls /\ loops.le = z.le - 1
  BY <1>1, RowParts
<1> HIDE DEF first, last, loops, L
<1>5. z.start \in Nat /\ z.ls \in Int /\ z.le \in Int /\ z.end \in Int
  BY ZoneParts
<1>6. ls \in Int /\ first \in Nat
  BY <1>3 DEF Unset
<1>7. y = [z EXCEPT !.start = first, !.ls = ls]
  <2>1. row(p, z).start = first /\ row(p, z).ls = loops.ls /\ row(p, z).le = loops.le
    BY <1>2
  <2> QED BY <2>1, Zenon DEF stateZone
<1>8. ls = IF z.ls < 0 \/ z.le <= z.ls THEN Unset ELSE ls
  BY <1>4 DEF Unset
<1>9. fits(p, z) /\ ~(z.ls < 0 \/ z.le <= z.ls) => ls = z.ls
  BY <1>4, <1>5
<1> HIDE DEF ls, y
<1>10. y = recut(z, first, z.end, ls, z.le)
  <2>1. z = [asset |-> z.asset, group |-> z.group, lo |-> z.lo, hi |-> z.hi, root |-> z.root,
             start |-> z.start, end |-> z.end, ls |-> z.ls, le |-> z.le, gain |-> z.gain]
    BY ZoneParts
  <2> QED BY <1>7, <2>1 DEF recut
<1>11. /\ y \in Zones /\ SameRange(y, z) /\ y.asset = z.asset /\ y.root = z.root
       /\ y.start = first /\ y.end = z.end /\ y.ls = ls /\ y.le = z.le
  <2>1. first \in Nat
    BY <1>6
  <2>2. ls \in Int
    BY <1>6
  <2>3. z.end \in Int
    BY <1>5
  <2>4. z.le \in Int
    BY <1>5
  <2>5. IsRecut(y, z, first, z.end, ls, z.le)
    BY <1>10, <2>1, <2>2, <2>3, <2>4, Cut, Zenon
  <2> QED BY <2>5 DEF IsRecut
<1>12. y.gain = z.gain
  BY <1>10 DEF recut
<1>13. Has(p, y)
  BY <1>11 DEF Has, SameRange
<1>14. ASSUME fits(p, z) PROVE fits(p, y) /\ row(p, y) = row(p, z)
  <2>1. first = z.start
    BY <1>4, <1>14
  <2>2. CASE z.ls < 0 \/ z.le <= z.ls
    <3>1. y.ls = Unset
      BY <1>8, <1>11, <2>2
    <3>2. windowEnd(p, y) = windowEnd(p, z)
      BY <1>11, <2>1 DEF windowEnd
    <3>3. fits(p, y)
      BY <1>11, <1>14, <2>1, <3>1, <3>2 DEF fits, Unset
    <3>4. \A a, b : resolveLoopRange(y, a, b) = resolveLoopRange(z, a, b)
      BY <1>5, <2>2, <3>1 DEF resolveLoopRange, Unset
    <3>5. resolveSampleEndInclusive(y, L) = resolveSampleEndInclusive(z, L)
      BY <1>11, <2>1 DEF resolveSampleEndInclusive
    <3>6. resolveSampleLength(p, y) = L /\ resolveSampleLength(p, z) = L
      BY <1>1, <1>11 DEF resolveSampleLength, L
    <3>7. y.lo = z.lo /\ y.hi = z.hi
      BY <1>11 DEF SameRange
    <3> QED BY <1>11, <1>12, <2>1, <3>3, <3>4, <3>5, <3>6, <3>7, Zenon DEF row
  <2>3. CASE ~(z.ls < 0 \/ z.le <= z.ls)
    <3>1. ls = z.ls
      BY <1>9, <1>14, <2>3
    <3>2. y = z
      <4>1. z = [asset |-> z.asset, group |-> z.group, lo |-> z.lo, hi |-> z.hi, root |-> z.root,
                 start |-> z.start, end |-> z.end, ls |-> z.ls, le |-> z.le, gain |-> z.gain]
        BY ZoneParts
      <4> QED BY <1>10, <2>1, <3>1, <4>1 DEF recut
    <3> QED BY <1>14, <3>2
  <2> QED BY <2>2, <2>3
<1> QED
  BY <1>11, <1>13, <1>14 DEF y

LEMMA SnapshotOK ==
  ASSUME NEW p, Typed(p), Len(p.zones) <= MaxZones, NEW t, t => Fits(p), library \in Nat,
         NEW entry, entry.kind = "mapping", entry.library = library,
         entry.state = createProgramZoneMappingState(p), entry.sound = sound(p)
  PROVE  EntryOK(entry, p, t, library)
<1> DEFINE state == createProgramZoneMappingState(p)
           q == [p EXCEPT !.zones = state]
<1>1. state = [i \in DOMAIN p.zones |-> stateZone(p, p.zones[i])]
  BY Zenon DEF createProgramZoneMappingState, stateZone
<1>2. /\ Len(p.zones) \in Nat /\ DOMAIN p.zones = 1 .. Len(p.zones)
      /\ \A i \in DOMAIN p.zones : p.zones[i] \in Zones /\ Has(p, p.zones[i])
  BY ProgramParts
<1> HIDE DEF state
<1>3. ASSUME NEW i \in DOMAIN p.zones
      PROVE  /\ state[i] = stateZone(p, p.zones[i]) /\ state[i] \in Zones /\ Has(p, state[i])
             /\ fits(p, p.zones[i]) => fits(p, state[i]) /\ row(p, state[i]) = row(p, p.zones[i])
  <2>1. state[i] = stateZone(p, p.zones[i])
    BY <1>1
  <2>2. p.zones[i] \in Zones /\ Has(p, p.zones[i])
    BY <1>2
  <2> QED BY <2>1, <2>2, StateZone
<1>4. state \in Seq(Zones) /\ Len(state) = Len(p.zones) /\ DOMAIN state = DOMAIN p.zones
  <2>1. state = [i \in 1 .. Len(p.zones) |-> state[i]] /\ \A i \in 1 .. Len(p.zones) : state[i] \in Zones
    BY <1>1, <1>2, <1>3
  <2> QED BY <1>2, <2>1, IsSequence
<1>5. q.zones = state /\ q.assets = p.assets
  BY WithZones
<1> HIDE DEF q
<1>6. ASSUME t PROVE Fits(q) /\ sound(q) = sound(p)
  <2>1. \A i \in DOMAIN p.zones : fits(p, p.zones[i])
    BY <1>6 DEF Fits
  <2>2. \A z : fits(q, z) <=> fits(p, z)
    BY <1>5 DEF fits, windowEnd
  <2>3. Fits(q)
    BY <1>3, <1>4, <1>5, <2>1, <2>2 DEF Fits
  <2>4. ASSUME NEW i \in DOMAIN p.zones PROVE heard(q, q.zones[i]) = heard(p, p.zones[i])
    <3>1. row(p, state[i]) = row(p, p.zones[i]) /\ state[i].asset \in DOMAIN p.assets
      BY <1>3, <2>1 DEF Has
    <3>2. row(q, state[i]) = row(p, state[i])
      BY <1>5, <3>1, RowByAssets
    <3> QED BY <1>5, <3>1, <3>2, Zenon DEF heard
  <2>5. sound(q) = sound(p)
    BY <1>4, <1>5, <2>4, SoundIs
  <2> QED BY <2>3, <2>5
<1>7. OfProgram(entry, p, t)
  BY <1>3, <1>4, <1>6 DEF OfProgram, q, state
<1> QED
  BY <1>4, <1>7 DEF EntryOK, state

-----------------------------------------------------------------------------
(* The history.                                                            *)

LEMMA HistoryOf ==
  ASSUME NEW p, NEW t, NEW l, NEW undo, StackOK(undo, p, t, l), NEW redo, StackOK(redo, p, t, l),
         NEW after, NEW last, NEW current
  PROVE  HistoryOK([undo |-> undo, redo |-> redo, after |-> after, last |-> last, path |-> current], p, t, l)
BY DEF HistoryOK

IsHistory(h) ==
  h = [undo |-> h.undo, redo |-> h.redo, after |-> h.after, last |-> h.last, path |-> h.path]
stacked(h, undo, redo) == [h EXCEPT !.undo = undo, !.redo = redo]
settled(h, after, last) == [h EXCEPT !.after = after, !.last = last]
moved(h, after, current) == [h EXCEPT !.after = after, !.path = current]
latest(h, now) == [h EXCEPT !.last = now]

LEMMA Rewritten ==
  ASSUME NEW h, IsHistory(h), NEW a, NEW b
  PROVE  /\ stacked(h, a, b) = [undo |-> a, redo |-> b, after |-> h.after, last |-> h.last, path |-> h.path]
         /\ settled(h, a, b) = [undo |-> h.undo, redo |-> h.redo, after |-> a, last |-> b, path |-> h.path]
         /\ moved(h, a, b) = [undo |-> h.undo, redo |-> h.redo, after |-> a, last |-> h.last, path |-> b]
         /\ latest(h, a) = [undo |-> h.undo, redo |-> h.redo, after |-> h.after, last |-> a, path |-> h.path]
<1> DEFINE g1 == stacked(h, a, b)
           g2 == settled(h, a, b)
           g3 == moved(h, a, b)
           g4 == latest(h, a)
<1>1. h = [undo |-> h.undo, redo |-> h.redo, after |-> h.after, last |-> h.last, path |-> h.path]
  BY Zenon DEF IsHistory
<1>2. g1 = [h EXCEPT !.undo = a, !.redo = b]
  BY Zenon DEF stacked
<1>3. g2 = [h EXCEPT !.after = a, !.last = b]
  BY Zenon DEF settled
<1>4. g3 = [h EXCEPT !.after = a, !.path = b]
  BY Zenon DEF moved
<1>5. g4 = [h EXCEPT !.last = a]
  BY Zenon DEF latest
<1> HIDE DEF g1, g2, g3, g4
<1>6. g1 = [undo |-> a, redo |-> b, after |-> h.after, last |-> h.last, path |-> h.path]
  BY <1>1, <1>2
<1>7. g2 = [undo |-> h.undo, redo |-> h.redo, after |-> a, last |-> b, path |-> h.path]
  BY <1>1, <1>3
<1>8. g3 = [undo |-> h.undo, redo |-> h.redo, after |-> a, last |-> h.last, path |-> b]
  BY <1>1, <1>4
<1>9. g4 = [undo |-> h.undo, redo |-> h.redo, after |-> h.after, last |-> a, path |-> h.path]
  BY <1>1, <1>5
<1> QED
  BY <1>6, <1>7, <1>8, <1>9 DEF g1, g2, g3, g4

LEMMA RewrittenOK ==
  ASSUME NEW p, NEW t, NEW l, NEW h, HistoryOK(h, p, t, l), NEW a, NEW b
  PROVE  /\ HistoryOK(settled(h, a, b), p, t, l)
         /\ HistoryOK(moved(h, a, b), p, t, l)
         /\ HistoryOK(latest(h, a), p, t, l)
         /\ StackOK(a, p, t, l) /\ StackOK(b, p, t, l) => HistoryOK(stacked(h, a, b), p, t, l)
<1>1. IsHistory(h)
  BY Zenon DEF HistoryOK, IsHistory
<1>2. StackOK(h.undo, p, t, l) /\ StackOK(h.redo, p, t, l)
  BY Zenon DEF HistoryOK
<1>3. HistoryOK(settled(h, a, b), p, t, l)
  BY <1>1, <1>2, Rewritten, HistoryOf
<1>4. HistoryOK(moved(h, a, b), p, t, l)
  BY <1>1, <1>2, Rewritten, HistoryOf
<1>5. HistoryOK(latest(h, a), p, t, l)
  BY <1>1, <1>2, Rewritten, HistoryOf
<1>6. StackOK(a, p, t, l) /\ StackOK(b, p, t, l) => HistoryOK(stacked(h, a, b), p, t, l)
  BY <1>1, <1>2, Rewritten, HistoryOf
<1> QED
  BY <1>3, <1>4, <1>5, <1>6

LEMMA ClearedOK ==
  ASSUME NEW p, NEW t, NEW l, NEW now, NEW current
  PROVE  HistoryOK(Cleared(now, current), p, t, l)
BY StackEmpty, HistoryOf, Zenon DEF Cleared

LEMMA SyncedOK ==
  ASSUME NEW p, NEW t, NEW l, NEW h, HistoryOK(h, p, t, l), NEW now, NEW current
  PROVE  HistoryOK(Synced(h, now, current), p, t, l)
BY ClearedOK DEF Synced

onPath(h, current) == [h EXCEPT !.path = current]

LEMMA OnPathOK ==
  ASSUME NEW p, NEW t, NEW l, NEW h, HistoryOK(h, p, t, l), NEW current
  PROVE  HistoryOK(onPath(h, current), p, t, l)
<1> DEFINE g == onPath(h, current)
<1>1. /\ h = [undo |-> h.undo, redo |-> h.redo, after |-> h.after, last |-> h.last, path |-> h.path]
      /\ StackOK(h.undo, p, t, l) /\ StackOK(h.redo, p, t, l)
  BY DEF HistoryOK
<1>2. g = [h EXCEPT !.path = current]
  BY Zenon DEF onPath
<1> HIDE DEF g
<1>3. g = [undo |-> h.undo, redo |-> h.redo, after |-> h.after, last |-> h.last, path |-> current]
  BY <1>1, <1>2
<1> QED
  BY <1>1, <1>3, HistoryOf DEF g

LEMMA SettingsRecorded ==
  ASSUME NEW p, NEW t, NEW l, NEW h, HistoryOK(h, p, t, l), NEW now, NEW sameGesture
  PROVE  HistoryOK(recordPendingSettingsChange(h, now, sameGesture), p, t, l)
<1> DEFINE joins == /\ sameGesture /\ h.redo = <<>> /\ h.after = h.last
                    /\ h.undo # <<>> /\ Last(h.undo).kind = "settings"
           entry == [kind |-> "settings", value |-> h.last]
           undo == IF joins THEN h.undo ELSE push(h.undo, entry)
           r == recordPendingSettingsChange(h, now, sameGesture)
<1>1. StackOK(h.undo, p, t, l) /\ StackOK(<<>>, p, t, l)
  BY StackEmpty DEF HistoryOK
<1>2. EntryOK(entry, p, t, l)
  BY DEF EntryOK
<1> HIDE DEF entry
<1>3. StackOK(undo, p, t, l)
  BY <1>1, <1>2, StackPush
<1>4. r = IF now = h.last THEN h ELSE settled(stacked(h, undo, <<>>), now, now)
  BY Zenon DEF recordPendingSettingsChange, entry, stacked, settled
<1> HIDE DEF undo, r
<1>5. HistoryOK(stacked(h, undo, <<>>), p, t, l)
  BY <1>1, <1>3, RewrittenOK
<1>6. HistoryOK(settled(stacked(h, undo, <<>>), now, now), p, t, l)
  BY <1>5, RewrittenOK
<1>7. HistoryOK(r, p, t, l)
  BY <1>4, <1>6
<1> QED
  BY <1>7 DEF r

LEMMA MappingRecorded ==
  ASSUME NEW p, NEW t, NEW l, NEW h, HistoryOK(h, p, t, l),
         NEW before, EntryOK(before, p, t, l), NEW after
  PROVE  HistoryOK(recordMappingChange(h, before, after), p, t, l)
<1> DEFINE undo == push(h.undo, before)
           r == recordMappingChange(h, before, after)
<1>1. StackOK(h.undo, p, t, l) /\ StackOK(<<>>, p, t, l)
  BY StackEmpty DEF HistoryOK
<1>2. StackOK(undo, p, t, l)
  BY <1>1, StackPush
<1>3. r = IF before = after THEN h ELSE moved(stacked(h, undo, <<>>), Unset, path)
  BY Zenon DEF recordMappingChange, stacked, moved
<1> HIDE DEF undo, r
<1>4. HistoryOK(stacked(h, undo, <<>>), p, t, l)
  BY <1>1, <1>2, RewrittenOK
<1>5. HistoryOK(moved(stacked(h, undo, <<>>), Unset, path), p, t, l)
  BY <1>4, RewrittenOK
<1>6. HistoryOK(r, p, t, l)
  BY <1>3, <1>5
<1> QED
  BY <1>6 DEF r

LEMMA HistoryGrows ==
  ASSUME NEW p, Typed(p), NEW r, Typed(r), Extends(p, r), NEW t, NEW u, u => t, NEW l,
         NEW h, HistoryOK(h, p, t, l)
  PROVE  HistoryOK(h, r, u, l)
<1>1. StackOK(h.undo, p, t, l) /\ StackOK(h.redo, p, t, l)
  BY DEF HistoryOK
<1>2. StackOK(h.undo, r, u, l)
  BY <1>1, StackGrows
<1>3. StackOK(h.redo, r, u, l)
  BY <1>1, StackGrows
<1> QED
  BY <1>2, <1>3 DEF HistoryOK

LEMMA HistoryOfAnother ==
  ASSUME NEW p, NEW r, NEW t, NEW u, NEW l \in Nat, NEW h, HistoryOK(h, p, t, l)
  PROVE  HistoryOK(h, r, u, l + 1)
BY StackOfAnother DEF HistoryOK

\* The last entry of a stack may be taken, and another put on the other stack.
taken(h, from, to, present) ==
  [h EXCEPT ![from] = Front(@), ![to] = Append(@, present), !.after = Unset]

LEMMA StackStep ==
  ASSUME NEW p, NEW t, NEW l, NEW h, HistoryOK(h, p, t, l),
         NEW from \in {"undo", "redo"}, NEW to \in {"undo", "redo"}, from # to, h[from] # <<>>,
         NEW present, EntryOK(present, p, t, l)
  PROVE  EntryOK(Last(h[from]), p, t, l) /\ HistoryOK(taken(h, from, to, present), p, t, l)
<1>1. /\ h = [undo |-> h.undo, redo |-> h.redo, after |-> h.after, last |-> h.last, path |-> h.path]
      /\ StackOK(h.undo, p, t, l) /\ StackOK(h.redo, p, t, l)
  BY DEF HistoryOK
<1>2. StackOK(h[from], p, t, l) /\ StackOK(h[to], p, t, l)
  BY <1>1
<1>3. StackOK(Front(h[from]), p, t, l) /\ EntryOK(Last(h[from]), p, t, l)
  BY <1>2, StackFront
<1>4. StackOK(Append(h[to], present), p, t, l)
  BY <1>2, StackAppend
<1> DEFINE front == Front(h[from])
           longer == Append(h[to], present)
           undo == IF from = "undo" THEN front ELSE longer
           redo == IF from = "undo" THEN longer ELSE front
           stepped == taken(h, from, to, present)
<1>5. StackOK(undo, p, t, l) /\ StackOK(redo, p, t, l)
  BY <1>3, <1>4
<1>6. stepped = [h EXCEPT ![from] = Front(h[from]), ![to] = Append(h[to], present), !.after = Unset]
  BY DEF taken
<1> HIDE DEF stepped
<1>7. stepped = [undo |-> undo, redo |-> redo, after |-> Unset, last |-> h.last, path |-> h.path]
  <2>1. CASE from = "undo"
    <3>1. to = "redo" /\ undo = Front(h.undo) /\ redo = Append(h.redo, present)
      BY <2>1
    <3> HIDE DEF undo, redo
    <3>2. stepped = [h EXCEPT !.undo = undo, !.redo = redo, !.after = Unset]
      BY <1>1, <1>6, <2>1, <3>1
    <3> QED BY <1>1, <3>2
  <2>2. CASE from = "redo"
    <3>1. to = "undo" /\ redo = Front(h.redo) /\ undo = Append(h.undo, present)
      BY <2>2
    <3> HIDE DEF undo, redo
    <3>2. stepped = [h EXCEPT !.redo = redo, !.undo = undo, !.after = Unset]
      BY <1>1, <1>6, <2>2, <3>1
    <3> QED BY <1>1, <3>2
  <2> QED BY <2>1, <2>2
<1> HIDE DEF undo, redo
<1>8. HistoryOK([undo |-> undo, redo |-> redo, after |-> Unset, last |-> h.last, path |-> h.path], p, t, l)
  BY <1>5, HistoryOf
<1>9. HistoryOK(stepped, p, t, l)
  BY <1>7, <1>8
<1> QED
  BY <1>3, <1>9 DEF stepped

-----------------------------------------------------------------------------
(* Rows, sliders and the edits made of them.                               *)

LEMMA ProgramIs ==
  ASSUME NEW p
  PROVE  IsProgram(p) <=> Typed(p) /\ Len(p.zones) <= MaxZones
BY DEF IsProgram, Typed, Ranges

LEMMA RowsOf ==
  ASSUME NEW p, Typed(p)
  PROVE  /\ buildProgramZoneListRows(p) \in Seq(Rows)
         /\ DOMAIN buildProgramZoneListRows(p) = DOMAIN p.zones
<1> DEFINE R == buildProgramZoneListRows(p)
<1>1. /\ Len(p.zones) \in Nat /\ DOMAIN p.zones = 1 .. Len(p.zones)
      /\ \A i \in DOMAIN p.zones : p.zones[i] \in Zones /\ p.zones[i].asset \in DOMAIN p.assets
  BY ProgramParts
<1>2. ASSUME NEW z \in Zones, z.asset \in DOMAIN p.assets PROVE row(p, z) \in Rows
  <2> DEFINE L == Length[p.assets[z.asset]]
             first == limit(0, L - 1, z.start)
             last == resolveSampleEndInclusive(z, L)
             loops == resolveLoopRange(z, first, last)
  <2>1. /\ row(p, z) = [asset |-> z.asset, lo |-> z.lo, hi |-> z.hi, root |-> z.root, gain |-> z.gain,
                        start |-> first, end |-> last, ls |-> loops.ls, le |-> loops.le]
        /\ L \in Nat \ {0} /\ first \in 0 .. L - 1 /\ last \in 0 .. L - 1
        /\ loops.ls \in Int /\ loops.le \in Int
    BY <1>2, RowParts
  <2>2. z.asset \in Nat /\ z.lo \in Int /\ z.hi \in Int /\ z.root \in Int /\ z.gain \in Int
    <3>1. MaxKey \in Nat
      BY MappingAssumption
    <3> QED BY <3>1, ZoneParts
  <2> HIDE DEF L, first, last, loops
  <2> QED BY <2>1, <2>2 DEF Rows
<1>3. R = [i \in 1 .. Len(p.zones) |-> R[i]] /\ \A i \in 1 .. Len(p.zones) : R[i] \in Rows
  <2>1. R = [i \in 1 .. Len(p.zones) |-> row(p, p.zones[i])]
    BY <1>1 DEF buildProgramZoneListRows
  <2> HIDE DEF R
  <2> QED BY <1>1, <1>2, <2>1
<1> HIDE DEF R
<1>4. R \in Seq(Rows) /\ DOMAIN R = 1 .. Len(p.zones)
  BY <1>1, <1>3, IsSequence
<1> QED
  BY <1>1, <1>4 DEF R

LEMMA RowAt ==
  ASSUME NEW R \in Seq(Rows), NEW i \in DOMAIN R
  PROVE  /\ i \in Nat \ {0} /\ R[i] \in Rows
         /\ R[i].asset \in Nat /\ R[i].lo \in Int /\ R[i].hi \in Int /\ R[i].root \in Int /\ R[i].gain \in Int
         /\ R[i].start \in Nat /\ R[i].end \in Nat /\ R[i].ls \in Int /\ R[i].le \in Int
<1>1. Len(R) \in Nat /\ DOMAIN R = 1 .. Len(R) /\ R[i] \in Rows
  BY SequenceParts
<1> DEFINE r == R[i]
<1>2. r \in Rows
  BY <1>1
<1> HIDE DEF r
<1>3. /\ r.asset \in Nat /\ r.lo \in Int /\ r.hi \in Int /\ r.root \in Int /\ r.gain \in Int
      /\ r.start \in Nat /\ r.end \in Nat /\ r.ls \in Int /\ r.le \in Int
  BY <1>2 DEF Rows
<1> QED
  BY <1>1, <1>3 DEF r

sliders(R, i) ==
  [rowEdit(R, i) EXCEPT !.start = R[i].start, !.end = R[i].end, !.gain = R[i].gain,
     !.ls = IF R[i].ls >= 0 THEN R[i].ls ELSE R[i].start,
     !.le = IF R[i].le >= 0 THEN R[i].le ELSE R[i].end]

LEMMA SlidersOf ==
  ASSUME NEW R \in Seq(Rows), NEW i \in DOMAIN R
  PROVE  sliders(R, i) \in Sliders
<1> DEFINE r == R[i]
           ls == IF r.ls >= 0 THEN r.ls ELSE r.start
           le == IF r.le >= 0 THEN r.le ELSE r.end
           e == rowEdit(R, i)
           e1 == [e EXCEPT !.start = r.start, !.end = r.end]
           e2 == [e1 EXCEPT !.gain = r.gain, !.ls = ls]
           e3 == [e2 EXCEPT !.le = le]
<1>1. /\ i \in Nat /\ r.lo \in Int /\ r.hi \in Int /\ r.root \in Int /\ r.gain \in Int
      /\ r.start \in Nat /\ r.end \in Nat /\ r.ls \in Int /\ r.le \in Int
  BY RowAt
<1>2. ls \in Nat /\ le \in Nat
  BY <1>1
<1>3. e = [zone |-> i, asset |-> 0, lo |-> r.lo, hi |-> r.hi, root |-> r.root,
           start |-> Unset, end |-> Unset, ls |-> Unset, le |-> Unset, gain |-> Unset]
  BY Zenon DEF rowEdit
<1>4. sliders(R, i) = e3
  BY Zenon DEF sliders
<1>5. e1 = [e EXCEPT !.start = r.start, !.end = r.end]
  BY Zenon
<1>6. e2 = [e1 EXCEPT !.gain = r.gain, !.ls = ls]
  BY Zenon
<1>7. e3 = [e2 EXCEPT !.le = le]
  BY Zenon
<1> HIDE DEF e, e1, e2, e3, ls, le, r
<1>8. e1 = [zone |-> i, asset |-> 0, lo |-> r.lo, hi |-> r.hi, root |-> r.root,
            start |-> r.start, end |-> r.end, ls |-> Unset, le |-> Unset, gain |-> Unset]
  BY <1>3, <1>5
<1>9. e2 = [zone |-> i, asset |-> 0, lo |-> r.lo, hi |-> r.hi, root |-> r.root,
            start |-> r.start, end |-> r.end, ls |-> ls, le |-> Unset, gain |-> r.gain]
  BY <1>6, <1>8
<1>10. e3 = [zone |-> i, asset |-> 0, lo |-> r.lo, hi |-> r.hi, root |-> r.root,
             start |-> r.start, end |-> r.end, ls |-> ls, le |-> le, gain |-> r.gain]
  BY <1>7, <1>9
<1>11. e3 \in Sliders
  BY <1>1, <1>2, <1>10 DEF Sliders
<1> QED
  BY <1>4, <1>11

LEMMA OneIsIn ==
  ASSUME NEW S, Cardinality(S) = 1
  PROVE  (CHOOSE k \in S : TRUE) \in S
<1>1. S # {}
  BY FS_EmptySet
<1> QED
  BY <1>1

\* When one row is selected, the sliders show it.
LEMMA Shown ==
  ASSUME NEW R \in Seq(Rows), NEW S \in SUBSET (DOMAIN R)
  PROVE  Shows(R, S, shown(R, S))
<1>1. ASSUME Cardinality(S) = 1 PROVE shown(R, S) \in Sliders
  <2> DEFINE i == CHOOSE k \in S : TRUE
  <2>1. i \in DOMAIN R
    BY <1>1, OneIsIn
  <2>2. shown(R, S) = sliders(R, i)
    BY <1>1, Zenon DEF shown, sliders
  <2> HIDE DEF i
  <2> QED BY <2>1, <2>2, SlidersOf
<1> QED
  BY <1>1 DEF Shows

LEMMA Showing ==
  ASSUME NEW p, Typed(p), NEW S, Show(p, S)
  PROVE  ViewOK'
<1> DEFINE T == IF S \cap DOMAIN p.zones = {} /\ p.zones # <<>> THEN {1} ELSE S \cap DOMAIN p.zones
<1>1. rows' = buildProgramZoneListRows(p) /\ selection' = T /\ control' = shown(rows', selection')
  BY DEF Show
<1>2. rows' \in Seq(Rows) /\ DOMAIN rows' = DOMAIN p.zones
  BY <1>1, RowsOf
<1>3. T \subseteq DOMAIN p.zones
  <2>1. p.zones # <<>> => 1 \in DOMAIN p.zones
    <3>1. p.zones \in Seq(Zones) /\ Len(p.zones) \in Nat /\ DOMAIN p.zones = 1 .. Len(p.zones)
      BY ProgramParts
    <3>2. p.zones # <<>> => Len(p.zones) # 0
      BY <3>1, EmptySeq
    <3> QED BY <3>1, <3>2
  <2> QED BY <2>1
<1>4. selection' \in SUBSET (DOMAIN rows')
  BY <1>1, <1>2, <1>3
<1>5. Shows(rows', selection', shown(rows', selection'))
  BY <1>2, <1>4, Shown
<1> QED
  BY <1>1, <1>5 DEF ViewOK

LEMMA Adjusted ==
  ASSUME NEW c \in Sliders, NEW field, NEW value,
         \/ field \in {"lo", "hi", "root", "start", "end"} /\ value \in Int
         \/ field \in {"ls", "le"} /\ value \in Nat
  PROVE  [c EXCEPT ![field] = value] \in Sliders
BY DEF Sliders

LEMMA SlidersAreEdits ==
  ASSUME NEW c \in Sliders
  PROVE  c \in Edits
BY DEF Sliders, Edits, Unset

LEMMA RowEditParts ==
  ASSUME NEW R \in Seq(Rows), NEW i \in DOMAIN R, NEW e, e = rowEdit(R, i)
  PROVE  /\ e = [zone |-> i, asset |-> 0, lo |-> R[i].lo, hi |-> R[i].hi, root |-> R[i].root,
                 start |-> Unset, end |-> Unset, ls |-> Unset, le |-> Unset, gain |-> Unset]
         /\ e \in Edits
<1>1. R[i].lo \in Int /\ R[i].hi \in Int /\ R[i].root \in Int /\ i \in Nat /\ Unset \in Int
  BY RowAt DEF Unset
<1>2. e = [zone |-> i, asset |-> 0, lo |-> R[i].lo, hi |-> R[i].hi, root |-> R[i].root,
           start |-> Unset, end |-> Unset, ls |-> Unset, le |-> Unset, gain |-> Unset]
  BY Zenon DEF rowEdit
<1>3. e \in Edits
  BY <1>1, <1>2 DEF Edits
<1> QED
  BY <1>2, <1>3

LEMMA EditVaries ==
  ASSUME NEW c \in Edits, NEW field \in {"lo", "hi", "root", "gain"}, NEW value \in Int
  PROVE  [c EXCEPT ![field] = value] \in Edits
BY DEF Edits

LEMMA AssetVaries ==
  ASSUME NEW c \in Edits, NEW value \in Nat
  PROVE  [c EXCEPT !.asset = value] \in Edits
BY DEF Edits

\* A drag in the overview makes an edit of the row it drags.
LEMMA OverviewEdit ==
  ASSUME NEW R \in Seq(Rows), NEW i \in DOMAIN R, NEW mode \in {"move", "keyLow", "keyHigh"}, NEW by \in Int
  PROVE  makeProgramZoneOverviewEdit(R, i, mode, by) \in Edits
<1> DEFINE r == R[i]
           e == rowEdit(R, i)
           lo == Min({key(r.lo + by), MaxKey - (r.hi - r.lo)})
           a == Min({key(by), r.hi})
           b == Max({r.lo, key(by)})
           y == [e EXCEPT !.lo = lo]
<1>1. r.lo \in Int /\ r.hi \in Int /\ r.root \in Int
  BY RowAt
<1>2. e \in Edits
  BY RowEditParts
<1>3. makeProgramZoneOverviewEdit(R, i, mode, by) =
        CASE mode = "move" -> [e EXCEPT !.lo = lo, !.hi = lo + r.hi - r.lo]
          [] mode = "keyLow" -> [e EXCEPT !.lo = a]
          [] mode = "keyHigh" -> [e EXCEPT !.hi = b]
  BY Zenon DEF makeProgramZoneOverviewEdit
<1> HIDE DEF e, r
<1>4. MaxKey \in Nat /\ key(by) \in Int /\ key(r.lo + by) \in Int
  <2>1. MaxKey \in Nat
    BY MappingAssumption
  <2> QED BY <1>1, <2>1 DEF key, limit
<1>5. lo \in Int /\ a \in Int /\ b \in Int
  <2>1. lo \in Int
    <3>1. key(r.lo + by) \in Int
      BY <1>4
    <3>2. MaxKey - (r.hi - r.lo) \in Int
      BY <1>1, <1>4
    <3>3. Min({key(r.lo + by), MaxKey - (r.hi - r.lo)}) =
            IF key(r.lo + by) <= MaxKey - (r.hi - r.lo) THEN key(r.lo + by) ELSE MaxKey - (r.hi - r.lo)
      BY <3>1, <3>2, LeastOfTwo
    <3> QED BY <3>1, <3>2, <3>3
  <2>2. a \in Int
    <3>1. key(by) \in Int
      BY <1>4
    <3>2. r.hi \in Int
      BY <1>1
    <3>3. Min({key(by), r.hi}) = IF key(by) <= r.hi THEN key(by) ELSE r.hi
      BY <3>1, <3>2, LeastOfTwo
    <3> QED BY <3>1, <3>2, <3>3
  <2>3. b \in Int
    <3>1. key(by) \in Int
      BY <1>4
    <3>2. r.lo \in Int
      BY <1>1
    <3>3. Max({r.lo, key(by)}) = IF r.lo >= key(by) THEN r.lo ELSE key(by)
      BY <3>1, <3>2, GreatestOfTwo
    <3> QED BY <3>1, <3>2, <3>3
  <2> QED BY <2>1, <2>2, <2>3
<1> HIDE DEF lo, a, b
<1>6. y \in Edits
  BY <1>2, <1>5, EditVaries
<1> HIDE DEF y
<1>7. lo + r.hi - r.lo \in Int
  BY <1>1, <1>5
<1>8. [y EXCEPT !.hi = lo + r.hi - r.lo] \in Edits
  BY <1>6, <1>7, EditVaries
<1>9. [e EXCEPT !.lo = lo, !.hi = lo + r.hi - r.lo] \in Edits
  BY <1>8, Zenon DEF y
<1>10. [e EXCEPT !.lo = a] \in Edits
  BY <1>2, <1>5, EditVaries
<1>11. [e EXCEPT !.hi = b] \in Edits
  BY <1>2, <1>5, EditVaries
<1>12. /\ mode = "move" => makeProgramZoneOverviewEdit(R, i, mode, by) = [e EXCEPT !.lo = lo, !.hi = lo + r.hi - r.lo]
       /\ mode = "keyLow" => makeProgramZoneOverviewEdit(R, i, mode, by) = [e EXCEPT !.lo = a]
       /\ mode = "keyHigh" => makeProgramZoneOverviewEdit(R, i, mode, by) = [e EXCEPT !.hi = b]
  BY <1>3
<1> QED
  BY <1>9, <1>10, <1>11, <1>12

\* The edit of a new zone dropped on a key.
LEMMA DropEdit ==
  ASSUME NEW R \in Seq(Rows), NEW i \in DOMAIN R, NEW note \in Int
  PROVE  [rowEdit(R, i) EXCEPT !.lo = note, !.hi = note, !.root = note] \in Edits
<1> DEFINE e == rowEdit(R, i)
           e1 == [e EXCEPT !.lo = note]
           e2 == [e1 EXCEPT !.hi = note]
           e3 == [e2 EXCEPT !.root = note]
<1>1. [rowEdit(R, i) EXCEPT !.lo = note, !.hi = note, !.root = note] = e3
  BY Zenon
<1>2. e \in Edits
  BY RowEditParts
<1> HIDE DEF e
<1>3. e1 \in Edits
  BY <1>2, EditVaries
<1> HIDE DEF e1
<1>4. e2 \in Edits
  BY <1>3, EditVaries
<1> HIDE DEF e2
<1>5. e3 \in Edits
  BY <1>4, EditVaries
<1> QED
  BY <1>1, <1>5, Zenon

-----------------------------------------------------------------------------
(* Steps of the session.                                                   *)

LEMMA EvolvesAsIs ==
  ASSUME NEW p, Typed(p)
  PROVE  Evolves(p, p)
BY DEF Evolves, Extends, GroupsFollow

LEMMA StoreParts ==
  ASSUME StoreOK
  PROVE  /\ Typed(program) /\ Len(program.zones) <= MaxZones
         /\ library \in Nat /\ (trusted => Fits(program))
         /\ (path = None => program = Empty)
BY ProgramIs DEF StoreOK

\* A program that evolves from the one in the store may take its place.
LEMMA StoreEvolves ==
  ASSUME StoreOK, Evolves(program, program'), Len(program'.zones) <= MaxZones,
         path' # None, slices' \in BOOLEAN, UNCHANGED <<library, origin, trusted>>
  PROVE  StoreOK'
<1>1. /\ Typed(program') /\ DOMAIN program'.groups = DOMAIN program.groups
      /\ Fits(program) => Fits(program')
      /\ \A g \in DOMAIN program'.groups :
           Tight(program', g)
           \/ (program'.groups[g] = program.groups[g] /\ ranges(program', g) = ranges(program, g))
  BY Zenon DEF Evolves, Extends, GroupsFollow
<1>2. IsProgram(program')
  BY <1>1, ProgramIs
<1>3. GroupCoversZones'
  <2> SUFFICES ASSUME NEW g \in DOMAIN program'.groups
               PROVE  \/ Tight(program', g)
                      \/ program'.groups[g] = origin.groups[g] /\ ranges(program', g) = ranges(origin, g)
    BY DEF GroupCoversZones
  <2>1. CASE Tight(program', g)
    BY <2>1
  <2>2. CASE program'.groups[g] = program.groups[g] /\ ranges(program', g) = ranges(program, g)
    <3>1. \/ Tight(program, g)
          \/ program.groups[g] = origin.groups[g] /\ ranges(program, g) = ranges(origin, g)
      BY <1>1 DEF StoreOK, GroupCoversZones
    <3>2. Tight(program, g) => Tight(program', g)
      BY <2>2, TightByRanges
    <3> QED BY <2>2, <3>1, <3>2
  <2> QED BY <1>1, <2>1, <2>2
<1>4. DOMAIN program'.groups = DOMAIN origin.groups
  BY <1>1 DEF StoreOK
<1>5. trusted => Fits(program')
  BY <1>1 DEF StoreOK
<1> QED
  BY <1>2, <1>3, <1>4, <1>5 DEF StoreOK

LEMMA StoreSame ==
  ASSUME StoreOK, UNCHANGED store
  PROVE  StoreOK'
BY DEF StoreOK, store, GroupCoversZones

LEMMA ViewSame ==
  ASSUME ViewOK, UNCHANGED view
  PROVE  ViewOK'
BY DEF ViewOK, view

LEMMA ViewReset ==
  ASSUME ViewOK, control' = shown(rows, selection), UNCHANGED <<rows, selection>>
  PROVE  ViewOK'
<1>1. rows \in Seq(Rows) /\ selection \in SUBSET (DOMAIN rows)
  BY DEF ViewOK, Shows
<1>2. Shows(rows, selection, shown(rows, selection))
  BY <1>1, Shown
<1> QED
  BY <1>2 DEF ViewOK

pathed(entry, current) == [entry EXCEPT !.path = current]

\* The snapshot of a program is a good entry of it.
LEMMA Snapshot ==
  ASSUME NEW p, Typed(p), Len(p.zones) <= MaxZones, NEW t, t => Fits(p), library \in Nat, NEW current
  PROVE  EntryOK(snapshot(p), p, t, library) /\ EntryOK(pathed(snapshot(p), current), p, t, library)
<1> DEFINE a == snapshot(p)
           b == pathed(a, current)
           state == createProgramZoneMappingState(p)
           heardOf == sound(p)
<1>1. a = [kind |-> "mapping", path |-> path, state |-> state, library |-> library, sound |-> heardOf]
  BY Zenon DEF snapshot
<1>2. b = [a EXCEPT !.path = current]
  BY Zenon DEF pathed
<1> HIDE DEF a, b, state, heardOf
<1>3. a.kind = "mapping" /\ a.library = library /\ a.state = state /\ a.sound = heardOf
  BY <1>1
<1>4. b.kind = "mapping" /\ b.library = library /\ b.state = state /\ b.sound = heardOf
  BY <1>1, <1>2
<1>5. EntryOK(a, p, t, library)
  BY <1>3, SnapshotOK DEF state, heardOf
<1>6. EntryOK(b, p, t, library)
  BY <1>4, SnapshotOK DEF state, heardOf
<1> QED
  BY <1>5, <1>6 DEF a, b

\* An edit that goes from the program to another that evolves from it is
\* recorded with a snapshot of the program, or of one in between.
LEMMA EditRecorded ==
  ASSUME NEW p, Typed(p), NEW q, Evolves(p, q), Len(q.zones) <= MaxZones, NEW r, Evolves(q, r),
         NEW t, t => Fits(p), library \in Nat, NEW h, HistoryOK(h, p, t, library), NEW after, NEW current
  PROVE  /\ HistoryOK(recordMappingChange(h, snapshot(q), after), r, t, library)
         /\ HistoryOK(onPath(recordMappingChange(h, pathed(snapshot(q), current), after), current), r, t, library)
<1>1. Typed(q) /\ Extends(p, q) /\ (t => Fits(q)) /\ Typed(r) /\ Extends(q, r)
  BY Zenon DEF Evolves
<1>2. HistoryOK(h, q, t, library)
  BY <1>1, HistoryGrows
<1>3. EntryOK(snapshot(q), q, t, library) /\ EntryOK(pathed(snapshot(q), current), q, t, library)
  BY <1>1, Snapshot
<1> DEFINE g1 == recordMappingChange(h, snapshot(q), after)
           g2 == recordMappingChange(h, pathed(snapshot(q), current), after)
<1>4. HistoryOK(g1, q, t, library)
  BY <1>2, <1>3, MappingRecorded
<1>5. HistoryOK(g2, q, t, library)
  BY <1>2, <1>3, MappingRecorded
<1> HIDE DEF g1, g2
<1>6. HistoryOK(onPath(g2, current), q, t, library)
  BY <1>5, OnPathOK
<1>7. HistoryOK(g1, r, t, library)
  BY <1>1, <1>4, HistoryGrows
<1>8. HistoryOK(onPath(g2, current), r, t, library)
  BY <1>1, <1>6, HistoryGrows
<1> QED
  BY <1>7, <1>8 DEF g1, g2

\* What every edit of the editor ends in.
LEMMA EditedKeeps ==
  ASSUME SessionInv, NEW results, Edited(results), \A r \in results : Evolves(program, r.program)
  PROVE  SessionInv'
<1> DEFINE accepted == {r \in results : program.assets # <<>> /\ Len(r.program.zones) <= MaxZones}
<1>1. /\ StoreOK /\ ViewOK /\ HistoryOK(history, program, trusted, library)
      /\ Typed(program) /\ Len(program.zones) <= MaxZones /\ library \in Nat /\ (trusted => Fits(program))
      /\ (path = None => program = Empty)
  BY StoreParts DEF SessionInv
<1>2. /\ UNCHANGED <<path, slices, library, origin, trusted>>
      /\ \/ /\ accepted = {}
            /\ control' = shown(rows, selection)
            /\ UNCHANGED <<program, rows, selection, history>>
         \/ \E r \in accepted :
              /\ program' = r.program
              /\ history' = recordMappingChange(history, snapshot(program), snapshot(r.program))
              /\ Show(r.program, r.selected)
  BY DEF Edited
<1>3. CASE /\ accepted = {}
           /\ control' = shown(rows, selection)
           /\ UNCHANGED <<program, rows, selection, history>>
  <2>1. StoreOK'
    BY <1>1, <1>2, <1>3, StoreSame DEF store
  <2>2. ViewOK'
    BY <1>1, <1>3, ViewReset
  <2> QED BY <1>1, <1>2, <1>3, <2>1, <2>2 DEF SessionInv
<1>4. CASE \E r \in accepted :
              /\ program' = r.program
              /\ history' = recordMappingChange(history, snapshot(program), snapshot(r.program))
              /\ Show(r.program, r.selected)
  <2>1. PICK r \in accepted :
              /\ program' = r.program
              /\ history' = recordMappingChange(history, snapshot(program), snapshot(r.program))
              /\ Show(r.program, r.selected)
    BY <1>4
  <2>2. Evolves(program, r.program) /\ program.assets # <<>> /\ Len(r.program.zones) <= MaxZones
    OBVIOUS
  <2>3. Typed(r.program)
    BY <2>2 DEF Evolves
  <2>4. path # None
    BY <1>1, <2>2 DEF Empty
  <2>5. StoreOK'
    <3>1. slices' \in BOOLEAN
      BY <1>1, <1>2 DEF StoreOK
    <3> QED BY <1>1, <1>2, <2>1, <2>2, <2>4, <3>1, StoreEvolves
  <2>6. ViewOK'
    BY <2>1, <2>3, Showing
  <2>7. HistoryOK(history', program', trusted, library)
    <3>1. Evolves(program, program)
      BY <1>1, EvolvesAsIs
    <3> QED BY <1>1, <2>1, <2>2, <3>1, EditRecorded
  <2> QED BY <1>2, <2>5, <2>6, <2>7 DEF SessionInv
<1> QED
  BY <1>2, <1>3, <1>4

LEMMA CommitKeeps ==
  ASSUME SessionInv, NEW programs, NEW S, Commit(programs, S), \A r \in programs : Evolves(program, r)
  PROVE  SessionInv'
<1> DEFINE results == {result(p, S) : p \in programs}
<1>1. Edited(results)
  BY Zenon DEF Commit
<1>2. \A r \in results : Evolves(program, r.program)
  BY DEF result
<1> HIDE DEF results
<1> QED
  BY <1>1, <1>2, EditedKeeps

LEMMA InvParts ==
  ASSUME SessionInv
  PROVE  /\ StoreOK /\ ViewOK /\ HistoryOK(history, program, trusted, library)
         /\ Typed(program) /\ Len(program.zones) <= MaxZones /\ library \in Nat /\ (trusted => Fits(program))
         /\ (path = None => program = Empty)
         /\ rows \in Seq(Rows) /\ selection \in SUBSET (DOMAIN rows)
         /\ Cardinality(selection) = 1 => control \in Sliders
BY StoreParts DEF SessionInv, ViewOK, Shows

\* What leaves the program, its rows and the history alone keeps the invariant.
LEMMA NothingDone ==
  ASSUME SessionInv, UNCHANGED <<store, view, history>>
  PROVE  SessionInv'
<1>1. StoreOK /\ ViewOK /\ HistoryOK(history, program, trusted, library)
  BY DEF SessionInv
<1>2. StoreOK' /\ ViewOK'
  BY <1>1, StoreSame, ViewSame
<1>3. history' = history /\ program' = program /\ trusted' = trusted /\ library' = library
  BY DEF store
<1> QED
  BY <1>1, <1>2, <1>3 DEF SessionInv

LEMMA SelectKeeps ==
  ASSUME SessionInv, NEW S \in SUBSET DOMAIN rows, Select(S)
  PROVE  SessionInv'
<1>1. UNCHANGED store /\ UNCHANGED <<rows, history>> /\ selection' = S /\ control' = shown(rows, S)
  BY DEF Select
<1>2. StoreOK'
  BY <1>1, InvParts, StoreSame
<1>3. Shows(rows, S, shown(rows, S))
  BY InvParts, Shown
<1>4. ViewOK'
  BY <1>1, <1>3 DEF ViewOK
<1>5. HistoryOK(history', program', trusted', library')
  BY <1>1, InvParts DEF store
<1> QED
  BY <1>2, <1>4, <1>5 DEF SessionInv

LEMMA AdjustKeeps ==
  ASSUME SessionInv, NEW field, NEW value, Adjust(field, value),
         \/ field \in {"lo", "hi", "root", "start", "end"} /\ value \in Int
         \/ field \in {"ls", "le"} /\ value \in Nat
  PROVE  SessionInv'
<1>1. /\ UNCHANGED store /\ UNCHANGED <<rows, selection, history>>
      /\ Cardinality(selection) = 1 /\ control' = [control EXCEPT ![field] = value]
  BY DEF Adjust, one
<1>2. StoreOK'
  BY <1>1, InvParts, StoreSame
<1>3. control \in Sliders
  BY <1>1, InvParts
<1>4. [control EXCEPT ![field] = value] \in Sliders
  BY <1>3, Adjusted
<1>5. ViewOK'
  BY <1>1, <1>4, InvParts DEF ViewOK, Shows
<1>6. HistoryOK(history', program', trusted', library')
  BY <1>1, InvParts DEF store
<1> QED
  BY <1>2, <1>5, <1>6 DEF SessionInv

LEMMA OneEditEvolves ==
  ASSUME NEW p, Typed(p), NEW e \in Edits
  PROVE  \A r \in applyProgramZoneEdit(p, e) :
           Evolves(p, r) /\ Len(r.zones) = Len(p.zones) /\ r.assets = p.assets
<1>1. {e} \in SUBSET Edits
  OBVIOUS
<1> QED
  BY <1>1, EditsEvolve DEF applyProgramZoneEdit

LEMMA ApplyKeeps ==
  ASSUME SessionInv, one, applySelectedMappingZoneEdit
  PROVE  SessionInv'
<1> DEFINE results == {result(p, {control.zone}) : p \in applyProgramZoneEdit(program, control)}
<1>1. Edited(results)
  BY Zenon DEF applySelectedMappingZoneEdit
<1>2. control \in Edits /\ Typed(program)
  BY InvParts, SlidersAreEdits DEF one
<1>3. \A p \in applyProgramZoneEdit(program, control) : Evolves(program, p)
  BY <1>2, OneEditEvolves
<1>4. \A r \in results : Evolves(program, r.program)
  BY <1>3 DEF result
<1> HIDE DEF results
<1> QED
  BY <1>1, <1>4, EditedKeeps

LEMMA ApplyBatchKeeps ==
  ASSUME SessionInv, NEW gain \in Int, ApplyBatch(gain)
  PROVE  SessionInv'
<1> DEFINE E == {[rowEdit(rows, i) EXCEPT !.gain = gain] : i \in selection}
           programs == applyProgramZoneEditsAtomic(program, E)
<1>1. Commit(programs, selection)
  BY Zenon DEF ApplyBatch
<1>2. \A i \in selection : rowEdit(rows, i) \in Edits
  BY InvParts, RowEditParts
<1>3. E \in SUBSET Edits
  BY <1>2, EditVaries
<1> HIDE DEF E
<1>4. \A r \in programs : Evolves(program, r)
  BY <1>3, InvParts, EditsEvolve
<1> HIDE DEF programs
<1> QED
  BY <1>1, <1>4, CommitKeeps

LEMMA DragKeeps ==
  ASSUME SessionInv, NEW i \in DOMAIN rows, NEW mode \in {"move", "keyLow", "keyHigh"}, NEW by \in Int,
         DragInOverview(i, mode, by)
  PROVE  SessionInv'
<1> DEFINE e == makeProgramZoneOverviewEdit(rows, i, mode, by)
           programs == applyProgramZoneEdit(program, e)
<1>1. Commit(programs, {i})
  BY Zenon DEF DragInOverview
<1>2. e \in Edits
  BY InvParts, OverviewEdit
<1> HIDE DEF e
<1>3. \A r \in programs : Evolves(program, r)
  BY <1>2, InvParts, OneEditEvolves
<1> HIDE DEF programs
<1> QED
  BY <1>1, <1>3, CommitKeeps

LEMMA CreateKeeps ==
  ASSUME SessionInv, NEW asset \in DOMAIN program.assets \cup {0}, CreateZone(asset)
  PROVE  SessionInv'
<1> DEFINE seed == IF one THEN only ELSE 0
           programs == createProgramZoneForSampleAsset(program, asset, seed)
<1>1. Commit(programs, {Len(program.zones) + 1})
  BY Zenon DEF CreateZone
<1>2. asset \in Nat /\ Typed(program)
  <2>1. DOMAIN program.assets = 1 .. Len(program.assets) /\ Len(program.assets) \in Nat
    BY InvParts, ProgramParts
  <2> QED BY <2>1, InvParts
<1> HIDE DEF seed
<1>3. \A r \in programs : Evolves(program, r)
  BY <1>2, Created
<1> HIDE DEF programs
<1> QED
  BY <1>1, <1>3, CommitKeeps

LEMMA DuplicateKeeps ==
  ASSUME SessionInv, Duplicate
  PROVE  SessionInv'
<1>1. Commit(duplicateProgramZone(program, only), {Len(program.zones) + 1})
  BY DEF Duplicate
<1>2. \A r \in duplicateProgramZone(program, only) : Evolves(program, r)
  BY InvParts, Duplicated
<1> QED
  BY <1>1, <1>2, CommitKeeps

LEMMA SplitByKeyKeeps ==
  ASSUME SessionInv, SplitByKey
  PROVE  SessionInv'
<1>1. Commit(splitProgramZoneByKey(program, only), {Len(program.zones) + 1})
  BY DEF SplitByKey
<1>2. \A r \in splitProgramZoneByKey(program, only) : Evolves(program, r)
  BY InvParts, SplitByKeyEvolves
<1> QED
  BY <1>1, <1>2, CommitKeeps

LEMMA DeleteKeeps ==
  ASSUME SessionInv, Delete
  PROVE  SessionInv'
<1> DEFINE S == {limit(1, Len(rows) - Cardinality(selection), Min(selection))}
<1>1. Commit(deleteProgramZonesAtomic(program, selection), S)
  BY Zenon DEF Delete
<1>2. \A r \in deleteProgramZonesAtomic(program, selection) : Evolves(program, r)
  BY InvParts, Deleted
<1> HIDE DEF S
<1> QED
  BY <1>1, <1>2, CommitKeeps

LEMMA RemapsKeep ==
  ASSUME SessionInv, RemapChromatically \/ MapToRoots \/ DeriveRoots \/ Spread
  PROVE  SessionInv'
<1>1. ASSUME RemapChromatically PROVE SessionInv'
  <2> DEFINE rank == [i \in selection |-> i]
             base == MaxKey \div 3
             programs == OfZones(remap(program, selection, rank, base))
  <2>1. Commit(programs, selection)
    BY <1>1, Zenon DEF RemapChromatically, remapImportedProgramZonesChromatically
  <2>2. base \in Int
    BY MappingAssumption
  <2>3. \A i \in selection : rank[i] \in Nat
    BY InvParts, RowAt
  <2> HIDE DEF rank, base
  <2>4. \A r \in remap(program, selection, rank, base) : Evolves(program, r)
    <3>1. CASE selection \in SUBSET (DOMAIN program.zones)
      BY <2>2, <2>3, <3>1, InvParts, RemapEvolves
    <3>2. CASE selection \notin SUBSET (DOMAIN program.zones)
      BY <3>2 DEF remap, available
    <3> QED BY <3>1, <3>2
  <2>5. \A r \in programs : Evolves(program, r)
    BY <2>4 DEF OfZones
  <2> HIDE DEF programs
  <2> QED BY <2>1, <2>5, CommitKeeps
<1>2. ASSUME MapToRoots PROVE SessionInv'
  <2> DEFINE programs == OfZones(mapProgramZonesToRootNotes(program, selection))
  <2>1. Commit(programs, selection)
    BY <1>2, Zenon DEF MapToRoots, mapImportedProgramZonesToRootNotes
  <2>2. \A r \in programs : Evolves(program, r)
    BY InvParts, MapToRootsEvolves DEF OfZones
  <2> HIDE DEF programs
  <2> QED BY <2>1, <2>2, CommitKeeps
<1>3. ASSUME DeriveRoots PROVE SessionInv'
  <2> DEFINE programs == OfZones(deriveProgramZoneRootNotesFromKeyRanges(program, selection))
  <2>1. Commit(programs, selection)
    BY <1>3, Zenon DEF DeriveRoots, deriveImportedProgramZoneRootsFromKeyRanges
  <2>2. \A r \in programs : Evolves(program, r)
    BY InvParts, DeriveRootsEvolves DEF OfZones
  <2> HIDE DEF programs
  <2> QED BY <2>1, <2>2, CommitKeeps
<1>4. ASSUME Spread PROVE SessionInv'
  <2> DEFINE programs == OfZones(spreadProgramZonesAcrossKeyRange(program, selection))
  <2>1. Commit(programs, selection)
    BY <1>4, Zenon DEF Spread, spreadImportedProgramZonesAcrossKeyRange
  <2>2. \A r \in programs : Evolves(program, r)
    BY InvParts, SpreadEvolves DEF OfZones
  <2> HIDE DEF programs
  <2> QED BY <2>1, <2>2, CommitKeeps
<1> QED
  BY <1>1, <1>2, <1>3, <1>4

LEMMA SplitSliceKeeps ==
  ASSUME SessionInv, NEW sample \in Nat, SplitSlice(sample)
  PROVE  SessionInv'
<1> DEFINE results == {result(p, {i \in DOMAIN p.zones : p.zones[i].start = sample}) :
                         p \in splitProgramSliceAtSample(program, sample)}
<1>1. Edited(results)
  BY Zenon DEF SplitSlice
<1>2. \A p \in splitProgramSliceAtSample(program, sample) : Evolves(program, p)
  BY InvParts, SliceSplit DEF SlicedWell
<1>3. \A r \in results : Evolves(program, r.program)
  BY <1>2 DEF result
<1> HIDE DEF results
<1> QED
  BY <1>1, <1>3, EditedKeeps

LEMMA MergeSlicesKeeps ==
  ASSUME SessionInv, NEW boundary, MergeSlices(boundary)
  PROVE  SessionInv'
<1> DEFINE results == {result(p, {i \in DOMAIN p.zones :
                                    p.zones[i].start < boundary /\ boundary < p.zones[i].end}) :
                         p \in mergeProgramSlicesAtSampleBoundary(program, boundary)}
<1>1. Edited(results)
  BY Zenon DEF MergeSlices
<1>2. \A p \in mergeProgramSlicesAtSampleBoundary(program, boundary) : Evolves(program, p)
  BY InvParts, SliceMerged DEF SlicedWell
<1>3. \A r \in results : Evolves(program, r.program)
  BY <1>2 DEF result
<1> HIDE DEF results
<1> QED
  BY <1>1, <1>3, EditedKeeps

\* Samples and libraries.

LEMMA AddSampleKeeps ==
  ASSUME SessionInv, NEW s \in Samples, AddSample(s)
  PROVE  SessionInv'
<1> DEFINE p == ensure(program, s)
           created == createProgramZoneForSampleAsset(p, assetOf(p, s), 0)
<1>1. /\ path # None
      /\ IF Len(p.zones) = MaxZones
         THEN program' = p /\ UNCHANGED view
         ELSE program' \in created /\ Show(program', selection)
      /\ UNCHANGED <<path, slices, library, origin, trusted, history>>
  BY Zenon DEF AddSample
<1>2. /\ Evolves(program, p) /\ Typed(p) /\ p.zones = program.zones
      /\ assetOf(p, s) \in Nat
  BY InvParts, Ensured DEF Evolves
<1>3. \A r \in created : Evolves(p, r) /\ Len(r.zones) = Len(p.zones) + 1
  BY <1>2, Created
<1>4. Len(p.zones) \in Nat /\ Len(p.zones) <= MaxZones /\ MaxZones \in Nat
  BY <1>2, InvParts, ProgramParts, SessionAssumption
<1> HIDE DEF p, created
<1>5. Evolves(program, program') /\ Len(program'.zones) <= MaxZones /\ ViewOK'
  <2>1. CASE Len(p.zones) = MaxZones
    BY <1>1, <1>2, <1>4, <2>1, InvParts, ViewSame
  <2>2. CASE Len(p.zones) # MaxZones
    <3>1. Evolves(p, program') /\ Len(program'.zones) = Len(p.zones) + 1 /\ Show(program', selection)
      BY <1>1, <1>3, <2>2
    <3>2. Evolves(program, program')
      BY <1>2, <3>1, EvolvesFurther
    <3>3. Typed(program')
      BY <3>1 DEF Evolves
    <3>4. ViewOK'
      BY <3>1, <3>3, Showing
    <3> QED BY <1>4, <2>2, <3>1, <3>2, <3>4
  <2> QED BY <2>1, <2>2
<1>6. slices' \in BOOLEAN /\ path' # None
  BY <1>1, InvParts DEF StoreOK
<1>7. StoreOK'
  BY <1>1, <1>5, <1>6, InvParts, StoreEvolves
<1>8. HistoryOK(history, program', trusted, library)
  BY <1>5, InvParts, HistoryGrows DEF Evolves
<1> QED
  BY <1>1, <1>5, <1>7, <1>8 DEF SessionInv

LEMMA DropOnZoneKeeps ==
  ASSUME SessionInv, NEW s \in Samples, NEW i \in DOMAIN rows, DropOnZone(s, i)
  PROVE  SessionInv'
<1> DEFINE p == ensure(program, s)
           e == [rowEdit(rows, i) EXCEPT !.asset = assetOf(p, s)]
           results == applyProgramZoneEdit(p, e)
<1>1. /\ path # None
      /\ IF results = {}
         THEN program' = p /\ control' = shown(rows, selection) /\ UNCHANGED <<rows, selection, history>>
         ELSE /\ program' \in results
              /\ history' = recordMappingChange(history, snapshot(p), snapshot(program'))
              /\ Show(program', {i})
      /\ UNCHANGED <<path, slices, library, origin, trusted>>
  BY Zenon DEF DropOnZone
<1>2. /\ Evolves(program, p) /\ Typed(p) /\ p.zones = program.zones
      /\ assetOf(p, s) \in Nat
  BY InvParts, Ensured DEF Evolves
<1>3. e \in Edits
  <2>1. rowEdit(rows, i) \in Edits
    BY InvParts, RowEditParts
  <2> QED BY <1>2, <2>1, AssetVaries
<1> HIDE DEF p, e
<1>4. \A r \in results : Evolves(p, r) /\ Len(r.zones) = Len(p.zones)
  BY <1>2, <1>3, OneEditEvolves
<1> HIDE DEF results
<1>5. Len(p.zones) <= MaxZones
  BY <1>2, InvParts
<1>6. /\ Evolves(program, program') /\ Len(program'.zones) <= MaxZones /\ ViewOK'
      /\ HistoryOK(history', program', trusted, library)
  <2>1. CASE results = {}
    <3>1. program' = p /\ history' = history
      BY <1>1, <2>1
    <3>2. ViewOK'
      BY <1>1, <2>1, InvParts, ViewReset
    <3>3. HistoryOK(history, p, trusted, library)
      BY <1>2, InvParts, HistoryGrows DEF Evolves
    <3> QED BY <1>2, <1>5, <3>1, <3>2, <3>3
  <2>2. CASE results # {}
    <3>1. /\ Evolves(p, program') /\ Len(program'.zones) = Len(p.zones) /\ Show(program', {i})
          /\ history' = recordMappingChange(history, snapshot(p), snapshot(program'))
      BY <1>1, <1>4, <2>2
    <3>2. Evolves(program, program')
      BY <1>2, <3>1, EvolvesFurther
    <3>3. Typed(program')
      BY <3>1 DEF Evolves
    <3>4. ViewOK'
      BY <3>1, <3>3, Showing
    <3>5. HistoryOK(history', program', trusted, library)
      BY <1>2, <1>5, <3>1, InvParts, EditRecorded
    <3> QED BY <1>5, <3>1, <3>2, <3>4, <3>5
  <2> QED BY <2>1, <2>2
<1>7. slices' \in BOOLEAN /\ path' # None
  BY <1>1, InvParts DEF StoreOK
<1>8. StoreOK'
  BY <1>1, <1>6, <1>7, InvParts, StoreEvolves
<1> QED
  BY <1>1, <1>6, <1>8 DEF SessionInv

LEMMA DropOnKeyKeeps ==
  ASSUME SessionInv, NEW s \in Samples, NEW note \in Int, DropOnKey(s, note)
  PROVE  SessionInv'
<1> DEFINE base == IF path = None THEN Empty ELSE program
           here == IF path = None THEN NewPath ELSE path
           p == ensure(base, s)
           zone(q) == [rowEdit(buildProgramZoneListRows(q), Len(q.zones))
                         EXCEPT !.lo = note, !.hi = note, !.root = note]
           created == createProgramZoneForSampleAsset(p, assetOf(p, s), 0)
           results == UNION {applyProgramZoneEdit(q, zone(q)) : q \in created}
           synced == Synced(history, settings, here)
<1>1. /\ path' = here
      /\ slices' = (slices /\ path # None)
      /\ IF Len(p.zones) = MaxZones
         THEN program' = p /\ history' = synced /\ UNCHANGED view
         ELSE /\ program' \in results
              /\ history' = onPath(recordMappingChange(synced, pathed(snapshot(p), here),
                                                       pathed(snapshot(program'), here)), here)
              /\ Show(program', {Len(program'.zones)})
      /\ UNCHANGED <<library, origin, trusted>>
  BY Zenon DEF DropOnKey, onPath, pathed
<1>2. base = program
  BY InvParts
<1>3. /\ Evolves(program, p) /\ Typed(p) /\ p.zones = program.zones
      /\ assetOf(p, s) \in Nat
  <2> HIDE DEF base
  <2> QED BY <1>2, InvParts, Ensured DEF Evolves
<1>4. here # None
  BY SessionAssumption
<1>5. HistoryOK(synced, program, trusted, library)
  BY InvParts, SyncedOK
<1> HIDE DEF base, here, p, synced
<1>6. ASSUME NEW q \in created, NEW r \in applyProgramZoneEdit(q, zone(q))
      PROVE  Evolves(p, r) /\ Len(r.zones) = Len(p.zones) + 1
  <2>1. Evolves(p, q) /\ Len(q.zones) = Len(p.zones) + 1
    BY <1>3, Created
  <2>2. Typed(q)
    BY <2>1 DEF Evolves
  <2> DEFINE R == buildProgramZoneListRows(q)
             i == Len(q.zones)
  <2>3. R \in Seq(Rows) /\ DOMAIN R = DOMAIN q.zones
    BY <2>2, RowsOf
  <2>4. i \in DOMAIN R
    <3>1. DOMAIN q.zones = 1 .. Len(q.zones) /\ Len(p.zones) \in Nat
      BY <1>3, <2>2, ProgramParts
    <3> QED BY <2>1, <2>3, <3>1
  <2>5. zone(q) \in Edits
    <3> HIDE DEF R, i
    <3>1. [rowEdit(R, i) EXCEPT !.lo = note, !.hi = note, !.root = note] \in Edits
      BY <2>3, <2>4, DropEdit
    <3> QED BY <3>1 DEF R, i
  <2> HIDE DEF zone
  <2>6. Evolves(q, r) /\ Len(r.zones) = Len(q.zones)
    BY <2>2, <2>5, OneEditEvolves
  <2> QED BY <2>1, <2>6, EvolvesFurther
<1>7. \A r \in results : Evolves(p, r) /\ Len(r.zones) = Len(p.zones) + 1
  <2> HIDE DEF zone, created
  <2> QED BY <1>6
<1> HIDE DEF results
<1>8. Len(p.zones) \in Nat /\ Len(p.zones) <= MaxZones /\ MaxZones \in Nat
  BY <1>3, InvParts, ProgramParts, SessionAssumption
<1>9. /\ Evolves(program, program') /\ Len(program'.zones) <= MaxZones /\ ViewOK'
      /\ HistoryOK(history', program', trusted, library)
  <2>1. CASE Len(p.zones) = MaxZones
    <3>1. program' = p /\ history' = synced /\ UNCHANGED view
      BY <1>1, <2>1
    <3>2. ViewOK'
      BY <3>1, InvParts, ViewSame
    <3>3. HistoryOK(synced, p, trusted, library)
      BY <1>3, <1>5, InvParts, HistoryGrows DEF Evolves
    <3> QED BY <1>3, <1>8, <3>1, <3>2, <3>3
  <2>2. CASE Len(p.zones) # MaxZones
    <3> DEFINE after == pathed(snapshot(program'), here)
    <3>1. /\ Evolves(p, program') /\ Len(program'.zones) = Len(p.zones) + 1
          /\ Show(program', {Len(program'.zones)})
      BY <1>1, <1>7, <2>2
    <3>2. history' = onPath(recordMappingChange(synced, pathed(snapshot(p), here), after), here)
      BY <1>1, <2>2
    <3> HIDE DEF after
    <3>3. Evolves(program, program')
      BY <1>3, <3>1, EvolvesFurther
    <3>4. Typed(program')
      BY <3>1 DEF Evolves
    <3>5. ViewOK'
      BY <3>1, <3>4, Showing
    <3>6. HistoryOK(history', program', trusted, library)
      BY <1>3, <1>5, <1>8, <3>1, <3>2, InvParts, EditRecorded
    <3> QED BY <1>8, <2>2, <3>1, <3>3, <3>5, <3>6
  <2> QED BY <2>1, <2>2
<1>10. slices' \in BOOLEAN /\ path' # None
  BY <1>1, <1>4, InvParts DEF StoreOK
<1>11. StoreOK'
  BY <1>1, <1>9, <1>10, InvParts, StoreEvolves
<1> QED
  BY <1>1, <1>9, <1>11 DEF SessionInv

LEMMA EmptyIsTyped ==
  Typed(Empty) /\ Len(Empty.zones) = 0 /\ Fits(Empty) /\ DOMAIN Empty.groups = {}
<1>1. /\ Empty.zones = <<>> /\ Empty.groups = <<>> /\ Empty.assets = <<>>
      /\ Empty = [zones |-> <<>>, assets |-> <<>>, groups |-> <<>>]
  BY DEF Empty
<1>2. \A S : <<>> \in Seq(S) /\ Len(<<>>) = 0 /\ DOMAIN <<>> = {}
  BY EmptySeq
<1> QED
  BY <1>1, <1>2 DEF Typed, Fits

\* A program that was just loaded.
LEMMA Loaded ==
  ASSUME IsProgram(program'), path' = None => program' = Empty, slices' \in BOOLEAN,
         library' \in Nat, origin' = program', trusted' = Fits(program')
  PROVE  StoreOK'
BY DEF StoreOK, GroupCoversZones, Fits

LEMMA NewLibraryKeeps ==
  ASSUME SessionInv, NewLibrary
  PROVE  SessionInv'
<1>1. /\ program' = Empty /\ path' = NewPath /\ slices' = FALSE /\ library' = library + 1
      /\ origin' = Empty /\ trusted' = TRUE /\ history' = Synced(history, settings, NewPath)
      /\ Show(Empty, {})
  BY DEF NewLibrary
<1>2. IsProgram(Empty) /\ Typed(Empty) /\ Fits(Empty)
  BY EmptyIsTyped, ProgramIs, SessionAssumption
<1>3. library' \in Nat
  BY <1>1, InvParts
<1>4. StoreOK'
  BY <1>1, <1>2, <1>3, Loaded
<1>5. ViewOK'
  BY <1>1, <1>2, Showing
<1>6. HistoryOK(history, Empty, TRUE, library + 1)
  BY InvParts, HistoryOfAnother
<1>7. HistoryOK(history', program', trusted', library')
  BY <1>1, <1>6, SyncedOK
<1> QED
  BY <1>4, <1>5, <1>7 DEF SessionInv

LEMMA SaveAsKeeps ==
  ASSUME SessionInv, SaveAs
  PROVE  SessionInv'
<1>1. /\ path # None /\ path' = SavedPath /\ slices' = FALSE
      /\ UNCHANGED <<program, library, origin, trusted>> /\ UNCHANGED view /\ UNCHANGED history
  BY DEF SaveAs
<1>2. path' # None
  BY <1>1, SessionAssumption
<1>3. Evolves(program, program') /\ Len(program'.zones) <= MaxZones
  BY <1>1, InvParts, EvolvesAsIs
<1>4. StoreOK'
  BY <1>1, <1>2, <1>3, InvParts, StoreEvolves
<1>5. ViewOK'
  BY <1>1, InvParts, ViewSame
<1> QED
  BY <1>1, <1>4, <1>5, InvParts DEF SessionInv

LEMMA HostRestoresKeeps ==
  ASSUME SessionInv, NEW s \in Programs, HostRestores(s)
  PROVE  SessionInv'
<1>1. /\ program' = s.program /\ path' = s.path /\ slices' = s.slices /\ library' = library + 1
      /\ origin' = s.program /\ trusted' = Fits(s.program) /\ UNCHANGED view /\ UNCHANGED history
  BY DEF HostRestores
<1>2. IsProgram(s.program) /\ (s.path = None => s.program = Empty) /\ s.slices \in BOOLEAN
  BY SessionAssumption
<1>3. library' \in Nat
  BY <1>1, InvParts
<1>4. StoreOK'
  BY <1>1, <1>2, <1>3, Loaded
<1>5. ViewOK'
  BY <1>1, InvParts, ViewSame
<1>6. HistoryOK(history, program', trusted', library + 1)
  BY InvParts, HistoryOfAnother
<1> QED
  BY <1>1, <1>4, <1>5, <1>6 DEF SessionInv

LEMMA RefreshKeeps ==
  ASSUME SessionInv, Refresh
  PROVE  SessionInv'
<1>1. history' = Synced(history, settings, path) /\ Show(program, selection) /\ UNCHANGED store
  BY DEF Refresh
<1>2. StoreOK'
  BY <1>1, InvParts, StoreSame
<1>3. ViewOK'
  BY <1>1, InvParts, Showing
<1>4. HistoryOK(history', program', trusted', library')
  BY <1>1, InvParts, SyncedOK DEF store
<1> QED
  BY <1>2, <1>3, <1>4 DEF SessionInv

LEMMA TickKeeps ==
  ASSUME SessionInv, NEW sameGesture, Tick(sameGesture)
  PROVE  SessionInv'
<1> DEFINE h == Synced(history, settings, path)
<1>1. history' = recordPendingSettingsChange(h, settings, sameGesture) /\ UNCHANGED store /\ UNCHANGED view
  BY DEF Tick
<1>2. StoreOK' /\ ViewOK'
  BY <1>1, InvParts, StoreSame, ViewSame
<1>3. HistoryOK(h, program, trusted, library)
  BY InvParts, SyncedOK
<1> HIDE DEF h
<1>4. HistoryOK(history', program', trusted', library')
  BY <1>1, <1>3, SettingsRecorded DEF store
<1> QED
  BY <1>2, <1>4 DEF SessionInv

\* Undo and redo take an entry of this program or of another one.  The first
\* gives back what it keeps; after the second the program is no longer trusted.
LEMMA RestoresWell ==
  ASSUME NEW p, Typed(p), NEW t, t => Fits(p), NEW entry, entry.kind = "mapping",
         NEW l, EntryOK(entry, p, t, l)
  PROVE  LET r == restoreProgramZoneStructureFromState(p, entry.state)
         IN  /\ Typed(r) /\ Extends(p, r) /\ DOMAIN r.groups = DOMAIN p.groups
             /\ Len(r.zones) <= MaxZones
             /\ \A g \in DOMAIN r.groups : Tight(r, g)
             /\ t /\ entry.library = l => Fits(r) /\ sound(r) = entry.sound
<1> DEFINE r == restoreProgramZoneStructureFromState(p, entry.state)
           P == [p EXCEPT !.zones = entry.state]
<1>1. entry.state \in Seq(Zones) /\ Len(entry.state) <= MaxZones
  BY DEF EntryOK
<1>2. /\ Typed(r) /\ Extends(p, r) /\ r.assets = p.assets /\ Len(r.zones) <= Len(entry.state)
      /\ \A g \in DOMAIN r.groups : Tight(r, g)
      /\ (\A i \in DOMAIN entry.state : Has(p, entry.state[i])) => r.zones = entry.state
  BY <1>1, Restored
<1> HIDE DEF r
<1>3. Len(r.zones) <= MaxZones
  <2>1. Len(r.zones) \in Nat /\ Len(entry.state) \in Nat /\ MaxZones \in Nat
    BY <1>1, <1>2, ProgramParts, SequenceParts, SessionAssumption
  <2> QED BY <1>1, <1>2, <2>1
<1>4. ASSUME t, entry.library = l PROVE Fits(r) /\ sound(r) = entry.sound
  <2>1. /\ \A i \in DOMAIN entry.state : Has(p, entry.state[i])
        /\ Fits(P) /\ sound(P) = entry.sound
    BY <1>4 DEF EntryOK, OfProgram
  <2>2. P.zones = entry.state /\ P.assets = p.assets
    BY WithZones
  <2> HIDE DEF P
  <2>3. r.zones = P.zones /\ r.assets = P.assets
    BY <1>2, <2>1, <2>2
  <2>4. Fits(r)
    BY <2>1, <2>3 DEF Fits, fits, windowEnd
  <2>5. sound(r) = sound(P)
    <3>1. \A i \in DOMAIN P.zones :
            LET a == P.zones[i].asset
            IN  a \in DOMAIN P.assets /\ a \in DOMAIN r.assets /\ r.assets[a] = P.assets[a]
      BY <2>1, <2>2, <2>3 DEF Has
    <3> QED BY <2>3, <3>1, SameSounds
  <2> QED BY <2>1, <2>4, <2>5
<1> QED
  BY <1>2, <1>3, <1>4 DEF r, Extends

LEMMA StepKeeps ==
  ASSUME SessionInv, NEW from \in {"undo", "redo"}, NEW to \in {"undo", "redo"}, from # to,
         NEW sameGesture, Step(from, to, sameGesture)
  PROVE  SessionInv'
<1> DEFINE h == recordPendingSettingsChange(Synced(history, settings, path), settings, sameGesture)
           entry == Last(h[from])
           present == IF entry.kind = "settings" THEN [kind |-> "settings", value |-> settings] ELSE snapshot(program)
           stepped == taken(h, from, to, present)
           restored == applyImportedProgramMappingState(entry.state)
<1>1. /\ IF h[from] = <<>>
         THEN history' = h /\ UNCHANGED <<program, trusted, view, settings>>
         ELSE IF entry.kind = "settings"
         THEN /\ settings' = entry.value
              /\ history' = latest(stepped, entry.value)
              /\ UNCHANGED <<program, trusted, view>>
         ELSE /\ history' = stepped
              /\ UNCHANGED settings
              /\ IF entry.path = path /\ restored # {}
                 THEN /\ program' \in restored
                      /\ trusted' = (trusted /\ entry.library = library)
                      /\ Show(program', selection)
                 ELSE UNCHANGED <<program, trusted, view>>
      /\ UNCHANGED <<path, slices, library, origin>>
  BY Zenon DEF Step, taken, latest
<1>2. HistoryOK(h, program, trusted, library)
  <2>1. HistoryOK(Synced(history, settings, path), program, trusted, library)
    BY InvParts, SyncedOK
  <2> QED BY <2>1, SettingsRecorded
<1> HIDE DEF h
<1>3. ASSUME history' = h \/ HistoryOK(history', program, trusted, library),
             UNCHANGED <<program, trusted, view>>
      PROVE  SessionInv'
  <2>1. StoreOK'
    BY <1>1, <1>3, InvParts, StoreSame DEF store
  <2>2. ViewOK'
    BY <1>3, InvParts, ViewSame
  <2> QED BY <1>1, <1>2, <1>3, <2>1, <2>2 DEF SessionInv
<1>4. CASE h[from] = <<>>
  BY <1>1, <1>3, <1>4
<1>5. CASE h[from] # <<>>
  <2>1. EntryOK(present, program, trusted, library)
    <3>1. EntryOK(snapshot(program), program, trusted, library)
      BY InvParts, Snapshot
    <3>2. EntryOK([kind |-> "settings", value |-> settings], program, trusted, library)
      BY DEF EntryOK
    <3> QED BY <3>1, <3>2
  <2> HIDE DEF present
  <2>2. EntryOK(entry, program, trusted, library) /\ HistoryOK(stepped, program, trusted, library)
    BY <1>2, <1>5, <2>1, StackStep
  <2> HIDE DEF entry, stepped
  <2>3. CASE entry.kind = "settings"
    <3>1. HistoryOK(latest(stepped, entry.value), program, trusted, library)
      BY <2>2, RewrittenOK
    <3> QED BY <1>1, <1>3, <1>5, <2>3, <3>1
  <2>4. CASE entry.kind # "settings" /\ ~(entry.path = path /\ restored # {})
    BY <1>1, <1>3, <1>5, <2>2, <2>4
  <2>5. CASE entry.kind # "settings" /\ entry.path = path /\ restored # {}
    <3> DEFINE r == restoreProgramZoneStructureFromState(program, entry.state)
    <3>1. entry.kind = "mapping"
      BY <2>2, <2>5 DEF EntryOK
    <3>2. program' \in restored /\ trusted' = (trusted /\ entry.library = library)
          /\ Show(program', selection) /\ history' = stepped
      BY <1>1, <1>5, <2>5
    <3>3. program' = r /\ program.assets # <<>>
      BY <3>2 DEF applyImportedProgramMappingState
    <3>4. /\ Typed(r) /\ Extends(program, r) /\ DOMAIN r.groups = DOMAIN program.groups
          /\ Len(r.zones) <= MaxZones
          /\ \A g \in DOMAIN r.groups : Tight(r, g)
          /\ trusted /\ entry.library = library => Fits(r)
      <4>1. Typed(program)
        BY InvParts
      <4>2. trusted => Fits(program)
        BY InvParts
      <4>3. EntryOK(entry, program, trusted, library)
        BY <2>2
      <4> QED BY <3>1, <4>1, <4>2, <4>3, RestoresWell
    <3> HIDE DEF r
    <3>5. path # None
      BY <3>3, InvParts DEF Empty
    <3>6. StoreOK'
      <4>1. IsProgram(program')
        BY <3>3, <3>4, ProgramIs
      <4>2. GroupCoversZones'
        BY <3>3, <3>4 DEF GroupCoversZones
      <4>3. DOMAIN program'.groups = DOMAIN origin'.groups
        BY <1>1, <3>3, <3>4, InvParts DEF StoreOK
      <4>4. trusted' \in BOOLEAN /\ (trusted' => Fits(program'))
        BY <3>2, <3>3, <3>4, InvParts DEF StoreOK
      <4>5. path' # None /\ slices' \in BOOLEAN /\ library' \in Nat
        BY <1>1, <3>5, InvParts DEF StoreOK
      <4> QED BY <4>1, <4>2, <4>3, <4>4, <4>5 DEF StoreOK
    <3>7. ViewOK'
      BY <3>2, <3>3, <3>4, Showing
    <3>8. trusted' => trusted
      BY <3>2, InvParts DEF StoreOK
    <3>9. HistoryOK(stepped, program', trusted', library)
      BY <2>2, <3>3, <3>4, <3>8, InvParts, HistoryGrows
    <3> QED BY <1>1, <3>2, <3>6, <3>7, <3>9 DEF SessionInv
  <2> QED BY <2>3, <2>4, <2>5
<1> QED
  BY <1>4, <1>5

LEMMA UndoKeeps ==
  ASSUME SessionInv, NEW sameGesture, Undo(sameGesture) \/ Redo(sameGesture)
  PROVE  SessionInv'
<1>1. ASSUME Undo(sameGesture) PROVE SessionInv'
  BY <1>1, StepKeeps DEF Undo
<1>2. ASSUME Redo(sameGesture) PROVE SessionInv'
  BY <1>2, StepKeeps DEF Redo
<1> QED
  BY <1>1, <1>2

-----------------------------------------------------------------------------
(* The invariant, and what follows from it.                                *)

LEMMA InitKeeps ==
  ASSUME Init
  PROVE  SessionInv
<1>1. PICK s \in Programs : program = s.program /\ path = s.path /\ slices = s.slices
  BY DEF Init
<1>2. /\ library = 0 /\ origin = program /\ trusted = Fits(program)
      /\ rows = buildProgramZoneListRows(program)
      /\ selection = (IF program.zones = <<>> THEN {} ELSE {1})
      /\ control = shown(rows, selection) /\ history = Cleared(0, path)
  BY DEF Init
<1>3. IsProgram(program) /\ (path = None => program = Empty) /\ slices \in BOOLEAN
  BY <1>1, SessionAssumption
<1>4. Typed(program)
  BY <1>3, ProgramIs
<1>5. StoreOK
  BY <1>2, <1>3 DEF StoreOK, GroupCoversZones, Fits
<1>6. rows \in Seq(Rows) /\ DOMAIN rows = DOMAIN program.zones
  BY <1>2, <1>4, RowsOf
<1>7. selection \in SUBSET (DOMAIN rows)
  <2>1. program.zones # <<>> => 1 \in DOMAIN program.zones
    <3>1. program.zones \in Seq(Zones) /\ Len(program.zones) \in Nat /\ DOMAIN program.zones = 1 .. Len(program.zones)
      BY <1>4, ProgramParts
    <3>2. program.zones # <<>> => Len(program.zones) # 0
      BY <3>1, EmptySeq
    <3> QED BY <3>1, <3>2
  <2> QED BY <1>2, <1>6, <2>1
<1>8. ViewOK
  BY <1>2, <1>6, <1>7, Shown DEF ViewOK
<1>9. HistoryOK(history, program, trusted, library)
  BY <1>2, ClearedOK
<1> QED
  BY <1>5, <1>8, <1>9 DEF SessionInv

LEMMA CutsAreNatural ==
  ASSUME NEW sample \in Cuts
  PROVE  sample \in Nat
BY MappingAssumption DEF Cuts

LEMMA NextKeeps ==
  ASSUME SessionInv, [Next]_vars
  PROVE  SessionInv'
<1>1. ASSUME NEW S \in SUBSET DOMAIN rows, Select(S) PROVE SessionInv'
  BY <1>1, SelectKeeps
<1>2. ASSUME NEW field \in {"lo", "hi", "root"}, NEW value \in Keys, Adjust(field, value) PROVE SessionInv'
  BY <1>2, SessionAssumption, AdjustKeeps
<1>3. ASSUME NEW field \in {"start", "end", "ls", "le"}, NEW value \in Points, Adjust(field, value)
      PROVE  SessionInv'
  BY <1>3, SessionAssumption, AdjustKeeps
<1>4. ASSUME ApplyNow PROVE SessionInv'
  BY <1>4, ApplyKeeps DEF ApplyNow
<1>5. ASSUME LiveApply PROVE SessionInv'
  BY <1>5, ApplyKeeps, NothingDone DEF LiveApply
<1>6. ASSUME ApplyBatch(1) PROVE SessionInv'
  BY <1>6, ApplyBatchKeeps
<1>7. ASSUME NEW i \in DOMAIN rows, NEW by \in {-1, 1}, DragInOverview(i, "move", by) PROVE SessionInv'
  BY <1>7, DragKeeps
<1>8. ASSUME NEW i \in DOMAIN rows, NEW mode \in {"keyLow", "keyHigh"}, NEW note \in Keys,
             DragInOverview(i, mode, note)
      PROVE  SessionInv'
  BY <1>8, SessionAssumption, DragKeeps
<1>9. ASSUME NEW a \in DOMAIN program.assets \cup {0}, CreateZone(a) PROVE SessionInv'
  BY <1>9, CreateKeeps
<1>10. ASSUME Duplicate \/ SplitByKey \/ Delete PROVE SessionInv'
  BY <1>10, DuplicateKeeps, SplitByKeyKeeps, DeleteKeeps
<1>11. ASSUME RemapChromatically \/ MapToRoots \/ DeriveRoots \/ Spread PROVE SessionInv'
  BY <1>11, RemapsKeep
<1>12. ASSUME NEW sample \in Cuts, SplitSlice(sample) \/ MergeSlices(sample) PROVE SessionInv'
  BY <1>12, CutsAreNatural, SplitSliceKeeps, MergeSlicesKeeps
<1>13. ASSUME NEW s \in Samples, AddSample(s) PROVE SessionInv'
  BY <1>13, AddSampleKeeps
<1>14. ASSUME NEW s \in Samples, NEW i \in DOMAIN rows, DropOnZone(s, i) PROVE SessionInv'
  BY <1>14, DropOnZoneKeeps
<1>15. ASSUME NEW s \in Samples, NEW note \in Keys, DropOnKey(s, note) PROVE SessionInv'
  BY <1>15, SessionAssumption, DropOnKeyKeeps
<1>16. ASSUME NewLibrary \/ SaveAs \/ Refresh PROVE SessionInv'
  BY <1>16, NewLibraryKeeps, SaveAsKeeps, RefreshKeeps
<1>17. ASSUME NEW s \in Programs, HostRestores(s) PROVE SessionInv'
  BY <1>17, HostRestoresKeeps
<1>18. ASSUME NEW value \in 0 .. 1, ChangeSettings(value) PROVE SessionInv'
  BY <1>18, NothingDone DEF ChangeSettings
<1>19. ASSUME NEW sameGesture \in BOOLEAN, Tick(sameGesture) \/ Undo(sameGesture) \/ Redo(sameGesture)
       PROVE  SessionInv'
  BY <1>19, TickKeeps, UndoKeeps
<1>20. ASSUME UNCHANGED vars PROVE SessionInv'
  BY <1>20, NothingDone DEF vars
<1> QED
  BY <1>1, <1>2, <1>3, <1>4, <1>5, <1>6, <1>7, <1>8, <1>9, <1>10, <1>11, <1>12, <1>13, <1>14,
     <1>15, <1>16, <1>17, <1>18, <1>19, <1>20 DEF Next

\* Whatever is done in a session, the program in the store is one, its zones fit
\* if they did when it was loaded, the sliders show a row that is there, and every
\* entry of the history made in this program keeps zones that it has.
THEOREM SessionInvariance == Spec => []SessionInv
<1>1. Init => SessionInv
  BY InitKeeps
<1>2. SessionInv /\ [Next]_vars => SessionInv'
  BY NextKeeps
<1> QED
  BY <1>1, <1>2, PTL DEF Spec

\* However the edits of the mapping page, drops, undos and restored sessions
\* interleave, every zone names an asset and a group that are there, has its keys
\* in order and a window and loop within its sample, and the range of each group
\* is that of its zones, or the one the file gave to zones of just these ranges.
THEOREM ZonesStayWellFormed == Spec => []ZonesAreWellFormed
<1>1. SessionInv => ZonesAreWellFormed
  <2> SUFFICES ASSUME SessionInv PROVE ZonesAreWellFormed
    OBVIOUS
  <2>1. Typed(program) /\ Len(program.zones) <= MaxZones /\ (trusted => Fits(program))
    BY InvParts
  <2>2. GroupCoversZones
    BY InvParts DEF StoreOK
  <2>3. ASSUME NEW i \in DOMAIN program.zones
        PROVE  LET z == program.zones[i]
               IN  /\ Has(program, z)
                   /\ 0 <= z.lo /\ z.lo <= z.hi /\ z.hi <= MaxKey /\ z.root \in 0 .. MaxKey
                   /\ trusted => fits(program, z)
    <3> DEFINE z == program.zones[i]
    <3>1. z \in Zones /\ Has(program, z)
      BY <2>1, ProgramParts
    <3>2. trusted => fits(program, z)
      BY <2>1 DEF Fits
    <3> HIDE DEF z
    <3>3. z.lo \in 0 .. MaxKey /\ z.hi \in 0 .. MaxKey /\ z.root \in 0 .. MaxKey /\ z.lo <= z.hi
      BY <3>1, ZoneParts
    <3>4. MaxKey \in Nat
      BY MappingAssumption
    <3> QED BY <3>1, <3>2, <3>3, <3>4 DEF z
  <2> QED BY <2>1, <2>2, <2>3 DEF ZonesAreWellFormed
<1> QED
  BY <1>1, SessionInvariance, PTL

\* An undo or redo of an edit made in this program gives back what was heard
\* before it, whatever was added, saved, undone and redone since.
THEOREM UndoStaysTrue == Spec => []UndoGivesBack
<1>1. SessionInv => UndoGivesBack
  <2> SUFFICES ASSUME SessionInv,
                      NEW entry \in ToSet(history.undo) \cup ToSet(history.redo),
                      trusted, entry.kind = "mapping", entry.library = library
               PROVE  sound(restoreProgramZoneStructureFromState(program, entry.state)) = entry.sound
    BY DEF UndoGivesBack
  <2>1. StackOK(history.undo, program, trusted, library) /\ StackOK(history.redo, program, trusted, library)
    BY InvParts DEF HistoryOK
  <2>2. ASSUME NEW s, StackOK(s, program, trusted, library), NEW e \in ToSet(s)
        PROVE  EntryOK(e, program, trusted, library)
    <3>1. IsList(s) /\ \A i \in 1 .. Len(s) : EntryOK(s[i], program, trusted, library)
      BY <2>2 DEF StackOK
    <3>2. DOMAIN s = 1 .. Len(s)
      <4>1. s = [i \in 1 .. Len(s) |-> s[i]]
        BY <3>1 DEF IsList
      <4> QED BY <4>1
    <3> QED BY <3>1, <3>2 DEF ToSet
  <2>3. EntryOK(entry, program, trusted, library)
    BY <2>1, <2>2
  <2>4. Typed(program)
    BY InvParts
  <2>5. trusted => Fits(program)
    BY InvParts
  <2> QED BY <2>3, <2>4, <2>5, RestoresWell
<1> QED
  BY <1>1, SessionInvariance, PTL

\* Splitting and merging slices loses no sample of the audio and leaves no gap
\* between the keys of the slices, wherever the boundary is put.
THEOREM SliceEditsStayTrue == Spec => SliceEditsKeepAudio
<1> DEFINE Kept ==
      slices /\ trusted /\ program' # program /\ (\E sample \in Cuts : SplitSlice(sample) \/ MergeSlices(sample))
       => /\ covered(program') = covered(program)
          /\ struck(program') = Min(struck(program)) .. Min(struck(program)) + Len(program'.zones) - 1
<1>1. SessionInv /\ [Next]_vars => [Kept]_vars
  <2> SUFFICES ASSUME SessionInv, trusted, program' # program,
                      NEW sample \in Cuts, SplitSlice(sample) \/ MergeSlices(sample)
               PROVE  /\ covered(program') = covered(program)
                      /\ struck(program') = Min(struck(program)) .. Min(struck(program)) + Len(program'.zones) - 1
    OBVIOUS
  <2>1. Typed(program) /\ Fits(program)
    BY InvParts
  <2>2. ASSUME NEW results, Edited(results) PROVE \E r \in results : program' = r.program
    BY <2>2 DEF Edited
  <2>3. program' \in splitProgramSliceAtSample(program, sample)
        \/ program' \in mergeProgramSlicesAtSampleBoundary(program, sample)
    <3>1. ASSUME SplitSlice(sample) PROVE program' \in splitProgramSliceAtSample(program, sample)
      <4> DEFINE results == {result(p, {i \in DOMAIN p.zones : p.zones[i].start = sample}) :
                               p \in splitProgramSliceAtSample(program, sample)}
      <4>1. Edited(results)
        BY <3>1, Zenon DEF SplitSlice
      <4>2. \A r \in results : r.program \in splitProgramSliceAtSample(program, sample)
        BY DEF result
      <4> HIDE DEF results
      <4> QED BY <2>2, <4>1, <4>2
    <3>2. ASSUME MergeSlices(sample) PROVE program' \in mergeProgramSlicesAtSampleBoundary(program, sample)
      <4> DEFINE results == {result(p, {i \in DOMAIN p.zones :
                                          p.zones[i].start < sample /\ sample < p.zones[i].end}) :
                               p \in mergeProgramSlicesAtSampleBoundary(program, sample)}
      <4>1. Edited(results)
        BY <3>2, Zenon DEF MergeSlices
      <4>2. \A r \in results : r.program \in mergeProgramSlicesAtSampleBoundary(program, sample)
        BY DEF result
      <4> HIDE DEF results
      <4> QED BY <2>2, <4>1, <4>2
    <3> QED BY <3>1, <3>2
  <2>4. SlicedWell(program, program')
    BY <2>1, <2>3, CutsAreNatural, SliceSplit, SliceMerged
  <2> QED BY <2>1, <2>4 DEF SlicedWell
<1> HIDE DEF Kept
<1>2. [][Kept]_vars => SliceEditsKeepAudio
  BY DEF Kept, SliceEditsKeepAudio
<1>3. Spec => [][Kept]_vars
  BY <1>1, SessionInvariance, PTL DEF Spec
<1> QED
  BY <1>2, <1>3
=============================================================================
