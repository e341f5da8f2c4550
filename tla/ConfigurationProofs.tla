------------------------ MODULE ConfigurationProofs ------------------------
(* Theorems about Configuration: the daemon serves with what its file says, *)
(* and writes over the file only when it cannot be read.                    *)
EXTENDS Configuration, FiniteSetTheorems, WellFoundedInduction, SequenceTheorems, TLAPS

-----------------------------------------------------------------------------
(* The dictionary *)

Keys  == Seq(STRING)
Vals  == Int \cup {Text, Nothing}
Slots == [key : Keys \cup {Nothing}, val : Vals]
Dicts == [slot : Seq(Slots), n : Nat]

\* Sequences of one and of two elements.
LEMMA ShortSequences ==
    ASSUME NEW S, NEW a \in S, NEW b \in S
    PROVE  <<a>> \in Seq(S) /\ <<a, b>> \in Seq(S)
OBVIOUS

\* The names of sections and of entries are keys, and no key is another or NULL.
LEMMA KeyFacts ==
    /\ \A a \in STRING : <<a>> \in Keys
    /\ \A a, b \in STRING : <<a, b>> \in Keys
    /\ \A a, b, c, d : <<a, b>> = <<c, d>> <=> a = c /\ b = d
    /\ \A a, b, c : <<a, b>> # <<c>>
    /\ Nothing \notin Keys
<1>1. \A a \in STRING : <<a>> \in Keys
  BY ShortSequences DEF Keys
<1>2. \A a, b \in STRING : <<a, b>> \in Keys
  BY ShortSequences DEF Keys
<1>3. \A a, b, c, d : <<a, b>> = <<c, d>> <=> a = c /\ b = d
  OBVIOUS
<1>4. \A a, b, c : <<a, b>> # <<c>>
  <2>1. \A a, b, c : Len(<<a, b>>) = 2 /\ Len(<<c>>) = 1
    OBVIOUS
  <2> QED BY <2>1
<1>5. Nothing \notin Keys
  BY ConfigurationAssumption DEF Keys
<1> QED BY <1>1, <1>2, <1>3, <1>4, <1>5

\* The names of settings and of sections are strings.
LEMMA SettingNames ==
    NoSection \in STRING /\ \A s \in Settings : s \in STRING /\ SectionOf(s) \in STRING
BY ConfigurationAssumption

\* A set of naturals has a least element.
LEMMA LeastNatural ==
    ASSUME NEW S \in SUBSET Nat, S # {}
    PROVE  Min(S) \in S /\ \A n \in S : Min(S) <= n
<1> DEFINE R == OpToRel(<, Nat)
<1>1. IsWellFoundedOn(R, Nat)
  BY NatLessThanWellFounded
<1>2. \E x \in S : \A y \in S : <<y, x>> \notin R
  <2> HIDE DEF R
  <2> QED BY <1>1, WFMin
<1>3. \A x, y \in Nat : <<y, x>> \notin R => x <= y
  BY DEF OpToRel
<1>4. \E x \in S : \A y \in S : x <= y
  BY <1>2, <1>3
<1> QED BY <1>4 DEF Min

\* The slots of a key.
At(d, k) == {i \in 1..Size(d) : d.slot[i].key = k}

\* The slot of a key holds that key, and there is none only when no slot does.
LEMMA SlotFacts ==
    ASSUME NEW d \in Dicts, NEW k
    PROVE  /\ SlotOf(d, k) \in Nat
           /\ SlotOf(d, k) = 0 <=> At(d, k) = {}
           /\ SlotOf(d, k) # 0 => SlotOf(d, k) \in At(d, k)
<1>1. SlotOf(d, k) = IF At(d, k) = {} THEN 0 ELSE Min(At(d, k))
  BY DEF SlotOf, At
<1>2. At(d, k) \in SUBSET Nat /\ 0 \notin At(d, k)
  BY DEF At, Dicts, Size
<1>3. At(d, k) # {} => Min(At(d, k)) \in At(d, k)
  BY <1>2, LeastNatural
<1> QED BY <1>1, <1>2, <1>3

\* What is found under a key is a value, or the default.
LEMMA GetType ==
    ASSUME NEW d \in Dicts, NEW k, NEW def
    PROVE  dictionary_get(d, k, def) \in Vals \cup {def}
<1>1. CASE SlotOf(d, k) = 0
  BY <1>1 DEF dictionary_get
<1>2. CASE SlotOf(d, k) # 0
  <2>1. SlotOf(d, k) \in 1..Size(d)
    BY <1>2, SlotFacts DEF At
  <2>2. d.slot[SlotOf(d, k)] \in Slots
    BY <2>1 DEF Dicts, Size
  <2> QED BY <1>2, <2>2 DEF dictionary_get, Slots
<1> QED BY <1>1, <1>2

\* Two dictionaries that have the same slots for a key, and the same values there, give
\* the same.
LEMMA SameGet ==
    ASSUME NEW d \in Dicts, NEW e \in Dicts, NEW k, NEW def,
           At(d, k) = At(e, k), \A i \in At(d, k) : d.slot[i].val = e.slot[i].val
    PROVE  dictionary_get(d, k, def) = dictionary_get(e, k, def)
<1>1. SlotOf(d, k) = SlotOf(e, k)
  BY DEF SlotOf, At
<1>2. CASE SlotOf(d, k) = 0
  BY <1>1, <1>2 DEF dictionary_get
<1>3. CASE SlotOf(d, k) # 0
  <2>1. SlotOf(d, k) \in At(d, k)
    BY <1>3, SlotFacts
  <2> QED BY <1>1, <1>3, <2>1 DEF dictionary_get
<1> QED BY <1>2, <1>3

\* A dictionary has room, and counts every entry it has.
Used(d) == {i \in 1..Size(d) : d.slot[i].key # Nothing}
Sound(d) == Size(d) > 0 /\ d.n <= Size(d) /\ Cardinality(Used(d)) <= d.n

\* Growing a dictionary changes nothing that it holds, and there is room for one more.
LEMMA GrownFacts ==
    ASSUME NEW d \in Dicts, NEW k, Size(d) > 0, d.n <= Size(d)
    PROVE  LET e == Grown(d, k)
           IN  /\ e \in Dicts /\ e.n = d.n /\ Size(e) >= Size(d) /\ e.n <= Size(e)
               /\ Used(e) = Used(d)
               /\ \A c : c # Nothing => At(e, c) = At(d, c)
               /\ \A i \in 1..Size(d) : e.slot[i] = d.slot[i]
               /\ At(d, k) = {} => e.n < Size(e)
<1> DEFINE e == Grown(d, k)
           z == EmptySlots(Size(d))
           s == d.slot \o z
<1>1. CASE ~IsFull(d, k)
  <2>1. e = d
    BY <1>1 DEF Grown
  <2>2. At(d, k) = {} => d.n # Size(d)
    BY <1>1, SlotFacts DEF IsFull
  <2>3. d.n \in Nat /\ Size(d) \in Nat
    BY DEF Dicts, Size
  <2> HIDE DEF e
  <2>4. At(d, k) = {} => d.n < Size(d)
    BY <2>2, <2>3
  <2> QED BY <2>1, <2>3, <2>4 DEF e
<1>2. CASE IsFull(d, k)
  <2>1. d.slot \in Seq(Slots) /\ Size(d) \in Nat /\ d.n \in Nat /\ Len(d.slot) = Size(d)
    BY DEF Dicts, Size
  <2>2. Empty \in Slots
    BY DEF Empty, Slots, Vals
  <2>3. z \in Seq(Slots) /\ Len(z) = Size(d) /\ \A i \in 1..Size(d) : z[i] = Empty
    BY <2>1, <2>2 DEF EmptySlots
  <2> HIDE DEF z
  <2>4. /\ s \in Seq(Slots) /\ Len(s) = Size(d) + Size(d)
        /\ \A i \in 1..Size(d) : s[i] = d.slot[i]
        /\ \A i \in (Size(d) + 1)..Len(s) : s[i] = Empty
    <3>1. s \in Seq(Slots) /\ Len(s) = Size(d) + Size(d)
      BY <2>1, <2>3
    <3>2. \A i \in 1..Size(d) : s[i] = d.slot[i]
      BY <2>1, <2>3
    <3>3. ASSUME NEW i \in (Size(d) + 1)..(Size(d) + Size(d)) PROVE s[i] = Empty
      <4>1. i - Size(d) \in 1..Size(d)
        BY <2>1
      <4>2. s[i] = z[i - Size(d)]
        BY <2>1, <2>3
      <4> QED BY <2>3, <4>1, <4>2
    <3> QED BY <3>1, <3>2, <3>3
  <2> HIDE DEF s
  <2>5. e = [d EXCEPT !.slot = s]
    BY <1>2 DEF Grown, dictionary_grow, s, z
  <2>6. e \in Dicts /\ e.n = d.n /\ e.slot = s
    BY <2>4, <2>5 DEF Dicts
  <2> HIDE DEF e
  <2>7. Size(e) = Size(d) + Size(d)
    BY <2>4, <2>6 DEF Size
  <2>8. \A i \in (Size(d) + 1)..Size(e) : e.slot[i].key = Nothing
    BY <2>4, <2>6, <2>7 DEF Empty
  <2>9. \A i \in 1..Size(e) : i \in 1..Size(d) \/ i \in (Size(d) + 1)..Size(e)
    BY <2>1, <2>7
  <2>10. \A i \in 1..Size(d) : i \in 1..Size(e)
    BY <2>1, <2>7
  <2>11. \A i \in 1..Size(d) : e.slot[i] = d.slot[i]
    BY <2>4, <2>6
  <2>12. Used(e) = Used(d)
    BY <2>8, <2>9, <2>10, <2>11 DEF Used
  <2>13. \A c : c # Nothing => At(e, c) = At(d, c)
    BY <2>8, <2>9, <2>10, <2>11 DEF At
  <2>14. Size(e) >= Size(d) /\ e.n < Size(e)
    BY <2>1, <2>6, <2>7
  <2>15. e.n <= Size(e)
    BY <2>1, <2>6, <2>7
  <2> QED BY <2>6, <2>11, <2>12, <2>13, <2>14, <2>15 DEF e
<1> QED BY <1>1, <1>2

\* Dictionary slots wrap around the end of the array.
LEMMA Around ==
    ASSUME NEW m \in Nat \ {0}, NEW a \in 0..(m - 1)
    PROVE  a % m = a /\ (a + m) % m = a
OBVIOUS

\* A dictionary with room has an empty slot, and that is the one found.
LEMMA FreeSlotFacts ==
    ASSUME NEW d \in Dicts, Sound(d), d.n < Size(d)
    PROVE  FreeSlot(d) \in 1..Size(d) /\ d.slot[FreeSlot(d)].key = Nothing
<1> DEFINE z == Size(d)
           nth(j) == ((d.n + j) % z) + 1
           free == {j \in 0..(z - 1) : d.slot[nth(j)].key = Nothing}
<1>1. z \in Nat \ {0} /\ d.n \in Nat /\ d.n < z
  BY DEF Dicts, Size, Sound
<1>2. FreeSlot(d) = nth(Min(free))
  BY DEF FreeSlot
<1>3. PICK i \in 1..z : d.slot[i].key = Nothing
  <2>1. SUFFICES ASSUME \A i \in 1..z : d.slot[i].key # Nothing PROVE FALSE
    OBVIOUS
  <2>2. Used(d) = 1..z
    BY <2>1 DEF Used
  <2>3. Cardinality(1..z) = z
    <3>1. 1 \in Int /\ z \in Int /\ ~(1 > z) /\ z - 1 + 1 = z
      BY <1>1
    <3> HIDE DEF z
    <3> QED BY <3>1, FS_Interval
  <2>4. Cardinality(Used(d)) <= d.n
    BY DEF Sound
  <2> HIDE DEF z
  <2> QED BY <1>1, <2>2, <2>3, <2>4
<1> DEFINE j == IF i - 1 >= d.n THEN i - 1 - d.n ELSE i - 1 - d.n + z
<1>4. j \in 0..(z - 1) /\ nth(j) = i
  <2> HIDE DEF z
  <2>1. i - 1 \in 0..(z - 1)
    BY <1>1
  <2>2. CASE i - 1 >= d.n
    <3>1. j \in 0..(z - 1) /\ d.n + j = i - 1
      BY <1>1, <2>1, <2>2
    <3>2. (i - 1) % z = i - 1
      BY <1>1, <2>1, Around
    <3> QED BY <2>1, <3>1, <3>2
  <2>3. CASE ~(i - 1 >= d.n)
    <3>1. j \in 0..(z - 1) /\ d.n + j = i - 1 + z
      BY <1>1, <2>1, <2>3
    <3>2. (i - 1 + z) % z = i - 1
      BY <1>1, <2>1, Around
    <3> QED BY <2>1, <3>1, <3>2
  <2> QED BY <2>2, <2>3
<1>5. Min(free) \in free
  <2>1. j \in free
    BY <1>3, <1>4
  <2>2. free \in SUBSET Nat
    <3> HIDE DEF z
    <3> QED BY <1>1
  <2> HIDE DEF free
  <2> QED BY <2>1, <2>2, LeastNatural
<1>6. nth(Min(free)) \in 1..z /\ d.slot[nth(Min(free))].key = Nothing
  <2>1. Min(free) \in 0..(z - 1) /\ d.slot[nth(Min(free))].key = Nothing
    BY <1>5
  <2>2. (d.n + Min(free)) % z \in 0..(z - 1)
    <3> HIDE DEF z, free
    <3> QED BY <1>1, <2>1
  <2> HIDE DEF z, free
  <2> QED BY <1>1, <2>1, <2>2
<1> QED BY <1>2, <1>6

\* Storing a value under a key: the key has it, every other key has what it had.
LEMMA PutFacts ==
    ASSUME NEW d \in Dicts, Sound(d), NEW k \in Keys, NEW v \in Vals,
           At(d, k) = {} => d.n < Size(d)
    PROVE  LET e == Put(d, k, v)
           IN  /\ e \in Dicts /\ Sound(e)
               /\ \A def : dictionary_get(e, k, def) = v
               /\ \A c \in Keys \ {k} : \A def : dictionary_get(e, c, def) = dictionary_get(d, c, def)
<1> DEFINE e == Put(d, k, v)
<1>1. /\ d.slot \in Seq(Slots) /\ d.n \in Nat /\ Size(d) \in Nat /\ Size(d) = Len(d.slot)
      /\ \A i \in 1..Size(d) : d.slot[i] \in Slots
  BY DEF Dicts, Size
<1>2. Size(d) > 0 /\ d.n <= Size(d) /\ Cardinality(Used(d)) <= d.n
  BY DEF Sound
<1>3. CASE SlotOf(d, k) # 0
  <2> DEFINE p == SlotOf(d, k)
  <2>1. p \in 1..Size(d) /\ d.slot[p].key = k /\ p \in At(d, k)
    BY <1>3, SlotFacts DEF At
  <2>2. e = [d EXCEPT !.slot[p].val = v]
    BY <1>3 DEF Put
  <2> HIDE DEF e, p
  <2>3. [d.slot[p] EXCEPT !.val = v] \in Slots
    BY <1>1, <2>1 DEF Slots
  <2>4. /\ e \in Dicts /\ e.n = d.n /\ Size(e) = Size(d)
        /\ \A i \in 1..Size(d) : e.slot[i].key = d.slot[i].key
        /\ \A i \in 1..Size(d) : i # p => e.slot[i].val = d.slot[i].val
        /\ e.slot[p].val = v
    <3> DEFINE s == [d.slot EXCEPT ![p] = [d.slot[p] EXCEPT !.val = v]]
    <3>1. s \in Seq(Slots) /\ Len(s) = Len(d.slot)
      BY <1>1, <2>1, <2>3
    <3>2. \A i \in 1..Size(d) : s[i] = IF i = p THEN [d.slot[p] EXCEPT !.val = v] ELSE d.slot[i]
      BY <1>1, <2>1
    <3>3. e = [d EXCEPT !.slot = s]
      BY <2>2
    <3> HIDE DEF s
    <3>4. e \in Dicts /\ e.slot = s /\ e.n = d.n
      BY <3>1, <3>3 DEF Dicts
    <3>5. Size(e) = Size(d)
      BY <1>1, <3>1, <3>4 DEF Size
    <3>6. [d.slot[p] EXCEPT !.val = v].key = d.slot[p].key
          /\ [d.slot[p] EXCEPT !.val = v].val = v
      BY <1>1, <2>1 DEF Slots
    <3> QED BY <2>1, <3>2, <3>4, <3>5, <3>6
  <2>5. Used(e) = Used(d) /\ \A c : At(e, c) = At(d, c)
    BY <2>4 DEF Used, At
  <2>6. Sound(e)
    BY <1>2, <2>4, <2>5 DEF Sound
  <2>7. ASSUME NEW def PROVE dictionary_get(e, k, def) = v
    <3>1. SlotOf(e, k) = p
      BY <2>5 DEF SlotOf, At, p
    <3>2. p # 0
      BY <1>1, <2>1
    <3> QED BY <2>4, <3>1, <3>2 DEF dictionary_get
  <2>8. ASSUME NEW c \in Keys \ {k}, NEW def
        PROVE  dictionary_get(e, c, def) = dictionary_get(d, c, def)
    <3>1. \A i \in At(d, c) : i \in 1..Size(d) /\ i # p
      BY <2>1 DEF At
    <3>2. \A i \in At(d, c) : d.slot[i].val = e.slot[i].val
      BY <2>4, <3>1
    <3> QED BY <2>4, <2>5, <3>2, SameGet
  <2> QED BY <2>4, <2>6, <2>7, <2>8 DEF e
<1>4. CASE SlotOf(d, k) = 0
  <2> DEFINE p == FreeSlot(d)
             r == [key |-> k, val |-> v]
  <2>1. At(d, k) = {} /\ d.n < Size(d)
    BY <1>4, SlotFacts
  <2>2. p \in 1..Size(d) /\ d.slot[p].key = Nothing
    BY <2>1, FreeSlotFacts
  <2>3. e = [d EXCEPT !.slot[p] = r, !.n = @ + 1]
    BY <1>4 DEF Put
  <2>4. r \in Slots /\ r.key = k /\ r.val = v
    BY DEF Slots
  <2> HIDE DEF e, p, r
  <2>5. /\ e \in Dicts /\ e.n = d.n + 1 /\ Size(e) = Size(d)
        /\ \A i \in 1..Size(d) : i # p => e.slot[i] = d.slot[i]
        /\ e.slot[p] = r
    <3> DEFINE s == [d.slot EXCEPT ![p] = r]
    <3>1. s \in Seq(Slots) /\ Len(s) = Len(d.slot)
      BY <1>1, <2>2, <2>4
    <3>2. \A i \in 1..Size(d) : s[i] = IF i = p THEN r ELSE d.slot[i]
      BY <1>1, <2>2
    <3>3. e = [d EXCEPT !.slot = s, !.n = d.n + 1]
      BY <2>3
    <3> HIDE DEF s
    <3>4. e \in Dicts /\ e.slot = s /\ e.n = d.n + 1
      <4>1. d.n + 1 \in Nat
        BY <1>1
      <4> DEFINE n == d.n + 1
      <4>2. n \in Nat /\ e = [d EXCEPT !.slot = s, !.n = n]
        BY <3>3, <4>1
      <4> HIDE DEF n
      <4>3. e \in Dicts /\ e.slot = s /\ e.n = n
        BY <3>1, <4>2 DEF Dicts
      <4> QED BY <4>3 DEF n
    <3>5. Size(e) = Size(d)
      BY <1>1, <3>1, <3>4 DEF Size
    <3> QED BY <2>2, <3>2, <3>4, <3>5
  <2>6. k # Nothing
    BY KeyFacts
  <2>7. Used(e) = Used(d) \cup {p} /\ p \notin Used(d)
    BY <2>2, <2>4, <2>5, <2>6 DEF Used
  <2>8. Sound(e)
    <3>1. IsFiniteSet(1..Size(d))
      <4>1. 1 \in Int /\ Size(d) \in Int
        BY <1>1
      <4> QED BY <4>1, FS_Interval
    <3>2. Used(d) \subseteq 1..Size(d)
      BY DEF Used
    <3>3. IsFiniteSet(Used(d))
      BY <3>1, <3>2, FS_Subset
    <3>4. Cardinality(Used(d)) \in Nat /\ Cardinality(Used(d) \cup {p}) = Cardinality(Used(d)) + 1
      BY <2>7, <3>3, FS_CardinalityType, FS_AddElement
    <3>5. Cardinality(Used(e)) <= d.n + 1
      BY <1>1, <1>2, <2>7, <3>4
    <3> QED BY <1>1, <1>2, <2>1, <2>5, <3>5 DEF Sound
  <2>9. At(e, k) = {p}
    <3>1. \A i \in 1..Size(d) : d.slot[i].key # k
      BY <2>1 DEF At
    <3> QED BY <2>2, <2>4, <2>5, <3>1 DEF At
  <2>10. ASSUME NEW def PROVE dictionary_get(e, k, def) = v
    <3>1. SlotOf(e, k) = p /\ p # 0
      BY <1>1, <2>2, <2>5, <2>9, SlotFacts
    <3> QED BY <2>4, <2>5, <3>1 DEF dictionary_get
  <2>11. ASSUME NEW c \in Keys \ {k}, NEW def
         PROVE  dictionary_get(e, c, def) = dictionary_get(d, c, def)
    <3>1. c # Nothing
      BY KeyFacts
    <3>2. At(e, c) = At(d, c)
      BY <2>2, <2>4, <2>5, <3>1 DEF At
    <3>3. \A i \in At(d, c) : i \in 1..Size(d) /\ i # p
      BY <2>2, <3>1 DEF At
    <3>4. \A i \in At(d, c) : d.slot[i].val = e.slot[i].val
      BY <2>5, <3>3
    <3> QED BY <2>5, <3>2, <3>4, SameGet
  <2> QED BY <2>5, <2>8, <2>10, <2>11 DEF e
<1> QED BY <1>3, <1>4

\* dictionary_set: the key has the value, every other key has what it had, however full
\* the dictionary was.
LEMMA SetFacts ==
    ASSUME NEW d \in Dicts, Sound(d), NEW k \in Keys, NEW v \in Vals
    PROVE  LET e == dictionary_set(d, k, v)
           IN  /\ e \in Dicts /\ Sound(e)
               /\ \A c \in Keys : \A def :
                     dictionary_get(e, c, def) = IF c = k THEN v ELSE dictionary_get(d, c, def)
<1> DEFINE g == Grown(d, k)
           e == Put(g, k, v)
<1>1. Size(d) > 0 /\ d.n <= Size(d) /\ Cardinality(Used(d)) <= d.n /\ d.n \in Nat
      /\ Size(d) \in Nat
  BY DEF Sound, Dicts, Size
<1>2. k # Nothing
  BY KeyFacts
<1>3. /\ g \in Dicts /\ g.n = d.n /\ Size(g) >= Size(d) /\ g.n <= Size(g)
      /\ Used(g) = Used(d)
      /\ \A c : c # Nothing => At(g, c) = At(d, c)
      /\ \A i \in 1..Size(d) : g.slot[i] = d.slot[i]
      /\ At(d, k) = {} => g.n < Size(g)
  BY <1>1, GrownFacts
<1> HIDE DEF g
<1>4. Sound(g)
  <2>1. Size(g) > 0
    BY <1>1, <1>3 DEF Dicts, Size
  <2> QED BY <1>1, <1>3, <2>1 DEF Sound
<1>5. \A c \in Keys : \A def : dictionary_get(g, c, def) = dictionary_get(d, c, def)
  <2> TAKE c \in Keys
  <2> TAKE def
  <2>1. c # Nothing
    BY KeyFacts
  <2>2. At(d, c) = At(g, c)
    BY <1>3, <2>1
  <2>3. \A i \in At(d, c) : d.slot[i].val = g.slot[i].val
    BY <1>3 DEF At
  <2> QED BY <1>3, <2>2, <2>3, SameGet
<1>6. At(g, k) = {} => g.n < Size(g)
  BY <1>2, <1>3
<1>7. /\ e \in Dicts /\ Sound(e)
      /\ \A def : dictionary_get(e, k, def) = v
      /\ \A c \in Keys \ {k} : \A def : dictionary_get(e, c, def) = dictionary_get(g, c, def)
  BY <1>3, <1>4, <1>6, PutFacts
<1>8. dictionary_set(d, k, v) = e
  BY DEF dictionary_set, g
<1> HIDE DEF e
<1> QED BY <1>5, <1>7, <1>8

-----------------------------------------------------------------------------
(* The lines of a file *)

\* Line h begins a line of the file, and every line from it to the one before k is
\* continued: h is the head of what the buffer holds when line k is read.
IsHead(f, h) == h = 1 \/ ~f[h - 1].more
HeadOf(f, k, h) == h \in 1..k /\ IsHead(f, h) /\ \A j \in h..(k - 1) : f[j].more

\* The lines before the one that begins at h, the section they leave the reader in, and
\* what they say of a setting.
Before(f, h) == {i \in Heads(f) : i < h}
SectionsBefore(f, h) == {i \in Before(f, h) : f[i].kind = "section"}
SectionBefore(f, h) ==
    IF SectionsBefore(f, h) = {} THEN NoSection ELSE f[Max(SectionsBefore(f, h))].name
SaidBefore(f, h, s) == {i \in Before(f, h) : /\ f[i].kind = "value" /\ f[i].name = s
                                             /\ SectionBefore(f, i) = SectionOf(s)}
SaysBefore(f, h, s) ==
    IF SaidBefore(f, h, s) = {} THEN Default[s] ELSE f[Max(SaidBefore(f, h, s))].val

\* The lines of a file are numbered from 1.
LEMMA LineNumbers ==
    ASSUME NEW f \in Seq(LineSet)
    PROVE  /\ Len(f) \in Nat /\ DOMAIN f = 1..Len(f)
           /\ \A i \in 1..Len(f) : f[i] \in LineSet /\ f[i].more \in BOOLEAN
<1>1. Len(f) \in Nat /\ DOMAIN f = 1..Len(f) /\ \A i \in 1..Len(f) : f[i] \in LineSet
  OBVIOUS
<1> QED BY <1>1 DEF LineSet

\* A line that ends here: the next one is a head, and the line that ends is the only
\* one between them.
LEMMA LineEnds ==
    ASSUME NEW f \in Seq(LineSet), NEW k \in 1..Len(f), NEW h, HeadOf(f, k, h), ~f[k].more
    PROVE  HeadOf(f, k + 1, k + 1) /\ Before(f, k + 1) = Before(f, h) \cup {h}
           /\ h \notin Before(f, h) /\ \A i \in Before(f, h) : i < h
<1>1. /\ Len(f) \in Nat /\ DOMAIN f = 1..Len(f)
      /\ h \in 1..k /\ IsHead(f, h) /\ \A j \in h..(k - 1) : f[j].more
  BY LineNumbers DEF HeadOf
<1>2. HeadOf(f, k + 1, k + 1)
  <2>1. (k + 1) - 1 = k /\ k + 1 \in 1..(k + 1) /\ (k + 1)..k = {}
    BY <1>1
  <2> QED BY <2>1 DEF HeadOf, IsHead
<1>3. h \in Before(f, k + 1)
  BY <1>1 DEF Before, Heads, IsHead
<1>4. \A i \in Before(f, h) : i \in Before(f, k + 1)
  BY <1>1 DEF Before, Heads
<1>5. ASSUME NEW i \in Before(f, k + 1), i # h PROVE i \in Before(f, h)
  <2>1. i \in Heads(f) /\ i \in 1..Len(f) /\ i <= k
    BY <1>1 DEF Before, Heads
  <2>2. ~(i > h)
    <3>1. SUFFICES ASSUME i > h PROVE FALSE
      OBVIOUS
    <3>2. i - 1 \in h..(k - 1) /\ i # 1
      BY <1>1, <2>1, <3>1
    <3>3. f[i - 1].more
      BY <1>1, <3>2
    <3> QED BY <2>1, <3>2, <3>3 DEF Heads
  <2>3. i < h
    BY <1>1, <1>5, <2>1, <2>2
  <2> QED BY <2>1, <2>3 DEF Before
<1>6. h \notin Before(f, h) /\ \A i \in Before(f, h) : i < h
  BY <1>1 DEF Before
<1> QED BY <1>2, <1>3, <1>4, <1>5, <1>6

\* A line before a head is complete.
LEMMA BeforeComplete ==
    ASSUME NEW f \in Seq(LineSet), NEW h \in 1..(Len(f) + 1), IsHead(f, h)
    PROVE  Before(f, h) \subseteq Complete(f)
<1>1. Len(f) \in Nat /\ DOMAIN f = 1..Len(f)
  BY LineNumbers
<1>2. SUFFICES ASSUME NEW i \in Before(f, h) PROVE i \in Complete(f)
  OBVIOUS
<1>3. i \in Heads(f) /\ i \in 1..Len(f) /\ i < h
  BY <1>1 DEF Before, Heads
<1>4. h # 1 /\ h - 1 \in i..Len(f)
  BY <1>1, <1>3
<1>5. ~f[h - 1].more
  BY <1>4 DEF IsHead
<1> QED BY <1>3, <1>4, <1>5 DEF Complete

\* At the end of the file the complete lines are those before what is left of it.
LEMMA AllComplete ==
    ASSUME NEW f \in Seq(LineSet), NEW h, HeadOf(f, Len(f) + 1, h)
    PROVE  Complete(f) = Before(f, h)
<1>1. /\ Len(f) \in Nat /\ DOMAIN f = 1..Len(f) /\ h \in 1..(Len(f) + 1) /\ IsHead(f, h)
      /\ \A j \in h..Len(f) : f[j].more
  <2>1. Len(f) \in Nat /\ DOMAIN f = 1..Len(f) /\ (Len(f) + 1) - 1 = Len(f)
    BY LineNumbers
  <2> QED BY <2>1 DEF HeadOf
<1>2. Before(f, h) \subseteq Complete(f)
  BY <1>1, BeforeComplete
<1>3. ASSUME NEW i \in Complete(f) PROVE i \in Before(f, h)
  <2>1. PICK j \in i..Len(f) : ~f[j].more
    BY DEF Complete
  <2>2. i \in Heads(f) /\ i \in 1..Len(f)
    BY <1>1 DEF Complete, Heads
  <2>3. ~(i >= h)
    BY <1>1, <2>1, <2>2
  <2>4. i < h
    BY <1>1, <2>2, <2>3
  <2> QED BY <2>2, <2>4 DEF Before
<1> QED BY <1>2, <1>3

\* The greatest of a set and a number above all of it.
LEMMA MaxAdded ==
    ASSUME NEW S, NEW h \in Int, \A i \in S : i \in Int /\ i < h
    PROVE  Max(S \cup {h}) = h
<1>1. h \in S \cup {h} /\ \A y \in S \cup {h} : h >= y
  OBVIOUS
<1>2. \A x \in S \cup {h} : (\A y \in S \cup {h} : x >= y) => x = h
  OBVIOUS
<1> QED BY <1>1, <1>2, Zenon DEF Max

\* A complete line with a section changes the section, no other does.
LEMMA SectionStep ==
    ASSUME NEW f, NEW h \in Int, NEW k, Before(f, k) = Before(f, h) \cup {h},
           \A i \in Before(f, h) : i \in Int /\ i < h
    PROVE  SectionBefore(f, k) = IF f[h].kind = "section" THEN f[h].name ELSE SectionBefore(f, h)
<1>1. CASE f[h].kind = "section"
  <2>1. SectionsBefore(f, k) = SectionsBefore(f, h) \cup {h}
    BY <1>1 DEF SectionsBefore
  <2>2. \A i \in SectionsBefore(f, h) : i \in Int /\ i < h
    BY DEF SectionsBefore
  <2>3. Max(SectionsBefore(f, k)) = h
    BY <2>1, <2>2, MaxAdded
  <2> QED BY <1>1, <2>1, <2>3 DEF SectionBefore
<1>2. CASE f[h].kind # "section"
  <2>1. SectionsBefore(f, k) = SectionsBefore(f, h)
    BY <1>2 DEF SectionsBefore
  <2> QED BY <1>2, <2>1 DEF SectionBefore
<1> QED BY <1>1, <1>2

\* A complete line with a value for a setting, in the setting's section, changes what
\* the file says of it, no other does.
LEMMA SaysStep ==
    ASSUME NEW f, NEW h \in Int, NEW k, Before(f, k) = Before(f, h) \cup {h},
           \A i \in Before(f, h) : i \in Int /\ i < h, NEW s
    PROVE  SaysBefore(f, k, s) =
              IF f[h].kind = "value" /\ f[h].name = s /\ SectionBefore(f, h) = SectionOf(s)
              THEN f[h].val ELSE SaysBefore(f, h, s)
<1> DEFINE says == f[h].kind = "value" /\ f[h].name = s /\ SectionBefore(f, h) = SectionOf(s)
<1>1. CASE says
  <2>1. SaidBefore(f, k, s) = SaidBefore(f, h, s) \cup {h}
    BY <1>1 DEF SaidBefore
  <2>2. \A i \in SaidBefore(f, h, s) : i \in Int /\ i < h
    BY DEF SaidBefore
  <2>3. Max(SaidBefore(f, k, s)) = h
    BY <2>1, <2>2, MaxAdded
  <2> QED BY <1>1, <2>1, <2>3 DEF SaysBefore
<1>2. CASE ~says
  <2>1. SaidBefore(f, k, s) = SaidBefore(f, h, s)
    BY <1>2 DEF SaidBefore
  <2> QED BY <1>2, <2>1 DEF SaysBefore
<1> QED BY <1>1, <1>2

\* Before the first line there is no section, and the defaults hold.
LEMMA NothingSaid ==
    ASSUME NEW f \in Seq(LineSet)
    PROVE  SectionBefore(f, 1) = NoSection /\ \A s : SaysBefore(f, 1, s) = Default[s]
<1>1. Before(f, 1) = {}
  BY LineNumbers DEF Before, Heads
<1>2. SectionsBefore(f, 1) = {} /\ \A s : SaidBefore(f, 1, s) = {}
  BY <1>1 DEF SectionsBefore, SaidBefore
<1> QED BY <1>2 DEF SectionBefore, SaysBefore

\* When all complete lines are read, what has been said is what the file says.
LEMMA SaysAll ==
    ASSUME NEW f \in Seq(LineSet), NEW h, Complete(f) = Before(f, h), NEW s
    PROVE  SaysBefore(f, h, s) = Says(f, s)
<1>1. Len(f) \in Nat /\ DOMAIN f = 1..Len(f)
  BY LineNumbers
<1>2. ASSUME NEW i \in Complete(f) PROVE SectionAt(f, i) = SectionBefore(f, i)
  <2>1. i \in 1..(Len(f) + 1) /\ IsHead(f, i)
    BY <1>1 DEF Complete, Heads, IsHead
  <2>2. Before(f, i) \subseteq Complete(f)
    BY <2>1, BeforeComplete
  <2>3. Complete(f) \subseteq Heads(f)
    BY DEF Complete
  <2>4. SectionsBefore(f, i) = {j \in Complete(f) : j < i /\ f[j].kind = "section"}
    BY <2>2, <2>3 DEF SectionsBefore, Before
  <2> QED BY <2>4 DEF SectionAt, SectionBefore
<1>3. SaidBefore(f, h, s) = {i \in Complete(f) : /\ f[i].kind = "value" /\ f[i].name = s
                                                 /\ SectionAt(f, i) = SectionOf(s)}
  BY <1>2 DEF SaidBefore
<1> QED BY <1>3 DEF SaysBefore, Says

-----------------------------------------------------------------------------
(* Types *)

\* What a slot holds when every step has kept its type; a dictionary being filled has room.
Typed == TypeOK /\ dict \in Dicts /\ (boot = "read" => Size(dict) > 0)

\* A new dictionary is a sound one without entries.
LEMMA NewDictionary ==
    /\ dictionary_new \in Dicts /\ Sound(dictionary_new) /\ dictionary_new.n <= Size(dictionary_new)
    /\ \A k \in Keys : \A def : dictionary_get(dictionary_new, k, def) = def
    /\ NoDict \in Dicts /\ NoDict.n <= Size(NoDict)
<1> DEFINE d == dictionary_new
<1>1. DICTMINSZ \in Nat /\ DICTMINSZ > 0
  BY ConfigurationAssumption
<1>2. Empty \in Slots /\ Empty.key = Nothing
  BY DEF Empty, Slots, Vals
<1>3. /\ EmptySlots(DICTMINSZ) \in Seq(Slots) /\ Len(EmptySlots(DICTMINSZ)) = DICTMINSZ
      /\ \A i \in 1..DICTMINSZ : EmptySlots(DICTMINSZ)[i] = Empty
  BY <1>1, <1>2 DEF EmptySlots
<1>4. /\ d \in Dicts /\ Size(d) = DICTMINSZ /\ d.n = 0
      /\ \A i \in 1..Size(d) : d.slot[i].key = Nothing
  <2> HIDE DEF EmptySlots
  <2> QED BY <1>2, <1>3 DEF dictionary_new, Dicts, Size
<1> HIDE DEF d
<1>5. Used(d) = {}
  BY <1>4 DEF Used
<1>6. Sound(d) /\ d.n <= Size(d)
  <2>1. Cardinality({}) = 0
    BY FS_EmptySet
  <2> QED BY <1>1, <1>4, <1>5, <2>1 DEF Sound
<1>7. ASSUME NEW k \in Keys, NEW def PROVE dictionary_get(d, k, def) = def
  <2>1. k # Nothing
    BY KeyFacts
  <2>2. At(d, k) = {}
    BY <1>4, <2>1 DEF At
  <2>3. SlotOf(d, k) = 0
    BY <1>4, <2>2, SlotFacts
  <2> QED BY <2>3 DEF dictionary_get
<1>8. NoDict \in Dicts /\ NoDict.n <= Size(NoDict)
  <2>1. <<>> \in Seq(Slots) /\ Len(<<>>) = 0
    OBVIOUS
  <2> QED BY <2>1 DEF NoDict, Dicts, Size
<1> QED BY <1>4, <1>6, <1>7, <1>8 DEF d

\* What dictionary_set leaves when an allocation fails is a dictionary, too.
LEMMA SetType ==
    ASSUME NEW d \in Dicts, Size(d) > 0, d.n <= Size(d), NEW k \in Keys, NEW v \in Vals,
           NEW e \in SetShort(d, k, v) \cup {dictionary_set(d, k, v)}
    PROVE  e \in Dicts /\ Size(e) > 0 /\ e.n <= Size(e)
<1> DEFINE g == Grown(d, k)
           Good(x) == x \in Dicts /\ Size(x) > 0 /\ x.n <= Size(x)
<1>1. /\ g \in Dicts /\ g.n = d.n /\ Size(g) >= Size(d) /\ g.n <= Size(g)
      /\ \A c : c # Nothing => At(g, c) = At(d, c)
      /\ At(d, k) = {} => g.n < Size(g)
  BY GrownFacts
<1>2. k # Nothing
  BY KeyFacts
<1> HIDE DEF g
<1>3. /\ g.slot \in Seq(Slots) /\ g.n \in Nat /\ Size(g) \in Nat /\ Size(g) = Len(g.slot)
      /\ Size(g) > 0
  BY <1>1 DEF Dicts, Size
<1>4. ASSUME NEW x \in Dicts, Size(x) = Size(g),
             x.n = g.n \/ (x.n = g.n + 1 /\ SlotOf(g, k) = 0)
      PROVE  Good(x)
  <2>1. SlotOf(g, k) = 0 => g.n < Size(g)
    BY <1>1, <1>2, SlotFacts
  <2> QED BY <1>1, <1>3, <1>4, <2>1
<1>5. ASSUME NEW i, NEW r \in Slots
      PROVE  LET s == [g.slot EXCEPT ![i] = r] IN s \in Seq(Slots) /\ Len(s) = Len(g.slot)
  <2> DEFINE s == [g.slot EXCEPT ![i] = r]
             n == Len(g.slot)
  <2>1. n \in Nat /\ g.slot \in [1..n -> Slots]
    BY <1>3
  <2>2. s \in [1..n -> Slots]
    <3> HIDE DEF n
    <3> QED BY <2>1
  <2> HIDE DEF s, n
  <2>3. s \in Seq(Slots) /\ Len(s) = n
    BY <2>1, <2>2
  <2> QED BY <2>3 DEF s, n
<1>6. ASSUME NEW w \in Vals PROVE Good(Put(g, k, w))
  <2> DEFINE x == Put(g, k, w)
  <2>1. CASE SlotOf(g, k) # 0
    <3> DEFINE p == SlotOf(g, k)
               s == [g.slot EXCEPT ![p].val = w]
    <3>1. p \in 1..Size(g)
      BY <1>1, <2>1, SlotFacts DEF At
    <3>2. g.slot[p] \in Slots
      BY <1>3, <3>1
    <3>3. [g.slot[p] EXCEPT !.val = w] \in Slots
      BY <3>2 DEF Slots
    <3>4. x = [g EXCEPT !.slot = s]
      BY <2>1 DEF Put
    <3>5. s \in Seq(Slots) /\ Len(s) = Len(g.slot)
      <4> HIDE DEF p
      <4>1. s = [g.slot EXCEPT ![p] = [g.slot[p] EXCEPT !.val = w]]
        OBVIOUS
      <4> QED BY <1>5, <3>3, <4>1
    <3> HIDE DEF s, x
    <3>6. x \in Dicts /\ x.slot = s /\ x.n = g.n
      BY <1>1, <3>4, <3>5 DEF Dicts
    <3>7. Size(x) = Size(g)
      BY <1>3, <3>5, <3>6 DEF Size
    <3> QED BY <1>4, <3>6, <3>7 DEF x
  <2>2. CASE SlotOf(g, k) = 0
    <3> DEFINE p == FreeSlot(g)
               r == [key |-> k, val |-> w]
               s == [g.slot EXCEPT ![p] = r]
               n == g.n + 1
    <3>1. r \in Slots
      BY DEF Slots
    <3>2. x = [g EXCEPT !.slot = s, !.n = n]
      BY <2>2 DEF Put
    <3>3. s \in Seq(Slots) /\ Len(s) = Len(g.slot) /\ n \in Nat
      <4>1. n \in Nat
        BY <1>3
      <4> HIDE DEF p, r
      <4> QED BY <1>5, <3>1, <4>1
    <3> HIDE DEF s, x, n
    <3>4. x \in Dicts /\ x.slot = s /\ x.n = n
      BY <1>1, <3>2, <3>3 DEF Dicts
    <3>5. Size(x) = Size(g)
      BY <1>3, <3>3, <3>4 DEF Size
    <3> QED BY <1>4, <2>2, <3>4, <3>5 DEF x, n
  <2> QED BY <2>1, <2>2
<1>7. ASSUME SlotOf(d, k) = 0
      PROVE  Good([g EXCEPT !.slot[FreeSlot(g)].val = v, !.n = @ + 1])
  <2> DEFINE p == FreeSlot(g)
             s == [g.slot EXCEPT ![p].val = v]
             n == g.n + 1
             x == [g EXCEPT !.slot[p].val = v, !.n = @ + 1]
  <2>1. SlotOf(g, k) = 0
    BY <1>1, <1>2, <1>7, SlotFacts
  <2>2. x = [g EXCEPT !.slot = s, !.n = n]
    OBVIOUS
  <2>3. s \in Seq(Slots) /\ Len(s) = Len(g.slot) /\ n \in Nat
    <3>1. n \in Nat
      BY <1>3
    <3>2. s = [g.slot EXCEPT ![p] = [g.slot[p] EXCEPT !.val = v]]
      OBVIOUS
    <3> HIDE DEF p
    <3>3. CASE p \in 1..Len(g.slot)
      <4>1. g.slot[p] \in Slots
        BY <1>3, <3>3
      <4>2. [g.slot[p] EXCEPT !.val = v] \in Slots
        BY <4>1 DEF Slots
      <4> QED BY <1>5, <3>1, <3>2, <4>2
    <3>4. CASE p \notin 1..Len(g.slot)
      <4>1. s = g.slot
        BY <1>3, <3>2, <3>4
      <4> QED BY <1>3, <3>1, <4>1
    <3> QED BY <3>3, <3>4
  <2> HIDE DEF s, x, n
  <2>4. x \in Dicts /\ x.slot = s /\ x.n = n
    BY <1>1, <2>2, <2>3 DEF Dicts
  <2>5. Size(x) = Size(g)
    BY <1>3, <2>3, <2>4 DEF Size
  <2> QED BY <1>4, <2>1, <2>4, <2>5 DEF x, n
<1>8. v \in Vals /\ Nothing \in Vals
  BY DEF Vals
<1>9. \/ e = Put(g, k, v) \/ e = Put(g, k, Nothing)
      \/ SlotOf(d, k) = 0 /\ e = [g EXCEPT !.slot[FreeSlot(g)].val = v, !.n = @ + 1]
  BY DEF SetShort, dictionary_set, g
<1> HIDE DEF Good
<1>10. Good(e)
  BY <1>6, <1>7, <1>8, <1>9
<1> QED BY <1>10 DEF Good

\* The elements of a sequence.
LEMMA Elements ==
    ASSUME NEW S, NEW s \in Seq(S)
    PROVE  /\ Len(s) \in Nat /\ \A i \in 1..Len(s) : s[i] \in S
           /\ s # <<>> => s[1] \in S
OBVIOUS

\* The line that is complete when line at of the file is read.
LEMMA LineType ==
    ASSUME Typed, Reading, file # Missing
    PROVE  /\ file \in Seq(LineSet)
           /\ at # 0 => /\ at \in 1..Len(file) /\ file[at] \in LineSet
                        /\ Joined(file[at]) \in LineSet
<1>1. file \in Seq(LineSet) /\ at \in Nat /\ at <= Len(file) /\ begun \in Seq(LineSet)
  BY DEF Typed, TypeOK, Reading
<1>2. begun # <<>> => begun[1] \in LineSet
  BY <1>1, Elements
<1>3. at # 0 => at \in 1..Len(file) /\ file[at] \in LineSet
  <2>1. Len(file) \in Nat /\ \A i \in 1..Len(file) : file[i] \in LineSet
    BY <1>1, Elements
  <2> QED BY <1>1, <2>1
<1> QED BY <1>1, <1>2, <1>3 DEF Joined

\* What a line with an entry stores, and where.
LEMMA EntryType ==
    ASSUME NEW l \in LineSet, section \in STRING
    PROVE  Entry(l) \in Keys /\ Content(l) \in Vals /\ l.name \in STRING
<1>1. l.name \in STRING /\ l.val \in Int \cup {Text}
  BY DEF LineSet
<1>2. Content(l) \in Vals
  BY <1>1 DEF Content, Vals
<1>3. Entry(l) \in Keys
  BY <1>1, KeyFacts DEF Entry
<1> QED BY <1>1, <1>2, <1>3

\* The setters keep every setting in its range.
LEMMA ConvertType ==
    ASSUME NEW v \in Int \cup {Text}
    PROVE  /\ \A s \in Angles : Convert(s, v) \in -MaxAngle..MaxAngle
           /\ \A s \in Times : Convert(s, v) \in 0..MaxTime
<1>1. Number(v) \in Int
  BY DEF Number
<1>2. MaxAngle \in Nat /\ MaxTime \in Nat /\ MaxTime > 0
  BY ConfigurationAssumption
<1>3. \A a \in Int : ClampAngle(a) \in -MaxAngle..MaxAngle
  BY <1>2 DEF ClampAngle
<1>4. \A t \in Int : ClampTime(t) \in 0..MaxTime
  BY <1>2 DEF ClampTime
<1>5. \A s \in Angles : s \notin Times /\ s \notin Plain
  BY DEF Angles, Times, Plain
<1>6. \A s \in Times : s \notin Angles /\ s \notin Plain
  BY DEF Angles, Times, Plain
<1>7. \A s \in Angles : Convert(s, v) = ClampAngle(Number(v))
  BY <1>5 DEF Convert
<1>8. \A s \in Times : Convert(s, v) = ClampTime(Number(v))
  BY <1>6 DEF Convert
<1> QED BY <1>1, <1>3, <1>4, <1>7, <1>8

\* A file that is begun and not finished is a file.
LEMMA PartOfExample ==
    ASSUME NEW n \in 0..(Len(Example) - 1)
    PROVE  SubSeq(Example, 1, n) \in Seq(LineSet)
<1>1. Example \in Seq(LineSet)
  BY ConfigurationAssumption
<1>2. \A i \in 1..n : Example[i] \in LineSet
  BY <1>1
<1>3. 1 \in Int /\ n \in Int
  BY <1>1
<1> QED BY <1>2, <1>3, SubSeqProperties

-----------------------------------------------------------------------------
(* The inductive invariant *)

\* What the reader has, when h is the head of what its buffer holds: wrong lines have been
\* counted only if there are some, and unless an allocation has failed the dictionary
\* gives for every setting what the lines before h say.
ReadTo(h) ==
    /\ HeadOf(file, at, h)
    /\ begun = IF h = at THEN <<>> ELSE <<file[h]>>
    /\ errs > 0 => \E i \in Before(file, h) : file[i].kind = "bad"
    /\ ~hit => /\ Sound(dict)
               /\ section = SectionBefore(file, h)
               /\ \A s \in Settings : Got(s) = SaysBefore(file, h, s)

\* From the reader to the settings: the dictionary that is complete says what the file
\* says, and only a file that cannot be read is about to be written over.
Loading ==
    /\ boot = "read" => /\ file # Missing /\ at <= Len(file) + 1
                        /\ \E h \in 1..at : ReadTo(h)
    /\ boot = "close" /\ errs > 0 => Unreadable(file)
    /\ boot \in {"close", "take"} /\ ~hit => \A s \in Settings : Got(s) = Says(file, s)
    /\ boot = "create" => Unreadable(file) \/ hit
    /\ ReadsWholeFile

\* The bound on faults, and what a fault does.
LEMMA FaultType ==
    ASSUME Typed, Fault \/ NoFault \/ UNCHANGED faults
    PROVE  faults' \in 0..MaxFaults
<1>1. MaxFaults \in Nat /\ faults \in 0..MaxFaults
  BY ConfigurationAssumption DEF Typed, TypeOK
<1>2. CASE Fault
  BY <1>1, <1>2 DEF Fault
<1>3. CASE NoFault \/ UNCHANGED faults
  BY <1>1, <1>3 DEF NoFault
<1> QED BY <1>2, <1>3

\* Steps that leave file, reader, dictionary and settings alone keep their types.
LEMMA OtherTyped ==
    ASSUME Typed, UNCHANGED <<file, load, given>>, boot' \in Boots \ {"read"}, again' \in BOOLEAN,
           hit' \in BOOLEAN, faults' \in 0..MaxFaults
    PROVE  Typed'
BY DEF Typed, TypeOK, load

\* So do steps of the reader within the file.
LEMMA ReaderTyped ==
    ASSUME Typed, UNCHANGED <<again, file, given>>, boot' \in Boots, at' \in Nat,
           begun' \in Seq(LineSet), Len(begun') <= 1, section' \in STRING, errs' \in Nat,
           dict' \in Dicts, dict'.n <= Size(dict'), boot' = "read" => Size(dict') > 0,
           hit' \in BOOLEAN, faults' \in 0..MaxFaults
    PROVE  Typed'
BY DEF Typed, TypeOK

\* What a failing allocation or none leaves of the history of faults.
LEMMA HitType ==
    ASSUME Typed, FaultHit \/ NoFault
    PROVE  hit' \in BOOLEAN /\ faults' \in 0..MaxFaults
<1>1. hit \in BOOLEAN
  BY DEF Typed, TypeOK
<1>2. CASE FaultHit
  BY <1>2, FaultType DEF FaultHit
<1>3. CASE NoFault
  <2>1. hit' = hit
    BY <1>3 DEF NoFault
  <2> QED BY <1>1, <1>3, <2>1, FaultType
<1> QED BY <1>2, <1>3

\* Every step keeps the types.
LEMMA TypedKept ==
    ASSUME Typed, Loading, [Next]_vars
    PROVE  Typed'
<1>1. /\ boot \in Boots /\ again \in BOOLEAN /\ hit \in BOOLEAN /\ at \in Nat
      /\ section \in STRING /\ errs \in Nat /\ dict \in Dicts /\ dict.n <= Size(dict)
      /\ begun \in Seq(LineSet) /\ Len(begun) <= 1
      /\ file = Missing \/ file \in Seq(LineSet)
      /\ faults \in 0..MaxFaults
  BY DEF Typed, TypeOK
<1>2. {"down", "open", "close", "take", "create", "serving"} \subseteq Boots \ {"read"}
      /\ "read" \in Boots
  BY DEF Boots
<1>3. LoadFails => boot' \in Boots \ {"read"}
  BY <1>2 DEF LoadFails
<1>4. CASE Launch
  <2>1. /\ boot' = "open" /\ again' = FALSE /\ given' = [s \in Settings |-> 0] /\ hit' = FALSE
        /\ UNCHANGED <<file, load, faults>>
    BY <1>4 DEF Launch
  <2>2. MaxAngle \in Nat /\ MaxTime \in Nat
    BY ConfigurationAssumption
  <2>3. /\ DOMAIN given' = Settings
        /\ \A s \in Angles : given'[s] \in -MaxAngle..MaxAngle
        /\ \A s \in Times : given'[s] \in 0..MaxTime
    BY <2>1, <2>2 DEF Settings
  <2>4. again' \in BOOLEAN /\ hit' \in BOOLEAN
    BY <2>1
  <2>5. boot' \in Boots /\ boot' # "read"
    BY <1>2, <2>1
  <2> QED BY <1>1, <2>1, <2>3, <2>4, <2>5 DEF Typed, TypeOK, load
<1>5. CASE Kill
  <2>1. boot' = "down" /\ Fault /\ UNCHANGED <<again, file, load, given, hit>>
    BY <1>5 DEF Kill
  <2>2. faults' \in 0..MaxFaults
    BY <2>1, FaultType
  <2>3. hit' = hit /\ again' = again
    BY <2>1
  <2> QED BY <1>1, <1>2, <2>1, <2>2, <2>3, OtherTyped
<1>6. CASE Open
  <2>1. /\ boot' = "read" /\ at' = 1 /\ begun' = <<>> /\ section' = NoSection /\ errs' = 0
        /\ dict' = dictionary_new /\ NoFault /\ UNCHANGED <<again, file, given>>
    BY <1>6 DEF Open
  <2>2. NoSection \in STRING
    BY SettingNames
  <2>3. <<>> \in Seq(LineSet) /\ Len(<<>>) <= 1
    OBVIOUS
  <2>4. dict' \in Dicts /\ dict'.n <= Size(dict') /\ Size(dict') > 0
    BY <2>1, NewDictionary DEF Sound
  <2>5. hit' \in BOOLEAN /\ faults' \in 0..MaxFaults
    BY <2>1, HitType
  <2> QED BY <1>2, <2>1, <2>2, <2>3, <2>4, <2>5, ReaderTyped
<1>7. CASE CannotOpen \/ Dies \/ TooLong \/ EndOfFile \/ Close
  <2>1. boot' \in Boots \ {"read"} /\ (FaultHit \/ NoFault) /\ UNCHANGED <<again, file, load, given>>
    BY <1>2, <1>3, <1>7 DEF CannotOpen, Dies, TooLong, EndOfFile, Close
  <2>2. hit' \in BOOLEAN /\ faults' \in 0..MaxFaults
    BY <2>1, HitType
  <2>3. again' \in BOOLEAN
    BY <1>1, <2>1
  <2> QED BY <2>1, <2>2, <2>3, OtherTyped
<1>8. CASE BeginsMore
  <2>1. /\ Reading /\ begun' = <<Joined(file[at])>> /\ at' = at + 1 /\ NoFault
        /\ UNCHANGED <<boot, again, file, section, errs, dict, given>>
    BY <1>8 DEF BeginsMore
  <2>2. at \in 1..Len(file) /\ Joined(file[at]) \in LineSet /\ boot = "read"
    BY <1>1, <2>1, LineType DEF Loading, Reading
  <2>3. begun' \in Seq(LineSet) /\ Len(begun') <= 1
    BY <2>1, <2>2, ShortSequences
  <2>4. hit' \in BOOLEAN /\ faults' \in 0..MaxFaults
    BY <2>1, HitType
  <2>5. Size(dict) > 0
    BY <2>2 DEF Typed
  <2> QED BY <1>1, <2>1, <2>3, <2>4, <2>5, ReaderTyped
<1>9. ASSUME NEW l, NEW kinds, Line(kinds, l), FaultHit \/ NoFault, boot' \in {"read", "close"},
             errs' \in {errs, errs + 1},
             \/ UNCHANGED <<section, dict>>
             \/ /\ section' = IF l.kind = "section" THEN l.name ELSE section
                /\ \/ dict' = dict
                   \/ dict' = dictionary_set(dict, Entry(l), Content(l))
                   \/ dict' \in SetShort(dict, Entry(l), Content(l))
      PROVE  Typed'
  <2>1. /\ Reading /\ l = Joined(file[at]) /\ begun' = <<>> /\ at' = at + 1
        /\ UNCHANGED <<again, file, given>>
    BY <1>9 DEF Line
  <2>2. boot = "read" /\ l \in LineSet
    BY <1>1, <2>1, LineType DEF Loading, Reading
  <2>3. Size(dict) > 0
    BY <2>2 DEF Typed
  <2>4. Entry(l) \in Keys /\ Content(l) \in Vals /\ l.name \in STRING
    BY <1>1, <2>2, EntryType
  <2>5. section' \in STRING
    BY <1>1, <1>9, <2>4
  <2>6. dict' \in Dicts /\ dict'.n <= Size(dict') /\ Size(dict') > 0
    <3>1. CASE dict' = dict
      BY <1>1, <2>3, <3>1
    <3>2. CASE dict' # dict
      <4>1. dict' \in SetShort(dict, Entry(l), Content(l))
                        \cup {dictionary_set(dict, Entry(l), Content(l))}
        BY <1>9, <3>2
      <4> QED BY <1>1, <2>3, <2>4, <4>1, SetType
    <3> QED BY <3>1, <3>2
  <2>7. <<>> \in Seq(LineSet) /\ Len(<<>>) <= 1
    OBVIOUS
  <2>8. hit' \in BOOLEAN /\ faults' \in 0..MaxFaults
    BY <1>9, HitType
  <2>9. errs' \in Nat /\ at' \in Nat /\ boot' \in Boots
    BY <1>1, <1>2, <1>9, <2>1
  <2> QED BY <2>1, <2>5, <2>6, <2>7, <2>8, <2>9, ReaderTyped
<1>10. ASSUME NEW l, OtherLine(l) \/ EntryLine(l) \/ LineUnread(l) \/ CannotGrow(l)
       PROVE  Typed'
  <2>1. \/ Line({"noise", "bad"}, l) \/ Line({"section", "value"}, l)
        \/ Line({"section", "value", "bad"}, l)
    BY <1>10 DEF OtherLine, EntryLine, LineUnread, CannotGrow
  <2>2. boot = "read"
    BY <2>1 DEF Line, Reading
  <2>3. FaultHit \/ NoFault
    BY <1>10 DEF OtherLine, EntryLine, LineUnread, CannotGrow
  <2>4. boot' \in {"read", "close"} /\ errs' \in {errs, errs + 1}
    BY <1>10, <2>2 DEF OtherLine, EntryLine, LineUnread, CannotGrow
  <2>5. \/ UNCHANGED <<section, dict>>
        \/ /\ section' = IF l.kind = "section" THEN l.name ELSE section
           /\ \/ dict' = dict
              \/ dict' = dictionary_set(dict, Entry(l), Content(l))
              \/ dict' \in SetShort(dict, Entry(l), Content(l))
    BY <1>10 DEF OtherLine, EntryLine, LineUnread, CannotGrow
  <2> QED BY <1>9, <2>1, <2>3, <2>4, <2>5
<1>11. CASE parse_ini_file
  <2>1. NoFault /\ UNCHANGED <<again, file, load>>
    BY <1>11 DEF parse_ini_file
  <2>2. hit' \in BOOLEAN /\ faults' \in 0..MaxFaults /\ again' \in BOOLEAN
    BY <1>1, <2>1, HitType
  <2>3. CASE given' = given /\ boot' = "down"
    BY <1>2, <2>1, <2>2, <2>3, OtherTyped
  <2>4. CASE /\ boot' = "serving" /\ given' = [s \in Settings |-> Convert(s, Got(s))]
             /\ \A s \in Settings : Got(s) # Nothing
    <3>1. ASSUME NEW s \in Settings PROVE Got(s) \in Int \cup {Text}
      <4>1. Got(s) \in Vals \cup {Default[s]}
        BY <1>1, GetType DEF Got
      <4>2. Default[s] \in Int
        BY ConfigurationAssumption
      <4> QED BY <2>4, <4>1, <4>2 DEF Vals
    <3>2. DOMAIN given' = Settings /\ \A s \in Settings : given'[s] = Convert(s, Got(s))
      BY <2>4
    <3>3. Angles \subseteq Settings /\ Times \subseteq Settings
      BY DEF Settings
    <3>4. \A s \in Angles : given'[s] \in -MaxAngle..MaxAngle
      BY <3>1, <3>2, <3>3, ConvertType
    <3>5. \A s \in Times : given'[s] \in 0..MaxTime
      BY <3>1, <3>2, <3>3, ConvertType
    <3>6. boot' \in Boots /\ boot' # "read"
      BY <1>2, <2>4
    <3>7. UNCHANGED <<file, at, begun, section, errs, dict>>
      BY <2>1 DEF load
    <3> QED BY <1>1, <2>2, <3>2, <3>4, <3>5, <3>6, <3>7 DEF Typed, TypeOK
  <2> QED BY <1>11, <2>3, <2>4 DEF parse_ini_file
<1>12. CASE create_example_ini_file \/ KilledWhileWriting
  <2>1. file' = Missing \/ file' \in Seq(LineSet)
    <3>1. Example \in Seq(LineSet)
      BY ConfigurationAssumption
    <3> QED BY <1>1, <1>12, <3>1, PartOfExample
            DEF create_example_ini_file, KilledWhileWriting, Overwritten
  <2>2. hit' \in BOOLEAN /\ faults' \in 0..MaxFaults
    <3>1. CASE create_example_ini_file
      BY <3>1, HitType DEF create_example_ini_file
    <3>2. CASE KilledWhileWriting
      <4>1. hit' = hit /\ Fault
        BY <3>2 DEF KilledWhileWriting
      <4> QED BY <1>1, <4>1, FaultType
    <3> QED BY <1>12, <3>1, <3>2
  <2>3. boot' \in Boots /\ boot' # "read" /\ again' \in BOOLEAN
    <3>1. boot' \in {"open", "down"} /\ (again' = TRUE \/ again' = again)
      BY <1>12 DEF create_example_ini_file, KilledWhileWriting
    <3> QED BY <1>1, <1>2, <3>1
  <2>4. UNCHANGED <<at, begun, section, errs, dict, given>>
    BY <1>12 DEF create_example_ini_file, KilledWhileWriting, load
  <2> QED BY <1>1, <2>1, <2>2, <2>3, <2>4 DEF Typed, TypeOK
<1>13. CASE UNCHANGED vars
  BY <1>13 DEF vars, load, Typed, TypeOK
<1> QED
  BY <1>4, <1>5, <1>6, <1>7, <1>8, <1>10, <1>11, <1>12, <1>13
     DEF Next, iniparser_load, Serving

-----------------------------------------------------------------------------
(* The invariant holds, step by step *)

\* Steps that leave the process with nothing of the file, or without a process.
LEMMA IdleLoads ==
    ASSUME boot' \in {"down", "open"}
    PROVE  Loading'
BY DEF Loading, ReadsWholeFile

\* A load that fails has met a file that cannot be read, or a call that failed.
LEMMA FailureLoads ==
    ASSUME LoadFails, Unreadable(file') \/ hit'
    PROVE  Loading'
<1>1. boot' \in {"down", "create"}
  BY DEF LoadFails
<1> QED BY <1>1 DEF Loading, ReadsWholeFile

\* A reader that stays within the file.
LEMMA ReaderLoads ==
    ASSUME boot' = "read", file' # Missing, at' <= Len(file') + 1,
           NEW h \in 1..at', ReadTo(h)'
    PROVE  Loading'
BY DEF Loading, ReadsWholeFile

\* The settings a dictionary gives are those it gave when it has not changed.
LEMMA GotSame ==
    ASSUME dict' = dict
    PROVE  \A s : Got(s)' = Got(s)
BY DEF Got

\* fopen succeeds: nothing is read yet.
LEMMA OpenLoads ==
    ASSUME Typed, Open
    PROVE  Loading'
<1>1. /\ file # Missing /\ boot' = "read" /\ at' = 1 /\ begun' = <<>> /\ section' = NoSection
      /\ errs' = 0 /\ dict' = dictionary_new /\ file' = file
  BY DEF Open
<1>2. file \in Seq(LineSet) /\ Len(file) \in Nat
  BY <1>1, LineNumbers DEF Typed, TypeOK
<1>3. HeadOf(file, 1, 1)
  BY DEF HeadOf, IsHead
<1>4. Sound(dictionary_new) /\ \A k \in Keys : \A def : dictionary_get(dictionary_new, k, def) = def
  BY NewDictionary
<1>5. SectionBefore(file, 1) = NoSection /\ \A s : SaysBefore(file, 1, s) = Default[s]
  BY <1>2, NothingSaid
<1>6. \A s \in Settings : Got(s)' = Default[s]
  <2>1. \A s \in Settings : <<SectionOf(s), s>> \in Keys
    BY SettingNames, KeyFacts
  <2> QED BY <1>1, <1>4, <2>1 DEF Got
<1>7. ReadTo(1)'
  BY <1>1, <1>3, <1>4, <1>5, <1>6 DEF ReadTo
<1> QED BY <1>1, <1>2, <1>7, ReaderLoads

\* A line that goes on: the buffer keeps what it began with.
LEMMA BeginsLoads ==
    ASSUME Typed, Loading, BeginsMore
    PROVE  Loading'
<1>1. /\ Reading /\ file[at].more /\ begun' = <<Joined(file[at])>> /\ at' = at + 1
      /\ UNCHANGED <<boot, file, section, errs, dict, hit>>
  BY DEF BeginsMore, NoFault
<1>2. boot = "read" /\ file # Missing /\ at \in Nat /\ at <= Len(file)
  BY <1>1 DEF Reading, Loading, Typed, TypeOK
<1>3. PICK h \in 1..at : ReadTo(h)
  BY <1>2 DEF Loading
<1>4. file \in Seq(LineSet) /\ Len(file) \in Nat
  BY <1>2, LineNumbers DEF Typed, TypeOK
<1>5. HeadOf(file, at, h) /\ begun = IF h = at THEN <<>> ELSE <<file[h]>>
  BY <1>3 DEF ReadTo
<1>6. HeadOf(file, at + 1, h)
  <2>1. \A j \in h..((at + 1) - 1) : file[j].more
    BY <1>1, <1>2, <1>5 DEF HeadOf
  <2> QED BY <1>2, <1>3, <1>5, <2>1 DEF HeadOf
<1>7. Joined(file[at]) = file[h]
  <2>1. CASE h = at
    BY <1>5, <2>1 DEF Joined
  <2>2. CASE h # at
    BY <1>5, <2>2 DEF Joined
  <2> QED BY <2>1, <2>2
<1>8. h # at + 1 /\ h \in 1..(at + 1)
  BY <1>2
<1>9. \A s : Got(s)' = Got(s)
  BY <1>1, GotSame
<1>10. begun' = IF h = at' THEN <<>> ELSE <<file'[h]>>
  BY <1>1, <1>7, <1>8
<1>11. ReadTo(h)'
  BY <1>1, <1>3, <1>6, <1>9, <1>10 DEF ReadTo
<1> QED BY <1>1, <1>2, <1>4, <1>8, <1>11, ReaderLoads

\* A line that is complete: it is the one its buffer began with, and the next one is
\* the head of a new one.
LEMMA LineComplete ==
    ASSUME Typed, file # Missing, NEW h \in 1..at, ReadTo(h), NEW l, NEW kinds, Line(kinds, l)
    PROVE  /\ file \in Seq(LineSet) /\ Len(file) \in Nat /\ at \in Nat /\ at <= Len(file)
           /\ l = file[h] /\ l \in LineSet /\ l.kind \in kinds
           /\ h \in 1..Len(file)
           /\ HeadOf(file, at + 1, at + 1)
           /\ Before(file, at + 1) = Before(file, h) \cup {h}
           /\ \A i \in Before(file, h) : i \in Int /\ i < h
           /\ file' = file /\ at' = at + 1 /\ begun' = <<>>
<1>1. /\ Reading /\ ~file[at].more /\ l = Joined(file[at]) /\ l.kind \in kinds
      /\ file' = file /\ at' = at + 1 /\ begun' = <<>>
  BY DEF Line
<1>2. file \in Seq(LineSet) /\ Len(file) \in Nat /\ at \in Nat /\ at <= Len(file)
  BY <1>1, LineNumbers DEF Reading, Typed, TypeOK
<1>3. HeadOf(file, at, h) /\ begun = IF h = at THEN <<>> ELSE <<file[h]>>
  BY DEF ReadTo
<1>4. at \in 1..Len(file) /\ h \in 1..Len(file)
  BY <1>2
<1>5. l = file[h]
  <2>1. CASE h = at
    BY <1>1, <1>3, <2>1 DEF Joined
  <2>2. CASE h # at
    BY <1>1, <1>3, <2>2 DEF Joined
  <2> QED BY <2>1, <2>2
<1>6. l \in LineSet
  BY <1>2, <1>4, <1>5, LineNumbers
<1>7. /\ HeadOf(file, at + 1, at + 1) /\ Before(file, at + 1) = Before(file, h) \cup {h}
      /\ \A i \in Before(file, h) : i < h
  BY <1>1, <1>2, <1>3, <1>4, LineEnds
<1>8. \A i \in Before(file, h) : i \in Int
  BY <1>2, LineNumbers DEF Before, Heads
<1> QED BY <1>1, <1>2, <1>4, <1>5, <1>6, <1>7, <1>8

\* After a complete line the reader has read to the next one, if it counted a line that
\* is wrong and, with every allocation made, has the section and the settings that the
\* lines up to this one say.
LEMMA LineLoads ==
    ASSUME Typed, file # Missing, NEW h \in 1..at, ReadTo(h), NEW l, NEW kinds, Line(kinds, l),
           boot' = "read",
           errs' > 0 => errs > 0 \/ l.kind = "bad",
           ~hit' => /\ Sound(dict')
                    /\ section' = IF l.kind = "section" THEN l.name ELSE SectionBefore(file, h)
                    /\ \A s \in Settings :
                          Got(s)' = IF /\ l.kind = "value" /\ l.name = s
                                       /\ SectionBefore(file, h) = SectionOf(s)
                                    THEN l.val ELSE SaysBefore(file, h, s)
    PROVE  Loading'
<1>1. /\ Len(file) \in Nat /\ at \in Nat /\ at <= Len(file)
      /\ l = file[h] /\ h \in 1..Len(file)
      /\ HeadOf(file, at + 1, at + 1)
      /\ Before(file, at + 1) = Before(file, h) \cup {h}
      /\ \A i \in Before(file, h) : i \in Int /\ i < h
      /\ file' = file /\ at' = at + 1 /\ begun' = <<>>
  BY LineComplete
<1>2. errs' > 0 => \E i \in Before(file, at + 1) : file[i].kind = "bad"
  <2>1. CASE l.kind = "bad"
    BY <1>1, <2>1
  <2>2. CASE errs > 0
    BY <1>1, <2>2 DEF ReadTo
  <2> QED BY <2>1, <2>2
<1>3. SectionBefore(file, at + 1) = IF l.kind = "section" THEN l.name ELSE SectionBefore(file, h)
  BY <1>1, SectionStep
<1>4. \A s \in Settings : SaysBefore(file, at + 1, s) =
         IF l.kind = "value" /\ l.name = s /\ SectionBefore(file, h) = SectionOf(s)
         THEN l.val ELSE SaysBefore(file, h, s)
  BY <1>1, SaysStep
<1>5. PICK k \in Int : k = at + 1
  BY <1>1
<1>6. begun' = IF k = at' THEN <<>> ELSE <<file'[k]>>
  BY <1>1, <1>5
<1>7. HeadOf(file', at', k)
  BY <1>1, <1>5
<1>8. ~hit' => /\ Sound(dict') /\ section' = SectionBefore(file', k)
               /\ \A s \in Settings : Got(s)' = SaysBefore(file', k, s)
  BY <1>1, <1>3, <1>4, <1>5
<1>9. ReadTo(k)'
  BY <1>1, <1>2, <1>5, <1>6, <1>7, <1>8 DEF ReadTo
<1>10. k \in 1..at' /\ at' <= Len(file') + 1 /\ file' # Missing
  BY <1>1, <1>5
<1> QED BY <1>9, <1>10, ReaderLoads

\* A line with an entry, stored.
LEMMA EntryStored ==
    ASSUME Typed, file # Missing, NEW h \in 1..at, ReadTo(h), NEW l,
           Line({"section", "value"}, l), ~hit, dict' = dictionary_set(dict, Entry(l), Content(l))
    PROVE  /\ Sound(dict')
           /\ \A s \in Settings :
                 Got(s)' = IF /\ l.kind = "value" /\ l.name = s
                              /\ SectionBefore(file, h) = SectionOf(s)
                           THEN l.val ELSE SaysBefore(file, h, s)
<1>1. l \in LineSet /\ l.kind \in {"section", "value"}
  BY LineComplete
<1>2. section \in STRING /\ dict \in Dicts
  BY DEF Typed, TypeOK
<1>3. /\ Sound(dict) /\ section = SectionBefore(file, h)
      /\ \A s \in Settings : Got(s) = SaysBefore(file, h, s)
  BY DEF ReadTo
<1>4. Entry(l) \in Keys /\ Content(l) \in Vals
  BY <1>1, <1>2, EntryType
<1>5. /\ Sound(dict')
      /\ \A c \in Keys : \A def : dictionary_get(dict', c, def)
                                 = IF c = Entry(l) THEN Content(l) ELSE dictionary_get(dict, c, def)
  BY <1>2, <1>3, <1>4, SetFacts
<1>6. ASSUME NEW s \in Settings
      PROVE  Got(s)' = IF /\ l.kind = "value" /\ l.name = s
                          /\ SectionBefore(file, h) = SectionOf(s)
                       THEN l.val ELSE SaysBefore(file, h, s)
  <2>1. <<SectionOf(s), s>> \in Keys
    BY SettingNames, KeyFacts
  <2>2. Got(s)' = IF <<SectionOf(s), s>> = Entry(l) THEN Content(l) ELSE Got(s)
    BY <1>5, <2>1 DEF Got
  <2>3. CASE l.kind = "section"
    <3>1. <<SectionOf(s), s>> # Entry(l)
      BY <2>3, KeyFacts DEF Entry
    <3> QED BY <1>3, <2>2, <2>3, <3>1
  <2>4. CASE l.kind = "value"
    <3>1. Entry(l) = <<section, l.name>> /\ Content(l) = l.val
      BY <2>4 DEF Entry, Content
    <3>2. <<SectionOf(s), s>> = Entry(l) <=> l.name = s /\ section = SectionOf(s)
      BY <3>1, KeyFacts
    <3> QED BY <1>3, <2>2, <2>4, <3>1, <3>2
  <2> QED BY <1>1, <2>3, <2>4
<1> QED BY <1>5, <1>6

\* The steps of the reader that complete a line.
LEMMA LinesLoad ==
    ASSUME Typed, Loading, NEW l, OtherLine(l) \/ EntryLine(l) \/ LineUnread(l)
    PROVE  Loading'
<1>1. boot = "read" /\ boot' = "read"
  BY DEF OtherLine, EntryLine, LineUnread, Line, Reading
<1>2. file # Missing /\ errs \in Nat /\ hit \in BOOLEAN
  BY <1>1 DEF Loading, Typed, TypeOK
<1>3. PICK h \in 1..at : ReadTo(h)
  BY <1>1 DEF Loading
<1>4. ~hit => /\ Sound(dict) /\ section = SectionBefore(file, h)
              /\ \A s \in Settings : Got(s) = SaysBefore(file, h, s)
  BY <1>3 DEF ReadTo
<1>5. CASE OtherLine(l)
  <2>1. /\ Line({"noise", "bad"}, l) /\ errs' = (IF l.kind = "bad" THEN errs + 1 ELSE errs)
        /\ hit' = hit /\ section' = section /\ dict' = dict
    BY <1>5 DEF OtherLine, NoFault
  <2>2. l.kind \in {"noise", "bad"}
    BY <1>2, <1>3, <2>1, LineComplete
  <2>3. l.kind # "section" /\ l.kind # "value"
    BY <2>2
  <2>4. errs' > 0 => errs > 0 \/ l.kind = "bad"
    BY <2>1
  <2>5. \A s : Got(s)' = Got(s)
    BY <2>1, GotSame
  <2> QED BY <1>1, <1>2, <1>3, <1>4, <2>1, <2>3, <2>4, <2>5, LineLoads
<1>6. CASE LineUnread(l)
  <2>1. Line({"section", "value", "bad"}, l) /\ hit' = TRUE /\ errs' = errs
    BY <1>6 DEF LineUnread, FaultHit
  <2> QED BY <1>1, <1>2, <1>3, <2>1, LineLoads
<1>7. CASE EntryLine(l)
  <2>1. /\ Line({"section", "value"}, l) /\ errs' = errs
        /\ section' = IF l.kind = "section" THEN l.name ELSE section
        /\ \/ dict' = dictionary_set(dict, Entry(l), Content(l)) /\ hit' = hit
           \/ hit' = TRUE
    BY <1>7 DEF EntryLine, FaultHit, NoFault
  <2>2. CASE hit' = TRUE
    BY <1>1, <1>2, <1>3, <2>1, <2>2, LineLoads
  <2>3. CASE ~hit'
    <3>1. ~hit /\ dict' = dictionary_set(dict, Entry(l), Content(l))
      BY <2>1, <2>3
    <3>2. /\ Sound(dict')
          /\ \A s \in Settings :
                Got(s)' = IF /\ l.kind = "value" /\ l.name = s
                             /\ SectionBefore(file, h) = SectionOf(s)
                          THEN l.val ELSE SaysBefore(file, h, s)
      BY <1>2, <1>3, <2>1, <3>1, EntryStored
    <3>3. section' = IF l.kind = "section" THEN l.name ELSE SectionBefore(file, h)
      BY <1>4, <2>1, <3>1
    <3> QED BY <1>1, <1>2, <1>3, <2>1, <3>2, <3>3, LineLoads
  <2>4. hit' = TRUE \/ ~hit'
    BY <1>2, <2>1
  <2> QED BY <2>2, <2>3, <2>4
<1> QED BY <1>5, <1>6, <1>7

\* The dictionary cannot grow, or the file ends: it is closed with what has been read.
LEMMA EndLoads ==
    ASSUME Typed, Loading, EndOfFile \/ \E l : CannotGrow(l)
    PROVE  Loading'
<1>1. boot = "read" /\ boot' = "close" /\ errs' = errs /\ file' = file /\ dict' = dict
  BY DEF EndOfFile, CannotGrow, Line, Reading, load
<1>2. file # Missing /\ at <= Len(file) + 1
  BY <1>1 DEF Loading
<1>3. PICK h \in 1..at : ReadTo(h)
  BY <1>1 DEF Loading
<1>4. file \in Seq(LineSet) /\ Len(file) \in Nat /\ at \in Nat /\ DOMAIN file = 1..Len(file)
  BY <1>2, LineNumbers DEF Typed, TypeOK
<1>5. HeadOf(file, at, h)
  BY <1>3 DEF ReadTo
<1>6. errs' > 0 => Unreadable(file)
  <2>1. SUFFICES ASSUME errs > 0 PROVE Unreadable(file)
    BY <1>1
  <2>2. PICK i \in Before(file, h) : file[i].kind = "bad"
    BY <1>3, <2>1 DEF ReadTo
  <2>3. h \in 1..(Len(file) + 1) /\ IsHead(file, h)
    BY <1>2, <1>4, <1>5 DEF HeadOf
  <2>4. i \in Complete(file)
    BY <1>4, <2>2, <2>3, BeforeComplete
  <2> QED BY <2>2, <2>4 DEF Unreadable
<1>7. CASE EndOfFile
  <2>1. at > Len(file) /\ hit' = hit
    BY <1>7 DEF EndOfFile, NoFault
  <2>2. at = Len(file) + 1
    BY <1>2, <1>4, <2>1
  <2>3. Complete(file) = Before(file, h)
    BY <1>4, <1>5, <2>2, AllComplete
  <2>4. \A s \in Settings : SaysBefore(file, h, s) = Says(file, s)
    BY <1>4, <2>3, SaysAll
  <2>5. ~hit => \A s \in Settings : Got(s) = Says(file, s)
    BY <1>3, <2>4 DEF ReadTo
  <2>6. \A s : Got(s)' = Got(s)
    BY <1>1, GotSame
  <2> QED BY <1>1, <1>6, <2>1, <2>5, <2>6 DEF Loading, ReadsWholeFile
<1>8. CASE \E l : CannotGrow(l)
  <2>1. hit' = TRUE
    BY <1>8 DEF CannotGrow, FaultHit
  <2> QED BY <1>1, <1>6, <2>1 DEF Loading, ReadsWholeFile
<1> QED BY <1>7, <1>8

\* Every step of the program keeps what it has read in agreement with its file.
LEMMA LoadingKept ==
    ASSUME Typed, Loading, [Next]_vars
    PROVE  Loading'
<1>1. CASE Launch \/ Kill \/ Dies \/ create_example_ini_file \/ KilledWhileWriting
  <2>1. boot' \in {"down", "open"}
    BY <1>1 DEF Launch, Kill, Dies, create_example_ini_file, KilledWhileWriting
  <2> QED BY <2>1, IdleLoads
<1>2. CASE Open
  BY <1>2, OpenLoads
<1>3. CASE CannotOpen
  <2>1. LoadFails /\ file' = file /\ (file = Missing \/ hit' = TRUE)
    BY <1>3 DEF CannotOpen, FaultHit
  <2> QED BY <2>1, FailureLoads DEF Unreadable
<1>4. CASE TooLong
  <2>1. LoadFails /\ file' = file /\ Reading /\ file[at].kind = "long"
    BY <1>4 DEF TooLong
  <2>2. file # Missing
    BY <2>1 DEF Loading, Reading
  <2>3. PICK h \in 1..at : ReadTo(h)
    BY <2>1 DEF Loading, Reading
  <2>4. at \in DOMAIN file
    <3>1. at \in Nat /\ at # 0 /\ at <= Len(file)
      BY <2>1, <2>3 DEF Typed, TypeOK, Reading
    <3>2. Len(file) \in Nat /\ DOMAIN file = 1..Len(file)
      BY <2>2, LineNumbers DEF Typed, TypeOK
    <3> QED BY <3>1, <3>2
  <2>5. Unreadable(file)
    BY <2>1, <2>4 DEF Unreadable
  <2> QED BY <2>1, <2>5, FailureLoads
<1>5. CASE BeginsMore
  BY <1>5, BeginsLoads
<1>6. ASSUME NEW l, OtherLine(l) \/ EntryLine(l) \/ LineUnread(l)
      PROVE  Loading'
  BY <1>6, LinesLoad
<1>7. CASE EndOfFile \/ \E l : CannotGrow(l)
  BY <1>7, EndLoads
<1>8. CASE Close
  <2>1. /\ boot = "close" /\ IF errs > 0 THEN LoadFails ELSE boot' = "take"
        /\ UNCHANGED <<file, dict, hit>>
    BY <1>8 DEF Close, NoFault, load
  <2>2. CASE errs > 0
    <3>1. Unreadable(file)
      BY <2>1, <2>2 DEF Loading
    <3> QED BY <2>1, <2>2, <3>1, FailureLoads
  <2>3. CASE ~(errs > 0)
    <3>1. \A s : Got(s)' = Got(s)
      BY <2>1, GotSame
    <3> QED BY <2>1, <2>3, <3>1 DEF Loading, ReadsWholeFile
  <2> QED BY <2>2, <2>3
<1>9. CASE parse_ini_file
  <2>1. boot = "take" /\ file' = file /\ hit' = hit
    BY <1>9 DEF parse_ini_file, NoFault
  <2>2. CASE boot' = "down"
    BY <2>2, IdleLoads
  <2>3. CASE boot' = "serving" /\ given' = [s \in Settings |-> Convert(s, Got(s))]
    <3>1. ~hit => \A s \in Settings : given'[s] = Convert(s, Says(file, s))
      BY <2>1, <2>3 DEF Loading
    <3> QED BY <2>1, <2>3, <3>1 DEF Loading, ReadsWholeFile
  <2> QED BY <1>9, <2>2, <2>3 DEF parse_ini_file
<1>10. CASE UNCHANGED vars
  BY <1>10 DEF vars, load, Loading, ReadsWholeFile, ReadTo, Got
<1> QED
  BY <1>1, <1>2, <1>3, <1>4, <1>5, <1>6, <1>7, <1>8, <1>9, <1>10
     DEF Next, iniparser_load, Serving

\* The invariant holds at the start.
LEMMA Begins ==
    ASSUME Init
    PROVE  Typed /\ Loading
<1>1. /\ boot = "down" /\ again = FALSE /\ at = 1 /\ begun = <<>> /\ errs = 0 /\ dict = NoDict
      /\ given = [s \in Settings |-> 0] /\ hit = FALSE /\ faults = 0 /\ section = NoSection
      /\ file \in {Missing} \cup UNION {[1..n -> Lines] : n \in 0..MaxLines}
  BY DEF Init
<1>2. /\ MaxAngle \in Nat /\ MaxTime \in Nat /\ MaxFaults \in Nat /\ MaxLines \in Nat
      /\ Lines \subseteq LineSet
  BY ConfigurationAssumption
<1>3. file = Missing \/ file \in Seq(LineSet)
  <2>1. SUFFICES ASSUME NEW n \in 0..MaxLines, file \in [1..n -> Lines] PROVE file \in Seq(LineSet)
    BY <1>1
  <2>2. n \in Nat /\ file \in [1..n -> LineSet]
    BY <1>2, <2>1
  <2> QED BY <2>2
<1>4. section \in STRING
  BY <1>1, SettingNames
<1>5. dict \in Dicts /\ dict.n <= Size(dict)
  BY <1>1, NewDictionary
<1>6. /\ DOMAIN given = Settings /\ \A s \in Angles : given[s] \in -MaxAngle..MaxAngle
      /\ \A s \in Times : given[s] \in 0..MaxTime
  BY <1>1, <1>2 DEF Settings
<1>7. boot \in Boots /\ boot # "read" /\ again \in BOOLEAN /\ hit \in BOOLEAN
  BY <1>1 DEF Boots
<1>8. at \in Nat /\ begun \in Seq(LineSet) /\ Len(begun) <= 1 /\ errs \in Nat
      /\ faults \in 0..MaxFaults
  BY <1>1, <1>2
<1>9. Typed
  BY <1>3, <1>4, <1>5, <1>6, <1>7, <1>8 DEF Typed, TypeOK
<1>10. Loading
  BY <1>1 DEF Loading, ReadsWholeFile
<1> QED BY <1>9, <1>10

-----------------------------------------------------------------------------

\* The types, and what iniparser_load has read at every point of a file: its dictionary
\* gives what the complete lines before the one in its buffer say.
THEOREM LoadingHolds == Spec => [](TypeOK /\ Typed /\ Loading)
<1>1. Init => TypeOK /\ Typed /\ Loading
  BY Begins DEF Typed
<1>2. (TypeOK /\ Typed /\ Loading) /\ [Next]_vars => (TypeOK /\ Typed /\ Loading)'
  <2>1. Typed' => TypeOK'
    BY DEF Typed
  <2> QED BY <2>1, TypedKept, LoadingKept
<1> QED BY <1>1, <1>2, PTL DEF Spec

\* A daemon that serves has for every setting what the last line for it in its section
\* of configure.ini says, else the default: iniparser_load with its continued lines, its
\* sections and its dictionary, parse_ini_file and the setters, for files of any length.
THEOREM ServesWhatFileSays == Spec => []ReadsWholeFile
<1>1. Loading => ReadsWholeFile
  BY DEF Loading
<1> QED BY <1>1, LoadingHolds, PTL

\* main writes the example over configure.ini only when that has no lines it could read,
\* or when a call has failed.
THEOREM ExampleOnlyOverUnreadable == Spec => OverwritesOnlyUnreadable
<1>1. Loading /\ [Next]_vars => [file' # file => Unreadable(file) \/ hit]_vars
  <2>1. SUFFICES ASSUME Loading, Next, file' # file PROVE Unreadable(file) \/ hit
    BY DEF vars
  <2>2. create_example_ini_file \/ KilledWhileWriting
    BY <2>1 DEF Next, iniparser_load, Launch, Kill, Open, CannotOpen, Dies, TooLong, BeginsMore,
                OtherLine, EntryLine, LineUnread, CannotGrow, Line, EndOfFile, Close,
                parse_ini_file, Serving, vars
  <2>3. boot = "create"
    BY <2>2 DEF create_example_ini_file, KilledWhileWriting
  <2> QED BY <2>1, <2>3 DEF Loading
<1> QED BY <1>1, LoadingHolds, PTL DEF Spec, OverwritesOnlyUnreadable

=============================================================================
