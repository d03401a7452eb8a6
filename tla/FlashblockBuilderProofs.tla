---------------------- MODULE FlashblockBuilderProofs ----------------------
(***************************************************************************)
(* Proofs about FlashblockBuilder: the parallel execution of a follower    *)
(* arrives at the transactions, receipts, gas and fees of the builder, for *)
(* any transactions and whatever they read and write.                      *)
(***************************************************************************)
EXTENDS FlashblockBuilder, WellFoundedInduction, TLAPS

-----------------------------------------------------------------------------
(***************************************************************************)
(* Induction and folds.                                                    *)
(***************************************************************************)

\* Every set of naturals that is not empty has a least element.
LEMMA LeastElement ==
  ASSUME NEW T, T \subseteq Nat, T # {}
  PROVE  \E n \in T : \A m \in T : n <= m
<1>1. IsWellFoundedOn(OpToRel(<, Nat), Nat)
  BY NatLessThanWellFounded, Zenon
<1>2. PICK n \in T : \A m \in T : ~(<<m, n>> \in OpToRel(<, Nat))
  BY <1>1, WFMin, Zenon
<1>3. \A m \in T : ~(m < n)
  BY <1>2 DEF OpToRel
<1> QED BY <1>3

\* A set that has 0, and n + 1 with every n, has all naturals: induction for a
\* property that is given as a set.
LEMMA SetInduction ==
  ASSUME NEW S, 0 \in S, \A n \in Nat : n \in S => n + 1 \in S
  PROVE  Nat \subseteq S
<1> SUFFICES ASSUME NEW x \in Nat, x \notin S PROVE FALSE
  OBVIOUS
<1> DEFINE T == {n \in Nat : n \notin S}
<1>1. PICK n \in T : \A m \in T : n <= m
  BY LeastElement
<1>2. n - 1 \in Nat /\ n - 1 \notin T
  BY <1>1
<1> QED BY <1>2

\* h folds `seq` over every set of the indices 1 .. k, in their order.
FoldsOver(h, payload, seq, k) ==
  h = [s \in SUBSET (1 .. k) |->
         IF s = {} THEN payload ELSE Merge(h[s \ {Max(s)}], seq[Max(s)])]

\* The greatest index of a set of indices.
LEMMA MaxFacts ==
  ASSUME NEW k \in Nat, NEW s \in SUBSET (1 .. (k + 1))
  PROVE  /\ k + 1 \in s => Max(s) = k + 1 /\ s \ {Max(s)} \in SUBSET (1 .. k)
         /\ k + 1 \notin s => s \in SUBSET (1 .. k) /\ s \ {Max(s)} \in SUBSET (1 .. k)
<1>1. ASSUME k + 1 \in s PROVE Max(s) = k + 1
  <2>1. \A y \in s : k + 1 >= y
    OBVIOUS
  <2>2. \A x \in s : (\A y \in s : x >= y) => x = k + 1
    BY <1>1
  <2> QED BY <1>1, <2>1, <2>2 DEF Max
<1>2. k + 1 \in s => s \ {k + 1} \in SUBSET (1 .. k)
  OBVIOUS
<1>3. k + 1 \notin s => s \in SUBSET (1 .. k)
  OBVIOUS
<1>4. s \in SUBSET (1 .. k) => s \ {Max(s)} \in SUBSET (1 .. k)
  OBVIOUS
<1> QED BY <1>1, <1>2, <1>3, <1>4

\* The recursion that defines a fold has a solution.
LEMMA FoldExists ==
  ASSUME NEW payload, NEW seq, NEW n \in Nat
  PROVE  \E h : FoldsOver(h, payload, seq, n)
<1> DEFINE S == {k \in Nat : \E h : FoldsOver(h, payload, seq, k)}
<1>1. 0 \in S
  <2> DEFINE h == [s \in SUBSET (1 .. 0) |-> payload]
  <2>1. FoldsOver(h, payload, seq, 0)
    BY DEF FoldsOver
  <2> QED BY <2>1
<1>2. ASSUME NEW k \in Nat, k \in S PROVE k + 1 \in S
  <2>1. PICK h : FoldsOver(h, payload, seq, k)
    BY <1>2
  <2> DEFINE g == [s \in SUBSET (1 .. (k + 1)) |->
                     IF k + 1 \in s THEN Merge(h[s \ {k + 1}], seq[k + 1]) ELSE h[s]]
  <2>2. \A s \in SUBSET (1 .. k) : s \in SUBSET (1 .. (k + 1)) /\ k + 1 \notin s
    OBVIOUS
  <2>3. \A s \in SUBSET (1 .. k) : g[s] = h[s]
    BY <2>2
  <2> HIDE DEF g
  <2>4. ASSUME NEW s \in SUBSET (1 .. (k + 1))
        PROVE  g[s] = IF s = {} THEN payload ELSE Merge(g[s \ {Max(s)}], seq[Max(s)])
    <3>1. CASE k + 1 \in s
      <4>1. Max(s) = k + 1 /\ s \ {Max(s)} \in SUBSET (1 .. k)
        BY <3>1, MaxFacts
      <4> QED BY <3>1, <4>1, <2>3 DEF g
    <3>2. CASE k + 1 \notin s
      <4>1. s \in SUBSET (1 .. k) /\ s \ {Max(s)} \in SUBSET (1 .. k)
        BY <3>2, MaxFacts
      <4>2. h[s] = IF s = {} THEN payload ELSE Merge(h[s \ {Max(s)}], seq[Max(s)])
        BY <2>1, <4>1 DEF FoldsOver
      <4> QED BY <4>1, <4>2, <2>3
    <3> QED BY <3>1, <3>2
  <2>5. FoldsOver(g, payload, seq, k + 1)
    BY <2>4 DEF FoldsOver, g
  <2> QED BY <2>5
<1> HIDE DEF S
<1>3. Nat \subseteq S
  BY <1>1, <1>2, SetInduction
<1> QED BY <1>3 DEF S

MergeAll(payload, seq) == FoldLeft(Merge, payload, seq)

\* Merging a sequence of results is merging one after the other.
LEMMA MergeOneByOne ==
  ASSUME NEW payload, NEW seq, NEW n \in Nat, DOMAIN seq = 1 .. n
  PROVE  \E g : /\ g[0] = payload
                /\ \A i \in 1 .. n : g[i] = Merge(g[i - 1], seq[i])
                /\ MergeAll(payload, seq) = g[n]
<1> DEFINE h == CHOOSE x : FoldsOver(x, payload, seq, n)
<1>1. MergeAll(payload, seq) = h[1 .. n]
  BY DEF MergeAll, FoldLeft, MapThenFoldSet, FoldsOver
<1>2. FoldsOver(h, payload, seq, n)
  BY FoldExists
<1> HIDE DEF h
<1> DEFINE g == [i \in 0 .. n |-> h[1 .. i]]
<1>3. g[0] = payload
  <2>1. 1 .. 0 = {} /\ 1 .. 0 \in SUBSET (1 .. n)
    OBVIOUS
  <2> QED BY <1>2, <2>1 DEF FoldsOver
<1>4. ASSUME NEW i \in 1 .. n PROVE g[i] = Merge(g[i - 1], seq[i])
  <2>1. i - 1 \in Nat /\ (i - 1) + 1 = i /\ i \in 1 .. i /\ 1 .. i \in SUBSET (1 .. n)
    OBVIOUS
  <2>2. Max(1 .. i) = i
    BY <2>1, MaxFacts
  <2>3. (1 .. i) \ {i} = 1 .. (i - 1)
    OBVIOUS
  <2>4. h[1 .. i] = Merge(h[1 .. (i - 1)], seq[i])
    BY <1>2, <2>1, <2>2, <2>3 DEF FoldsOver
  <2> QED BY <2>1, <2>4
<1>5. MergeAll(payload, seq) = g[n]
  BY <1>1
<1> HIDE DEF g
<1> QED BY <1>3, <1>4, <1>5

-----------------------------------------------------------------------------
(***************************************************************************)
(* Changes, states and blocks.                                             *)
(***************************************************************************)

\* Every key has the value of the first function that has the key.
LEMMA OverrideFacts ==
  ASSUME NEW f, NEW g
  PROVE  /\ DOMAIN Override(f, g) = DOMAIN f \cup DOMAIN g
         /\ \A k \in DOMAIN f : Override(f, g)[k] = f[k]
         /\ \A k \in DOMAIN g \ DOMAIN f : Override(f, g)[k] = g[k]
  BY DEF Override

\* A change is a function from some of the keys to values.
LEMMA ChangeFacts ==
  ASSUME NEW w \in Change
  PROVE  /\ DOMAIN w \subseteq Key
         /\ \A k \in DOMAIN w : w[k] \in Value
  BY DEF Change

\* Changes on changes are a change, on a state they are a state.
LEMMA OverrideType ==
  ASSUME NEW f \in Change, NEW g \in Change
  PROVE  Override(f, g) \in Change
<1> DEFINE K == DOMAIN f \cup DOMAIN g
<1>1. K \in SUBSET Key
  BY ChangeFacts
<1>2. Override(f, g) \in [K -> Value]
  BY ChangeFacts DEF Override
<1> QED BY <1>1, <1>2 DEF Change

LEMMA StateFacts ==
  ASSUME NEW f \in Change
  PROVE  /\ StateOf(f) \in State
         /\ \A k \in DOMAIN f : StateOf(f)[k] = f[k]
         /\ \A k \in Key \ DOMAIN f : StateOf(f)[k] = Parent[k]
<1>1. Parent \in [Key -> Value]
  BY BuilderAssumption DEF State
<1>2. DOMAIN f \cup DOMAIN Parent = Key
  BY <1>1, ChangeFacts
<1>3. StateOf(f) = [k \in Key |-> IF k \in DOMAIN f THEN f[k] ELSE Parent[k]]
  BY <1>2 DEF StateOf, Override
<1> QED BY <1>1, <1>3, ChangeFacts DEF State

\* Nothing is a change, too.
LEMMA EmptyChange == <<>> \in Change /\ DOMAIN <<>> = {}
<1>1. DOMAIN <<>> = {}
  OBVIOUS
<1>2. <<>> \in [{} -> Value]
  OBVIOUS
<1>3. {} \in SUBSET Key
  OBVIOUS
<1> QED BY <1>1, <1>2, <1>3 DEF Change

\* Executing a transaction in a state writes a change and uses gas.
LEMMA EffectType ==
  ASSUME NEW tx \in Tx, NEW st \in State
  PROVE  Effect[tx][st].writes \in Change /\ Effect[tx][st].gas \in Nat
  BY BuilderAssumption

LEMMA FeeType ==
  ASSUME NEW tx \in Tx, NEW gas \in Nat
  PROVE  Fee(tx, gas) \in Nat
<1>1. Tip[tx] \in Nat
  BY BuilderAssumption
<1>2. Tip[tx] * gas \in Nat
  BY <1>1
<1> QED BY <1>2 DEF Fee

-----------------------------------------------------------------------------
(***************************************************************************)
(* Access lists, and what they say.                                        *)
(***************************************************************************)

Entry == [key : Key, index : Nat, value : Value]

Write == [index : Nat, value : Value]

\* What has been appended is there, and nothing else.
LEMMA AppendedFacts ==
  ASSUME NEW S, NEW s \in Seq(S), NEW t \in Seq(S)
  PROVE  /\ s \o t \in Seq(S)
         /\ ToSet(s) \subseteq S
         /\ ToSet(s \o t) = ToSet(s) \cup ToSet(t)
<1>1. /\ s \o t \in Seq(S) /\ Len(s \o t) = Len(s) + Len(t)
      /\ \A i \in 1 .. Len(s) : (s \o t)[i] = s[i]
      /\ \A i \in 1 .. Len(t) : (s \o t)[Len(s) + i] = t[i]
  OBVIOUS
<1>2. Len(s) \in Nat /\ Len(t) \in Nat
  OBVIOUS
<1>3. /\ DOMAIN s = 1 .. Len(s) /\ DOMAIN t = 1 .. Len(t)
      /\ DOMAIN (s \o t) = 1 .. (Len(s) + Len(t))
  BY <1>1
<1>4. ToSet(s) \subseteq S
  BY DEF ToSet
<1> DEFINE st == s \o t
<1>5. ASSUME NEW x \in ToSet(st) PROVE x \in ToSet(s) \cup ToSet(t)
  <2>1. PICK i \in 1 .. (Len(s) + Len(t)) : x = st[i]
    BY <1>3 DEF ToSet
  <2>2. CASE i \in 1 .. Len(s)
    BY <2>1, <2>2, <1>1, <1>3 DEF ToSet
  <2>3. CASE i \notin 1 .. Len(s)
    <3>1. i - Len(s) \in 1 .. Len(t) /\ Len(s) + (i - Len(s)) = i
      BY <2>1, <2>3, <1>2
    <3>2. x = t[i - Len(s)]
      BY <3>1, <2>1, <1>1
    <3> QED BY <3>1, <3>2, <1>3 DEF ToSet
  <2> QED BY <2>2, <2>3
<1>6. ASSUME NEW x \in ToSet(s) PROVE x \in ToSet(st)
  <2>1. PICK i \in 1 .. Len(s) : x = s[i]
    BY <1>3 DEF ToSet
  <2>2. i \in 1 .. (Len(s) + Len(t)) /\ st[i] = x
    BY <2>1, <1>1, <1>2
  <2> QED BY <2>2, <1>3 DEF ToSet
<1>7. ASSUME NEW x \in ToSet(t) PROVE x \in ToSet(st)
  <2>1. PICK i \in 1 .. Len(t) : x = t[i]
    BY <1>3 DEF ToSet
  <2>2. Len(s) + i \in 1 .. (Len(s) + Len(t)) /\ st[Len(s) + i] = x
    BY <2>1, <1>1, <1>2
  <2> QED BY <2>2, <1>3 DEF ToSet
<1> QED BY <1>1, <1>4, <1>5, <1>6, <1>7

\* An entry is a write that is listed for a key.
LEMMA EntriesOfList ==
  ASSUME NEW a \in AccessList
  PROVE  /\ Entries(a) \subseteq Entry
         /\ \A k \in Key : \A w \in ToSet(a[k]) :
              w \in Write /\ [key |-> k, index |-> w.index, value |-> w.value] \in Entries(a)
         /\ \A e \in Entries(a) :
              e.key \in Key /\ [index |-> e.index, value |-> e.value] \in ToSet(a[e.key])
<1> DEFINE At(k, w) == [key |-> k, index |-> w.index, value |-> w.value]
<1>1. \A k \in Key : a[k] \in Seq(Write)
  BY DEF AccessList, Write
<1>2. \A k \in Key : ToSet(a[k]) \subseteq Write
  BY <1>1, AppendedFacts
<1>3. \A k \in Key : \A w \in ToSet(a[k]) : At(k, w) \in Entries(a)
  BY DEF Entries
<1>4. ASSUME NEW e \in Entries(a)
      PROVE  /\ e \in Entry /\ e.key \in Key
             /\ [index |-> e.index, value |-> e.value] \in ToSet(a[e.key])
  <2>1. PICK k \in Key : e \in {At(k, w) : w \in ToSet(a[k])}
    BY DEF Entries
  <2>2. PICK w \in ToSet(a[k]) : e = At(k, w)
    BY <2>1
  <2>3. w \in Write
    BY <2>2, <1>2
  <2>4. w = [index |-> w.index, value |-> w.value]
    BY <2>3 DEF Write
  <2>5. e.key = k /\ e.index = w.index /\ e.value = w.value
    BY <2>2
  <2>6. e \in Entry
    BY <2>2, <2>3 DEF Entry, Write
  <2> QED BY <2>2, <2>4, <2>5, <2>6
<1> QED BY <1>2, <1>3, <1>4

\* Extending a list adds what the other one says.
LEMMA ExtendFacts ==
  ASSUME NEW a \in AccessList, NEW b \in AccessList
  PROVE  /\ Extend(a, b) \in AccessList
         /\ Entries(Extend(a, b)) = Entries(a) \cup Entries(b)
<1> DEFINE ab == Extend(a, b)
           At(k, w) == [key |-> k, index |-> w.index, value |-> w.value]
           Of(list, k) == {At(k, w) : w \in ToSet(list[k])}
<1>1. \A k \in Key : a[k] \in Seq(Write) /\ b[k] \in Seq(Write)
  BY DEF AccessList, Write
<1>2. \A k \in Key : ab[k] = a[k] \o b[k]
  BY DEF Extend
<1>3. ASSUME NEW k \in Key
      PROVE  ab[k] \in Seq(Write) /\ ToSet(ab[k]) = ToSet(a[k]) \cup ToSet(b[k])
  <2> DEFINE s == a[k]
             t == b[k]
  <2>1. s \in Seq(Write) /\ t \in Seq(Write)
    BY <1>1
  <2>2. ab[k] = s \o t
    BY <1>2
  <2> HIDE DEF s, t, ab
  <2>3. s \o t \in Seq(Write) /\ ToSet(s \o t) = ToSet(s) \cup ToSet(t)
    BY <2>1, AppendedFacts
  <2> USE DEF s, t
  <2> QED BY <2>3, <2>2
<1>4. ab \in AccessList
  BY <1>3 DEF AccessList, Write, Extend
<1> HIDE DEF ab
<1>5. \A k \in Key : Of(ab, k) = Of(a, k) \cup Of(b, k)
  BY <1>3
<1>6. /\ Entries(ab) = UNION {Of(ab, k) : k \in Key}
      /\ Entries(a) = UNION {Of(a, k) : k \in Key}
      /\ Entries(b) = UNION {Of(b, k) : k \in Key}
  BY DEF Entries
<1> HIDE DEF Of
<1>7. Entries(ab) = Entries(a) \cup Entries(b)
  BY <1>5, <1>6
<1> QED BY <1>4, <1>7 DEF ab

\* Nothing is listed yet; extending this list or extending by it changes nothing.
LEMMA EmptyListFacts ==
  /\ EmptyList \in AccessList /\ Entries(EmptyList) = {}
  /\ \A a \in AccessList : Extend(EmptyList, a) = a /\ Extend(a, EmptyList) = a
<1>1. EmptyList \in AccessList /\ \A k \in Key : EmptyList[k] = <<>>
  BY DEF EmptyList, AccessList
<1>2. ToSet(<<>>) = {}
  BY DEF ToSet
<1>3. Entries(EmptyList) = {}
  BY <1>1, <1>2 DEF Entries
<1>4. ASSUME NEW a \in AccessList PROVE Extend(EmptyList, a) = a /\ Extend(a, EmptyList) = a
  <2>1. \A k \in Key : a[k] \in Seq(Write)
    BY DEF AccessList, Write
  <2>2. \A k \in Key : <<>> \o a[k] = a[k] /\ a[k] \o <<>> = a[k]
    BY <2>1
  <2>3. a = [k \in Key |-> a[k]]
    BY DEF AccessList
  <2>4. /\ Extend(EmptyList, a) = [k \in Key |-> a[k]]
        /\ Extend(a, EmptyList) = [k \in Key |-> a[k]]
    BY <1>1, <2>2 DEF Extend
  <2> QED BY <2>3, <2>4
<1> QED BY <1>1, <1>3, <1>4

\* The entries of a change that index i has made.
ChangeEntries(w, i) == {[key |-> k, index |-> i, value |-> w[k]] : k \in DOMAIN w}

\* They are what the change's list says.
LEMMA ListOfChange ==
  ASSUME NEW w \in Change, NEW i \in Nat
  PROVE  /\ AccessListEntries(w, i) \in AccessList
         /\ Entries(AccessListEntries(w, i)) = ChangeEntries(w, i)
         /\ DOMAIN w = {} => AccessListEntries(w, i) = EmptyList
<1> DEFINE a == AccessListEntries(w, i)
           At(k, v) == [key |-> k, index |-> v.index, value |-> v.value]
           Of(k) == {At(k, v) : v \in ToSet(a[k])}
<1>1. DOMAIN w \subseteq Key /\ \A k \in DOMAIN w : w[k] \in Value
  BY ChangeFacts
<1>2. /\ \A k \in DOMAIN w : a[k] = <<[index |-> i, value |-> w[k]]>>
      /\ \A k \in Key \ DOMAIN w : a[k] = <<>>
  BY <1>1 DEF AccessListEntries
<1>3. ASSUME NEW k \in Key PROVE a[k] \in Seq([index : Nat, value : Value])
  <2> HIDE DEF a
  <2>1. CASE k \in DOMAIN w
    <3> DEFINE v == [index |-> i, value |-> w[k]]
    <3>1. v \in [index : Nat, value : Value]
      BY <2>1, <1>1
    <3>2. a[k] = <<v>>
      BY <2>1, <1>2
    <3> HIDE DEF v
    <3> QED BY <3>1, <3>2
  <2>2. CASE k \notin DOMAIN w
    <3>1. a[k] = <<>>
      BY <2>2, <1>2
    <3> QED BY <3>1
  <2> QED BY <2>1, <2>2
<1>4. a \in AccessList
  BY <1>3 DEF AccessList, AccessListEntries
<1>5. DOMAIN w = {} => a = EmptyList
  BY DEF AccessListEntries, EmptyList
<1>6. \A v : ToSet(<<v>>) = {v}
  BY DEF ToSet
<1>7. ToSet(<<>>) = {}
  BY DEF ToSet
<1>8. Entries(a) = UNION {Of(k) : k \in Key}
  BY DEF Entries
<1> HIDE DEF a
<1>9. ASSUME NEW k \in DOMAIN w PROVE Of(k) = {[key |-> k, index |-> i, value |-> w[k]]}
  <2>1. ToSet(a[k]) = {[index |-> i, value |-> w[k]]}
    BY <1>2, <1>6
  <2> QED BY <2>1
<1>10. \A k \in Key \ DOMAIN w : Of(k) = {}
  BY <1>2, <1>7
<1> HIDE DEF Of
<1>11. Entries(a) = ChangeEntries(w, i)
  BY <1>1, <1>8, <1>9, <1>10 DEF ChangeEntries
<1> QED BY <1>4, <1>5, <1>11 DEF a

\* The entries of a change.
LEMMA EntryFacts ==
  ASSUME NEW w \in Change, NEW i \in Nat
  PROVE  /\ ChangeEntries(w, i) \subseteq Entry
         /\ \A e \in ChangeEntries(w, i) :
              e.key \in DOMAIN w /\ e.index = i /\ e.value = w[e.key]
         /\ \A k \in DOMAIN w : [key |-> k, index |-> i, value |-> w[k]] \in ChangeEntries(w, i)
         /\ \A k \in DOMAIN w : \E e \in ChangeEntries(w, i) : e.key = k
         /\ \A e, g \in ChangeEntries(w, i) : e.key = g.key => e = g
<1> DEFINE Of(k) == [key |-> k, index |-> i, value |-> w[k]]
<1>1. ChangeEntries(w, i) = {Of(k) : k \in DOMAIN w}
  BY DEF ChangeEntries
<1>2. \A k \in DOMAIN w : /\ Of(k) \in Entry
                          /\ Of(k).key = k /\ Of(k).index = i /\ Of(k).value = w[k]
  BY ChangeFacts DEF Entry
<1>3. \A e \in ChangeEntries(w, i) : e.key \in DOMAIN w /\ e = Of(e.key)
  BY <1>1, <1>2
<1> HIDE DEF Of
<1>4. \A k \in DOMAIN w : Of(k) \in ChangeEntries(w, i)
  BY <1>1
<1>5. ChangeEntries(w, i) \subseteq Entry
  BY <1>2, <1>3
<1>6. \A e \in ChangeEntries(w, i) :
        e.key \in DOMAIN w /\ e.index = i /\ e.value = w[e.key]
  BY <1>2, <1>3
<1>7. \A k \in DOMAIN w : \E e \in ChangeEntries(w, i) : e.key = k
  BY <1>2, <1>4
<1>8. \A e, g \in ChangeEntries(w, i) : e.key = g.key => e = g
  BY <1>3
<1> QED BY <1>4, <1>5, <1>6, <1>7, <1>8 DEF Of

\* An access list that has the bundle's value of each key as its latest.
Listed(access_list, bundle) ==
  /\ \A e \in access_list : e.key \in DOMAIN bundle
  /\ \A k \in DOMAIN bundle : \E e \in access_list :
       /\ e.key = k /\ e.value = bundle[k]
       /\ \A g \in access_list : g.key = k => g = e \/ g.index < e.index

\* It still does with the entries of one more change at its end.
LEMMA ListedChange ==
  ASSUME NEW al, NEW bundle, NEW w \in Change, NEW n \in Nat,
         al \subseteq Entry,
         \A e \in al : e.index <= n, Listed(al, bundle)
  PROVE  Listed(al \cup ChangeEntries(w, n + 1), Override(w, bundle))
<1> DEFINE new == ChangeEntries(w, n + 1)
           both == Override(w, bundle)
<1>1. /\ \A e \in new : e.key \in DOMAIN w /\ e.index = n + 1 /\ e.value = w[e.key]
      /\ \A k \in DOMAIN w : \E e \in new : e.key = k
      /\ \A e, g \in new : e.key = g.key => e = g
  BY EntryFacts
<1>2. /\ DOMAIN both = DOMAIN w \cup DOMAIN bundle
      /\ \A k \in DOMAIN w : both[k] = w[k]
      /\ \A k \in DOMAIN bundle \ DOMAIN w : both[k] = bundle[k]
  BY OverrideFacts
<1>3. \A e \in al : e.index < n + 1
  BY DEF Entry
<1> HIDE DEF new, both
<1>4. \A e \in al \cup new : e.key \in DOMAIN both
  BY <1>1, <1>2 DEF Listed
<1>5. ASSUME NEW k \in DOMAIN w
      PROVE  \E e \in al \cup new :
               /\ e.key = k /\ e.value = both[k]
               /\ \A g \in al \cup new : g.key = k => g = e \/ g.index < e.index
  BY <1>1, <1>2, <1>3
<1>6. ASSUME NEW k \in DOMAIN bundle \ DOMAIN w
      PROVE  \E e \in al \cup new :
               /\ e.key = k /\ e.value = both[k]
               /\ \A g \in al \cup new : g.key = k => g = e \/ g.index < e.index
  BY <1>1, <1>2 DEF Listed
<1>7. \A k \in DOMAIN both : \E e \in al \cup new :
        /\ e.key = k /\ e.value = both[k]
        /\ \A g \in al \cup new : g.key = k => g = e \/ g.index < e.index
  BY <1>2, <1>5, <1>6
<1> QED BY <1>4, <1>7 DEF Listed, new, both

WellBuilt(b) == IsBlock(b) /\ Listed(Entries(b.access_list), b.bundle)

\* The entries of a block's access list have an index.
LEMMA EntriesOfBlock ==
  ASSUME NEW b, IsBlock(b)
  PROVE  /\ b.access_list \in AccessList
         /\ Entries(b.access_list) \subseteq Entry
         /\ \A e \in Entries(b.access_list) : e.index \in Nat /\ e.index <= Len(b.txs)
<1>1. b.access_list \in AccessList
  BY DEF IsBlock, Block
<1>2. Entries(b.access_list) \subseteq Entry
  BY <1>1, EntriesOfList
<1> QED BY <1>1, <1>2 DEF IsBlock, Entry

\* The builder starts from a block of the system calls' writes.
LEMMA EmptyBlockFacts ==
  /\ WellBuilt(EmptyBlock)
  /\ EmptyBlock.txs = <<>> /\ EmptyBlock.receipts = <<>>
  /\ EmptyBlock.gas_used = 0 /\ EmptyBlock.fees = 0
  /\ \A e \in Entries(EmptyBlock.access_list) : e.index = 0
<1>1. SystemWrites \in Change /\ 0 \in Nat
  BY BuilderAssumption
<1>2. EmptyBlock \in Block
  BY <1>1, ListOfChange DEF EmptyBlock, Block
<1>3. Entries(EmptyBlock.access_list) = ChangeEntries(SystemWrites, 0)
  BY <1>1, ListOfChange DEF EmptyBlock
<1>4. IsBlock(EmptyBlock)
  BY <1>1, <1>2, <1>3, EntryFacts DEF IsBlock, EmptyBlock
<1>5. Listed(Entries(EmptyBlock.access_list), EmptyBlock.bundle)
  <2>1. EmptyBlock.bundle = SystemWrites
    BY DEF EmptyBlock
  <2> QED BY <2>1, <1>1, <1>3, EntryFacts DEF Listed
<1>6. \A e \in Entries(EmptyBlock.access_list) : e.index = 0
  BY <1>1, <1>3, EntryFacts
<1> QED BY <1>4, <1>5, <1>6 DEF WellBuilt, EmptyBlock

\* What is read, written and paid when `tx` is executed on block `b`.
Written(b, tx) == Effect[tx][StateOf(b.bundle)].writes

LEMMA WrittenType ==
  ASSUME NEW b \in Block, NEW tx \in Tx
  PROVE  /\ StateOf(b.bundle) \in State
         /\ Written(b, tx) \in Change
         /\ Effect[tx][StateOf(b.bundle)].gas \in Nat
         /\ StateOf(b.bundle)[Signer[tx]] \in Value
<1>1. StateOf(b.bundle) \in State
  BY StateFacts DEF Block
<1>2. Signer[tx] \in Key
  BY BuilderAssumption
<1> QED BY <1>1, <1>2, EffectType DEF Written, State

\* Executing a transaction gives a block again, with one transaction more and
\* with its writes on top and at the end of the access list.
LEMMA ExecuteFacts ==
  ASSUME NEW b, WellBuilt(b), NEW tx \in Tx
  PROVE  /\ WellBuilt(Execute(b, tx))
         /\ Len(Execute(b, tx).txs) = Len(b.txs) + 1
         /\ Execute(b, tx).bundle = Override(Written(b, tx), b.bundle)
         /\ Execute(b, tx).access_list =
              Extend(b.access_list, AccessListEntries(Written(b, tx), Len(b.txs) + 1))
         /\ Entries(Execute(b, tx).access_list) =
              Entries(b.access_list) \cup ChangeEntries(Written(b, tx), Len(b.txs) + 1)
<1> DEFINE c == Execute(b, tx)
           w == Written(b, tx)
           n == Len(b.txs)
           read == StateOf(b.bundle)
           gas == b.gas_used + Effect[tx][read].gas
<1>1. b \in Block /\ Len(b.receipts) = n /\ \A e \in Entries(b.access_list) : e.index <= n
  BY DEF WellBuilt, IsBlock
<1>2. /\ b.txs \in Seq(Tx) /\ b.bundle \in Change /\ b.gas_used \in Nat /\ b.fees \in Nat
      /\ b.receipts \in Seq([deposit_nonce : Value \cup {None}, cumulative_gas_used : Nat])
      /\ b.access_list \in AccessList /\ Entries(b.access_list) \subseteq Entry
      /\ n \in Nat /\ n + 1 \in Nat
  <2>1. b.access_list \in AccessList
    BY <1>1 DEF Block
  <2>2. Entries(b.access_list) \subseteq Entry
    BY <2>1, EntriesOfList
  <2> QED BY <2>1, <2>2, <1>1 DEF Block
<1>3. w \in Change /\ gas \in Nat /\ read[Signer[tx]] \in Value /\ Effect[tx][read].gas \in Nat
  BY <1>1, <1>2, WrittenType
<1>4. /\ c.txs = Append(b.txs, tx)
      /\ c.receipts = Append(b.receipts, Receipt(tx, read[Signer[tx]], gas))
      /\ c.gas_used = gas
      /\ c.fees = b.fees + Fee(tx, Effect[tx][read].gas)
  BY DEF Execute
<1>5. /\ c.bundle = Override(w, b.bundle)
      /\ c.access_list = Extend(b.access_list, AccessListEntries(w, n + 1))
  BY DEF Execute, Written
<1>6. c = [txs |-> c.txs, receipts |-> c.receipts, bundle |-> c.bundle,
           gas_used |-> c.gas_used, fees |-> c.fees, access_list |-> c.access_list]
  BY DEF Execute
<1> HIDE DEF c, w, n, read, gas
<1>7. \A e \in ChangeEntries(w, n + 1) : e.index = n + 1
  BY <1>2, <1>3 DEF ChangeEntries
<1>8. /\ c.access_list \in AccessList
       /\ Entries(c.access_list) = Entries(b.access_list) \cup ChangeEntries(w, n + 1)
  <2> DEFINE more == AccessListEntries(w, n + 1)
  <2>1. more \in AccessList /\ Entries(more) = ChangeEntries(w, n + 1)
    BY <1>2, <1>3, ListOfChange
  <2>2. c.access_list = Extend(b.access_list, more)
    BY <1>5
  <2> HIDE DEF more
  <2> QED BY <2>1, <2>2, <1>2, ExtendFacts
<1>9. c \in Block
  <2>1. Receipt(tx, read[Signer[tx]], gas)
          \in [deposit_nonce : Value \cup {None}, cumulative_gas_used : Nat]
    BY <1>3 DEF Receipt
  <2>2. c.fees \in Nat
    <3>1. Fee(tx, Effect[tx][read].gas) \in Nat
      BY <1>3, FeeType
    <3> QED BY <3>1, <1>2, <1>4
  <2>3. c.bundle \in Change
    BY <1>2, <1>3, <1>5, OverrideType
  <2>4. /\ c.txs \in Seq(Tx) /\ c.gas_used \in Nat
        /\ c.receipts \in Seq([deposit_nonce : Value \cup {None}, cumulative_gas_used : Nat])
    BY <2>1, <1>2, <1>3, <1>4
  <2> QED BY <2>2, <2>3, <2>4, <1>6, <1>8 DEF Block
<1>10. Len(c.txs) = n + 1 /\ Len(c.receipts) = n + 1
  <2>1. Len(c.txs) = Len(b.txs) + 1
    BY <1>2, <1>4
  <2>2. Len(c.receipts) = Len(b.receipts) + 1
    BY <1>2, <1>4
  <2> QED BY <2>1, <2>2, <1>1 DEF n
<1>11. \A e \in Entries(c.access_list) : e.index <= n + 1
  <2>1. \A e \in Entries(b.access_list) : e.index \in Nat /\ e.index <= n
    BY <1>1, <1>2 DEF Entry
  <2> QED BY <2>1, <1>2, <1>7, <1>8
<1>12. Listed(Entries(c.access_list), c.bundle)
  <2>1. Listed(Entries(b.access_list), b.bundle)
    BY DEF WellBuilt
  <2>2. Listed(Entries(b.access_list) \cup ChangeEntries(w, n + 1), Override(w, b.bundle))
    BY <2>1, <1>1, <1>2, <1>3, ListedChange
  <2> QED BY <2>2, <1>5, <1>8
<1> QED BY <1>5, <1>9, <1>10, <1>11, <1>12, <1>8 DEF WellBuilt, IsBlock, c, w, n

-----------------------------------------------------------------------------
(***************************************************************************)
(* The trace of a block: the blocks it has been, one per transaction.      *)
(***************************************************************************)

EntriesUpTo(access_list, i) == {e \in access_list : e.index <= i}

IsTrace(t, b) ==
  /\ b.txs \in Seq(Tx)
  /\ t[0] = EmptyBlock /\ t[Len(b.txs)] = b
  /\ \A i \in 1 .. Len(b.txs) : t[i] = Execute(t[i - 1], b.txs[i])
  /\ \A i \in 0 .. Len(b.txs) : WellBuilt(t[i]) /\ Len(t[i].txs) = i
  /\ \A i, j \in 0 .. Len(b.txs) : i <= j =>
       EntriesUpTo(Entries(t[j].access_list), i) = Entries(t[i].access_list)

\* The block that the builder starts from is its own trace.
LEMMA TraceStarts == \E t : IsTrace(t, EmptyBlock)
<1> DEFINE t == [i \in 0 .. 0 |-> EmptyBlock]
<1>1. EmptyBlock.txs = <<>> /\ Len(EmptyBlock.txs) = 0 /\ EmptyBlock.txs \in Seq(Tx)
  BY EmptyBlockFacts
<1>2. t[0] = EmptyBlock /\ \A i \in 0 .. 0 : t[i] = EmptyBlock
  OBVIOUS
<1>3. EntriesUpTo(Entries(EmptyBlock.access_list), 0) = Entries(EmptyBlock.access_list)
  BY EmptyBlockFacts DEF EntriesUpTo
<1> HIDE DEF t
<1>4. \A i, j \in 0 .. 0 : EntriesUpTo(Entries(t[j].access_list), i) = Entries(t[i].access_list)
  BY <1>2, <1>3
<1>5. IsTrace(t, EmptyBlock)
  BY <1>1, <1>2, <1>4, EmptyBlockFacts DEF IsTrace
<1> QED BY <1>5

\* Executing a transaction extends the trace.
LEMMA TraceExtends ==
  ASSUME NEW t, NEW b, IsTrace(t, b), NEW tx \in Tx
  PROVE  \E u : IsTrace(u, Execute(b, tx)) /\ \A i \in 0 .. Len(b.txs) : u[i] = t[i]
<1> DEFINE n == Len(b.txs)
           c == Execute(b, tx)
           u == [i \in 0 .. (n + 1) |-> IF i <= n THEN t[i] ELSE c]
<1>1. n \in Nat /\ b.txs \in Seq(Tx) /\ t[n] = b
  BY DEF IsTrace
<1>2. WellBuilt(b)
  BY <1>1 DEF IsTrace
<1>3. WellBuilt(c) /\ Len(c.txs) = n + 1
  BY <1>2, ExecuteFacts
<1>4. c.txs = Append(b.txs, tx)
  BY DEF Execute
<1>5. c.txs \in Seq(Tx) /\ c.txs[n + 1] = tx /\ \A i \in 1 .. n : c.txs[i] = b.txs[i]
  BY <1>1, <1>4
<1>6. u[n + 1] = c /\ \A i \in 0 .. n : u[i] = t[i]
  BY <1>1
<1>7. n + 1 \in 0 .. (n + 1) /\ \A i \in 0 .. (n + 1) : i \in 0 .. n \/ i = n + 1
  BY <1>1
<1> HIDE DEF u, c, n
<1>8. u[0] = EmptyBlock
  BY <1>1, <1>6 DEF IsTrace
<1>9. ASSUME NEW i \in 1 .. (n + 1) PROVE u[i] = Execute(u[i - 1], c.txs[i])
  <2>1. CASE i = n + 1
    BY <2>1, <1>1, <1>5, <1>6 DEF c
  <2>2. CASE i \in 1 .. n
    <3>1. i \in 0 .. n /\ i - 1 \in 0 .. n
      BY <1>1, <2>2
    <3>2. t[i] = Execute(t[i - 1], b.txs[i])
      BY <2>2 DEF IsTrace, n
    <3> QED BY <3>1, <3>2, <2>2, <1>5, <1>6
  <2> QED BY <1>1, <2>1, <2>2
<1>10. \A i \in 0 .. (n + 1) : WellBuilt(u[i]) /\ Len(u[i].txs) = i
  BY <1>3, <1>6, <1>7 DEF IsTrace, n
<1>11. ASSUME NEW i \in 0 .. (n + 1), NEW j \in 0 .. (n + 1), i <= j
       PROVE  EntriesUpTo(Entries(u[j].access_list), i) = Entries(u[i].access_list)
  <2>1. CASE j \in 0 .. n
    <3>1. i \in 0 .. n
      BY <1>1, <1>11, <2>1
    <3>2. EntriesUpTo(Entries(t[j].access_list), i) = Entries(t[i].access_list)
      BY <3>1, <2>1, <1>11 DEF IsTrace, n
    <3> QED BY <3>1, <3>2, <2>1, <1>6
  <2>2. CASE j = n + 1 /\ i \in 0 .. n
    <3>1. Entries(c.access_list) = Entries(b.access_list) \cup ChangeEntries(Written(b, tx), n + 1)
      BY <1>2, ExecuteFacts DEF c, n
    <3>2. \A e \in ChangeEntries(Written(b, tx), n + 1) : e.index = n + 1
      <4>1. Written(b, tx) \in Change /\ n + 1 \in Nat
        BY <1>1, <1>2, WrittenType DEF WellBuilt, IsBlock
      <4> QED BY <4>1, EntryFacts
    <3>3. EntriesUpTo(Entries(c.access_list), i) = EntriesUpTo(Entries(b.access_list), i)
      BY <3>1, <3>2, <2>2, <1>1 DEF EntriesUpTo
    <3>4. EntriesUpTo(Entries(b.access_list), i) = Entries(t[i].access_list)
      <4>1. n \in 0 .. n /\ i <= n
        BY <1>1, <2>2
      <4> QED BY <4>1, <2>2, <1>1 DEF IsTrace, n
    <3> QED BY <3>3, <3>4, <2>2, <1>6
  <2>3. CASE j = n + 1 /\ i = n + 1
    <3>1. EntriesUpTo(Entries(c.access_list), n + 1) = Entries(c.access_list)
      BY <1>3 DEF EntriesUpTo, WellBuilt, IsBlock
    <3> QED BY <3>1, <2>3, <1>6
  <2> QED BY <2>1, <2>2, <2>3, <1>7
<1>12. IsTrace(u, c)
  BY <1>3, <1>5, <1>6, <1>8, <1>9, <1>10, <1>11 DEF IsTrace
<1> QED BY <1>6, <1>12 DEF c, n

\* A transaction that follows the first n of a block reads, through the access
\* list of the whole block, the state the builder executed it in.
LEMMA ReadIsState ==
  ASSUME NEW c, WellBuilt(c), NEW al \in AccessList, NEW n \in Nat,
         EntriesUpTo(Entries(al), n) = Entries(c.access_list),
         NEW base, \A k \in Key \ DOMAIN c.bundle : base[k] = Parent[k]
  PROVE  Read(base, al, n + 1) = StateOf(c.bundle)
<1> DEFINE Before(k) == {w \in ToSet(al[k]) : w.index < n + 1}
           Latest(k) == CHOOSE w \in Before(k) : \A v \in Before(k) : v.index <= w.index
<1>1. ASSUME NEW k \in Key, NEW w \in Before(k)
      PROVE  /\ w \in Write /\ w.index \in Nat
             /\ \E e \in Entries(c.access_list) :
                  e.key = k /\ e.index = w.index /\ e.value = w.value
  <2> DEFINE e == [key |-> k, index |-> w.index, value |-> w.value]
  <2>1. w \in Write /\ e \in Entries(al)
    BY EntriesOfList
  <2>2. w.index \in Nat /\ w.index <= n
    BY <2>1 DEF Write
  <2>3. e.key = k /\ e.index = w.index /\ e.value = w.value
    OBVIOUS
  <2> HIDE DEF e
  <2>4. e \in Entries(c.access_list)
    BY <2>1, <2>2, <2>3 DEF EntriesUpTo
  <2> QED BY <2>1, <2>2, <2>3, <2>4
<1>2. ASSUME NEW e \in Entries(c.access_list)
      PROVE  /\ e.key \in Key /\ e.index \in Nat
             /\ [index |-> e.index, value |-> e.value] \in Before(e.key)
  <2>1. e \in Entries(al) /\ e.index <= n
    BY DEF EntriesUpTo
  <2>2. e \in Entry /\ [index |-> e.index, value |-> e.value] \in ToSet(al[e.key])
    BY <2>1, EntriesOfList
  <2>3. e.key \in Key /\ e.index \in Nat
    BY <2>2 DEF Entry
  <2> QED BY <2>1, <2>2, <2>3
<1>3. Listed(Entries(c.access_list), c.bundle) /\ c.bundle \in Change
  BY DEF WellBuilt, IsBlock, Block
<1> HIDE DEF Before
<1>4. ASSUME NEW k \in Key
      PROVE  (IF Before(k) = {} THEN base[k] ELSE Latest(k).value)
               = (IF k \in DOMAIN c.bundle THEN c.bundle[k] ELSE Parent[k])
  <2>1. CASE k \in DOMAIN c.bundle
    <3>1. PICK e \in Entries(c.access_list) :
            /\ e.key = k /\ e.value = c.bundle[k]
            /\ \A g \in Entries(c.access_list) : g.key = k => g = e \/ g.index < e.index
      BY <2>1, <1>3 DEF Listed
    <3> DEFINE w == [index |-> e.index, value |-> e.value]
    <3>2. w \in Before(k) /\ w.index = e.index /\ w.value = e.value /\ w.index \in Nat
      BY <3>1, <1>2
    <3>3. ASSUME NEW v \in Before(k) PROVE v = w \/ v.index < w.index
      <4>1. PICK g \in Entries(c.access_list) :
              g.key = k /\ g.index = v.index /\ g.value = v.value
        BY <1>1
      <4>2. v \in Write
        BY <1>1
      <4>3. v = [index |-> v.index, value |-> v.value]
        BY <4>2 DEF Write
      <4> QED BY <4>1, <4>3, <3>1, <3>2
    <3> HIDE DEF w
    <3>4. \A v \in Before(k) : v.index \in Nat
      BY <1>1
    <3>5. \A v \in Before(k) : v.index <= w.index
      BY <3>2, <3>3, <3>4
    <3>6. \A x \in Before(k) : (\A v \in Before(k) : v.index <= x.index) => x = w
      BY <3>2, <3>3, <3>4
    <3>7. Latest(k) = w
      BY <3>2, <3>5, <3>6
    <3> QED BY <2>1, <3>1, <3>2, <3>7
  <2>2. CASE k \notin DOMAIN c.bundle
    <3>1. Before(k) = {}
      BY <2>2, <1>1, <1>3 DEF Listed
    <3> QED BY <2>2, <3>1
  <2> QED BY <2>1, <2>2
<1>5. StateOf(c.bundle) = [k \in Key |-> IF k \in DOMAIN c.bundle THEN c.bundle[k] ELSE Parent[k]]
  <2>1. DOMAIN c.bundle \cup DOMAIN Parent = Key
    BY <1>3, ChangeFacts, BuilderAssumption DEF State
  <2> QED BY <2>1 DEF StateOf, Override
<1>6. Read(base, al, n + 1) = [k \in Key |-> IF Before(k) = {} THEN base[k] ELSE Latest(k).value]
  BY DEF Read, Before
<1> HIDE DEF Latest
<1> QED BY <1>4, <1>5, <1>6

-----------------------------------------------------------------------------
(***************************************************************************)
(* What is written since the system calls.                                 *)
(***************************************************************************)

\* The indices of the transactions of `b` that write key k.
Writes(b, k) == {e.index : e \in {w \in Entries(b.access_list) : w.key = k /\ w.index > 0}}

TxKeys(b) == {k \in Key : Writes(b, k) # {}}

\* The entries of a trace up to transaction i are those of its blocks from i on.
LEMMA WritesUpTo ==
  ASSUME NEW t, NEW b, IsTrace(t, b), NEW j \in 0 .. Len(b.txs), NEW i \in 0 .. j
  PROVE  /\ Entries(t[i].access_list) \subseteq Entries(t[j].access_list)
         /\ \A e \in Entries(t[j].access_list) : e.index <= i => e \in Entries(t[i].access_list)
         /\ \A k : Writes(t[i], k) = {x \in Writes(t[j], k) : x <= i}
         /\ \A k : Writes(t[j], k) \subseteq 1 .. j
<1>1. i \in 0 .. Len(b.txs) /\ i <= j /\ Len(b.txs) \in Nat
  BY DEF IsTrace
<1>2. EntriesUpTo(Entries(t[j].access_list), i) = Entries(t[i].access_list)
  BY <1>1 DEF IsTrace
<1>3. /\ Entries(t[j].access_list) \subseteq Entry
      /\ \A e \in Entries(t[j].access_list) : e.index <= j /\ e.index \in Nat
  BY EntriesOfBlock DEF IsTrace, WellBuilt, IsBlock
<1>4. \A k : Writes(t[j], k) \subseteq 1 .. j
  BY <1>1, <1>3 DEF Writes
<1>5. \A k : Writes(t[i], k) = {x \in Writes(t[j], k) : x <= i}
  BY <1>2 DEF Writes, EntriesUpTo
<1> QED BY <1>2, <1>4, <1>5 DEF EntriesUpTo

\* One transaction more.
LEMMA WritesOfNext ==
  ASSUME NEW t, NEW b, IsTrace(t, b), NEW j \in 1 .. Len(b.txs)
  PROVE  LET w == Written(t[j - 1], b.txs[j])
         IN /\ w \in Change
            /\ t[j].bundle = Override(w, t[j - 1].bundle)
            /\ t[j].access_list = Extend(t[j - 1].access_list, AccessListEntries(w, j))
            /\ Entries(t[j].access_list) = Entries(t[j - 1].access_list) \cup ChangeEntries(w, j)
            /\ \A k : j \in Writes(t[j], k) <=> k \in DOMAIN w
            /\ TxKeys(t[j]) = TxKeys(t[j - 1]) \cup DOMAIN w
<1> DEFINE w == Written(t[j - 1], b.txs[j])
<1>1. /\ j - 1 \in 0 .. Len(b.txs) /\ j \in 0 .. Len(b.txs) /\ j \in Nat /\ j > 0
      /\ (j - 1) + 1 = j /\ b.txs[j] \in Tx
  BY DEF IsTrace
<1>2. WellBuilt(t[j - 1]) /\ Len(t[j - 1].txs) = j - 1 /\ t[j] = Execute(t[j - 1], b.txs[j])
  BY <1>1 DEF IsTrace
<1>3. /\ t[j].bundle = Override(w, t[j - 1].bundle)
      /\ t[j].access_list = Extend(t[j - 1].access_list, AccessListEntries(w, j))
      /\ Entries(t[j].access_list) = Entries(t[j - 1].access_list) \cup ChangeEntries(w, j)
  BY <1>1, <1>2, ExecuteFacts
<1>4. w \in Change
  BY <1>1, <1>2, WrittenType DEF WellBuilt, IsBlock
<1>5. /\ \A e \in ChangeEntries(w, j) : e.key \in DOMAIN w /\ e.index = j
      /\ \A k \in DOMAIN w : \E e \in ChangeEntries(w, j) : e.key = k
      /\ DOMAIN w \subseteq Key
  BY <1>1, <1>4, EntryFacts, ChangeFacts
<1>6. \A e \in Entries(t[j - 1].access_list) : e.index <= j - 1 /\ e.index \in Nat
  BY <1>2, EntriesOfBlock DEF WellBuilt
<1> HIDE DEF w
<1>7. \A k : j \in Writes(t[j], k) <=> k \in DOMAIN w
  BY <1>1, <1>3, <1>5, <1>6 DEF Writes
<1>8. \A k : Writes(t[j], k) = Writes(t[j - 1], k) \cup (IF k \in DOMAIN w THEN {j} ELSE {})
  BY <1>1, <1>3, <1>5 DEF Writes
<1>9. TxKeys(t[j]) = TxKeys(t[j - 1]) \cup DOMAIN w
  BY <1>5, <1>8 DEF TxKeys
<1> QED BY <1>3, <1>4, <1>7, <1>9 DEF w

\* Nothing is written to a key after the last write to it.
LEMMA ValueOfLastWrite ==
  ASSUME NEW t, NEW b, IsTrace(t, b), NEW j \in 0 .. Len(b.txs), NEW i \in 0 .. j,
         NEW k \in TxKeys(t[j]), Writes(t[j], k) \subseteq 1 .. i
  PROVE  t[j].bundle[k] = t[i].bundle[k]
<1>1. i \in 0 .. Len(b.txs) /\ i \in Nat
  BY DEF IsTrace
<1>2. /\ Listed(Entries(t[j].access_list), t[j].bundle)
      /\ Listed(Entries(t[i].access_list), t[i].bundle)
      /\ \A e \in Entries(t[j].access_list) : e.index \in Nat
  BY <1>1, EntriesOfBlock DEF IsTrace, WellBuilt
<1>3. /\ Entries(t[i].access_list) \subseteq Entries(t[j].access_list)
      /\ \A e \in Entries(t[j].access_list) : e.index <= i => e \in Entries(t[i].access_list)
  BY WritesUpTo
<1>4. PICK w \in Entries(t[j].access_list) : w.key = k /\ w.index > 0
  BY DEF TxKeys, Writes
<1>5. PICK e \in Entries(t[j].access_list) :
        /\ e.key = k /\ e.value = t[j].bundle[k]
        /\ \A g \in Entries(t[j].access_list) : g.key = k => g = e \/ g.index < e.index
  BY <1>2, <1>4 DEF Listed
<1>6. e.index > 0 /\ e.index <= i
  <2>1. w.index <= e.index /\ e.index \in Nat /\ w.index \in Nat
    BY <1>2, <1>4, <1>5
  <2>2. e.index > 0
    BY <2>1, <1>4
  <2>3. e.index \in Writes(t[j], k)
    BY <2>2, <1>5 DEF Writes
  <2> QED BY <2>2, <2>3
<1>7. e \in Entries(t[i].access_list)
  BY <1>3, <1>5, <1>6
<1>8. PICK g \in Entries(t[i].access_list) :
        /\ g.key = k /\ g.value = t[i].bundle[k]
        /\ \A h \in Entries(t[i].access_list) : h.key = k => h = g \/ h.index < g.index
  BY <1>2, <1>5, <1>7 DEF Listed
<1>9. g = e
  BY <1>2, <1>3, <1>5, <1>7, <1>8
<1> QED BY <1>5, <1>8, <1>9

-----------------------------------------------------------------------------
(***************************************************************************)
(* One flashblock, executed in parallel: transactions lo + 1 .. lo + m of  *)
(* the builder's block b, on a prestate that has the first lo of them.     *)
(***************************************************************************)

\* `s` are the transactions of `b` after the first lo, up to hi.
IsSpan(s, b, lo, hi) ==
  /\ s \in Seq(Tx)
  /\ lo <= hi /\ Len(s) = hi - lo
  /\ \A i \in 1 .. (hi - lo) : s[i] = b.txs[lo + i]

SameExecution(p, b) ==
  /\ p.txs = b.txs
  /\ p.receipts = b.receipts
  /\ p.gas_used = b.gas_used
  /\ p.fees = b.fees

\* What an execution starts from, when lo transactions have been executed.
IsPrestate(t, lo) ==
  /\ IsBlock(Prestate)
  /\ SameExecution(Prestate, t[lo])
  /\ DOMAIN Prestate.bundle = TxKeys(t[lo])
  /\ PreExecution \in Change
  /\ DOMAIN PreExecution \subseteq DOMAIN t[lo].bundle
  /\ AccessListBefore \in AccessList

IsAhead(t, b, lo, m, fb) ==
  /\ lo + m \in 0 .. Len(b.txs)
  /\ fb.block = t[lo + m]
  /\ IsSpan(fb.txs, b, lo, lo + m)

\* The keys of a block are the keys of the blocks it becomes.
LEMMA KeysGrow ==
  ASSUME NEW t, NEW b, IsTrace(t, b), NEW j \in 0 .. Len(b.txs), NEW i \in 0 .. j
  PROVE  /\ DOMAIN t[i].bundle \subseteq DOMAIN t[j].bundle
         /\ TxKeys(t[i]) \subseteq DOMAIN t[i].bundle
         /\ TxKeys(t[i]) \subseteq TxKeys(t[j])
<1>1. i \in 0 .. Len(b.txs)
  BY DEF IsTrace
<1>2. /\ Listed(Entries(t[j].access_list), t[j].bundle)
      /\ Listed(Entries(t[i].access_list), t[i].bundle)
  BY <1>1 DEF IsTrace, WellBuilt
<1>3. Entries(t[i].access_list) \subseteq Entries(t[j].access_list)
  BY WritesUpTo
<1>4. DOMAIN t[i].bundle \subseteq DOMAIN t[j].bundle
  BY <1>2, <1>3 DEF Listed
<1>5. TxKeys(t[i]) \subseteq DOMAIN t[i].bundle
  BY <1>2 DEF Listed, TxKeys, Writes
<1>6. TxKeys(t[i]) \subseteq TxKeys(t[j])
  BY <1>3 DEF TxKeys, Writes
<1> QED BY <1>4, <1>5, <1>6

\* The result that the parallel execution gives for transaction lo + i.
Result(t, b, lo, i) ==
  LET tx == b.txs[lo + i]
      st == StateOf(t[lo + i - 1].bundle)
      w == Written(t[lo + i - 1], tx)
  IN [tx |-> tx,
      bundle |-> Override(w, Prestate.bundle),
      gas |-> Effect[tx][st].gas,
      nonce |-> st[Signer[tx]],
      access_list |-> Extend(AccessListBefore, AccessListEntries(w, lo + i))]

\* Each transaction of the flashblock is executed in the state that the builder
\* executed it in, whatever the earlier ones wrote.
LEMMA ResultFacts ==
  ASSUME NEW t, NEW b, IsTrace(t, b), NEW lo \in Nat, NEW m \in Nat, NEW fb,
         IsAhead(t, b, lo, m, fb), IsPrestate(t, lo), NEW i \in 1 .. m
  PROVE  /\ Len(fb.txs) = m
         /\ ParallelResults(fb)[i] = Result(t, b, lo, i)
<1> DEFINE c == t[lo + i - 1]
           al == t[lo + m].access_list
           base == StateOf(Prestate.bundle)
           over == Override(PreExecution, base)
           n == lo + i - 1
<1>1. /\ Len(b.txs) \in Nat /\ lo + m \in 0 .. Len(b.txs) /\ n \in 0 .. (lo + m) /\ n \in Nat
      /\ n \in 0 .. Len(b.txs) /\ lo \in 0 .. n /\ n + 1 = lo + i
      /\ fb.txs[i] = b.txs[lo + i] /\ Len(fb.txs) = m
  <2>1. Len(b.txs) \in Nat /\ lo + m \in 0 .. Len(b.txs)
    BY DEF IsTrace, IsAhead
  <2>2. Len(fb.txs) = (lo + m) - lo /\ \A x \in 1 .. ((lo + m) - lo) : fb.txs[x] = b.txs[lo + x]
    BY DEF IsAhead, IsSpan
  <2>3. (lo + m) - lo = m /\ n \in Nat /\ n + 1 = lo + i
    OBVIOUS
  <2>4. fb.txs[i] = b.txs[lo + i] /\ Len(fb.txs) = m
    BY <2>2, <2>3
  <2>5. /\ n \in 0 .. (lo + m) /\ lo \in 0 .. n
        /\ \A l \in Nat : lo + m \in 0 .. l => n \in 0 .. l
    OBVIOUS
  <2> QED BY <2>1, <2>3, <2>4, <2>5
<1>2. WellBuilt(c) /\ WellBuilt(t[lo + m]) /\ Len(c.txs) = n
  BY <1>1 DEF IsTrace
<1>3. al \in AccessList
  BY <1>2 DEF WellBuilt, IsBlock, Block
<1>4. EntriesUpTo(Entries(al), n) = Entries(c.access_list)
  BY <1>1 DEF IsTrace
<1>5. DOMAIN t[lo].bundle \subseteq DOMAIN c.bundle /\ TxKeys(t[lo]) \subseteq DOMAIN t[lo].bundle
  <2>1. lo \in 0 .. lo /\ lo \in 0 .. Len(b.txs)
    BY <1>1
  <2> QED BY <2>1, <1>1, KeysGrow
<1>6. Prestate.bundle \in Change /\ Len(Prestate.txs) = lo
  <2>1. Len(t[lo].txs) = lo
    BY <1>1 DEF IsTrace
  <2> QED BY <2>1 DEF IsPrestate, IsBlock, Block, SameExecution
<1>7. base \in State /\ \A k \in Key \ DOMAIN c.bundle : base[k] = Parent[k]
  <2>1. \A k \in Key \ DOMAIN Prestate.bundle : base[k] = Parent[k]
    BY <1>6, StateFacts
  <2>2. DOMAIN Prestate.bundle \subseteq DOMAIN c.bundle
    BY <1>5 DEF IsPrestate
  <2>3. base \in State
    BY <1>6, StateFacts
  <2> QED BY <2>1, <2>2, <2>3
<1>8. \A k \in Key \ DOMAIN c.bundle : over[k] = Parent[k]
  <2>1. DOMAIN base = Key
    BY <1>7 DEF State
  <2>2. DOMAIN PreExecution \subseteq DOMAIN c.bundle
    BY <1>5 DEF IsPrestate
  <2>3. \A k \in DOMAIN base \ DOMAIN PreExecution : over[k] = base[k]
    BY OverrideFacts
  <2> QED BY <2>1, <2>2, <2>3, <1>7
<1> HIDE DEF c, al, base, over, n
<1>9. Read(base, al, n + 1) = StateOf(c.bundle)
  BY <1>1, <1>2, <1>3, <1>4, <1>7, ReadIsState
<1>10. Read(over, al, n + 1) = StateOf(c.bundle)
  BY <1>1, <1>2, <1>3, <1>4, <1>8, ReadIsState
<1>11. TransactionsOffset + i - 1 = n + 1
  BY <1>1, <1>6 DEF TransactionsOffset, n
<1>12. fb.block.access_list = al
  BY DEF IsAhead, al
<1>13. ParallelResults(fb)[i] =
         LET tx == fb.txs[i]
             index == TransactionsOffset + i - 1
             effect == Effect[tx][Read(base, fb.block.access_list, index)]
         IN [tx |-> tx,
             bundle |-> Override(effect.writes, Prestate.bundle),
             gas |-> effect.gas,
             nonce |-> Read(over, fb.block.access_list, index)[Signer[tx]],
             access_list |-> Extend(AccessListBefore, AccessListEntries(effect.writes, index))]
  <2>1. i \in 1 .. Len(fb.txs)
    BY <1>1
  <2> QED BY <2>1 DEF ParallelResults, base, over
<1>14. ParallelResults(fb)[i] =
         [tx |-> b.txs[lo + i],
          bundle |-> Override(Effect[b.txs[lo + i]][StateOf(c.bundle)].writes, Prestate.bundle),
          gas |-> Effect[b.txs[lo + i]][StateOf(c.bundle)].gas,
          nonce |-> StateOf(c.bundle)[Signer[b.txs[lo + i]]],
          access_list |-> Extend(AccessListBefore,
            AccessListEntries(Effect[b.txs[lo + i]][StateOf(c.bundle)].writes, lo + i))]
  BY <1>1, <1>9, <1>10, <1>11, <1>12, <1>13
<1> QED BY <1>1, <1>14 DEF Result, Written, c, n

\* What the first i results of the flashblock are merged into.
Merged(t, lo, i, acc) ==
  /\ acc \in Block
  /\ SameExecution(acc, t[lo + i])
  /\ DOMAIN acc.bundle = TxKeys(t[lo + i])
  /\ \A k \in DOMAIN acc.bundle :
       acc.bundle[k] =
         IF k \in DOMAIN Prestate.bundle /\ ~(i > 0 /\ lo + i \in Writes(t[lo + i], k))
         THEN Prestate.bundle[k] ELSE t[lo + i].bundle[k]
  /\ Entries(acc.access_list) =
       IF i = 0 THEN {}
       ELSE Entries(AccessListBefore) \cup {e \in Entries(t[lo + i].access_list) : e.index > lo}
  /\ i = 0 => acc.access_list = EmptyList
  /\ i = 1 /\ AccessListBefore = t[lo].access_list => acc.access_list = t[lo + i].access_list

\* Nothing is merged yet.
LEMMA MergedStarts ==
  ASSUME NEW t, NEW lo \in Nat, IsPrestate(t, lo)
  PROVE  Merged(t, lo, 0, [Prestate EXCEPT !.access_list = EmptyList])
<1> DEFINE p == [Prestate EXCEPT !.access_list = EmptyList]
<1>1. Prestate \in Block
  BY DEF IsPrestate, IsBlock
<1>2. /\ p.txs = Prestate.txs /\ p.receipts = Prestate.receipts /\ p.bundle = Prestate.bundle
      /\ p.gas_used = Prestate.gas_used /\ p.fees = Prestate.fees
      /\ p.access_list = EmptyList /\ Entries(p.access_list) = {} /\ p \in Block
  BY <1>1, EmptyListFacts DEF Block
<1>3. lo + 0 = lo
  OBVIOUS
<1> HIDE DEF p
<1>4. SameExecution(p, t[lo + 0]) /\ DOMAIN p.bundle = TxKeys(t[lo + 0])
  BY <1>2, <1>3 DEF IsPrestate, SameExecution
<1>5. \A k \in DOMAIN p.bundle :
        p.bundle[k] =
          IF k \in DOMAIN Prestate.bundle /\ ~(0 > 0 /\ lo + 0 \in Writes(t[lo + 0], k))
          THEN Prestate.bundle[k] ELSE t[lo + 0].bundle[k]
  BY <1>2
<1> QED BY <1>2, <1>4, <1>5 DEF Merged, p

\* One more result is merged.
LEMMA MergedGrows ==
  ASSUME NEW t, NEW b, IsTrace(t, b), NEW lo \in Nat, IsPrestate(t, lo),
         NEW i \in Nat, lo + i + 1 <= Len(b.txs), NEW acc, Merged(t, lo, i, acc)
  PROVE  Merged(t, lo, i + 1, Merge(acc, Result(t, b, lo, i + 1)))
<1> DEFINE j == lo + i
           tx == b.txs[j + 1]
           st == StateOf(t[j].bundle)
           w == Written(t[j], tx)
           r == Result(t, b, lo, i + 1)
           new == Merge(acc, r)
           gas == acc.gas_used + r.gas
<1>1. /\ Len(b.txs) \in Nat /\ j \in 0 .. Len(b.txs) /\ j + 1 \in 1 .. Len(b.txs)
      /\ j + 1 \in 0 .. Len(b.txs) /\ (j + 1) - 1 = j /\ tx \in Tx
      /\ lo + (i + 1) = j + 1 /\ lo + (i + 1) - 1 = j /\ j \in Nat
  BY DEF IsTrace
<1>2. t[j + 1] = Execute(t[j], tx) /\ WellBuilt(t[j]) /\ WellBuilt(t[j + 1])
  <2>1. t[j + 1] = Execute(t[(j + 1) - 1], b.txs[j + 1])
    BY <1>1 DEF IsTrace
  <2>2. WellBuilt(t[j]) /\ WellBuilt(t[j + 1])
    BY <1>1 DEF IsTrace
  <2> QED BY <2>1, <2>2, <1>1
<1>3. /\ w \in Change
      /\ t[j + 1].bundle = Override(w, t[j].bundle)
      /\ t[j + 1].access_list = Extend(t[j].access_list, AccessListEntries(w, j + 1))
      /\ Entries(t[j + 1].access_list) = Entries(t[j].access_list) \cup ChangeEntries(w, j + 1)
      /\ \A k : j + 1 \in Writes(t[j + 1], k) <=> k \in DOMAIN w
      /\ TxKeys(t[j + 1]) = TxKeys(t[j]) \cup DOMAIN w
  <2> DEFINE n == j + 1
  <2>1. n \in 1 .. Len(b.txs) /\ n - 1 = j
    BY <1>1
  <2> HIDE DEF n, j
  <2>2. LET v == Written(t[n - 1], b.txs[n])
        IN /\ v \in Change
           /\ t[n].bundle = Override(v, t[n - 1].bundle)
           /\ t[n].access_list = Extend(t[n - 1].access_list, AccessListEntries(v, n))
           /\ Entries(t[n].access_list) = Entries(t[n - 1].access_list) \cup ChangeEntries(v, n)
           /\ \A k : n \in Writes(t[n], k) <=> k \in DOMAIN v
           /\ TxKeys(t[n]) = TxKeys(t[n - 1]) \cup DOMAIN v
    BY <2>1, WritesOfNext
  <2> QED BY <2>1, <2>2 DEF n
<1>4. /\ r.tx = tx /\ r.bundle = Override(w, Prestate.bundle) /\ r.gas = Effect[tx][st].gas
      /\ r.nonce = st[Signer[tx]]
      /\ r.access_list = Extend(AccessListBefore, AccessListEntries(w, j + 1))
  BY <1>1 DEF Result
<1>5. /\ st \in State /\ Effect[tx][st].gas \in Nat /\ st[Signer[tx]] \in Value
  BY <1>1, <1>2, WrittenType DEF WellBuilt, IsBlock
<1>6. /\ new.txs = Append(acc.txs, r.tx)
      /\ new.receipts = Append(acc.receipts, Receipt(r.tx, r.nonce, gas))
      /\ new.bundle = Override(r.bundle, acc.bundle)
      /\ new.gas_used = gas
      /\ new.fees = acc.fees + Fee(r.tx, r.gas)
      /\ new.access_list = Extend(acc.access_list, r.access_list)
  BY DEF Merge
<1>7. new = [txs |-> new.txs, receipts |-> new.receipts, bundle |-> new.bundle,
             gas_used |-> new.gas_used, fees |-> new.fees, access_list |-> new.access_list]
  BY DEF Merge
<1>8. /\ t[j + 1].txs = Append(t[j].txs, tx)
      /\ t[j + 1].receipts =
           Append(t[j].receipts, Receipt(tx, st[Signer[tx]], t[j].gas_used + Effect[tx][st].gas))
      /\ t[j + 1].gas_used = t[j].gas_used + Effect[tx][st].gas
      /\ t[j + 1].fees = t[j].fees + Fee(tx, Effect[tx][st].gas)
  <2> DEFINE c == t[j]
             d == Execute(c, tx)
  <2>1. /\ d.txs = Append(c.txs, tx)
        /\ d.receipts =
             Append(c.receipts, Receipt(tx, StateOf(c.bundle)[Signer[tx]],
                                        c.gas_used + Effect[tx][StateOf(c.bundle)].gas))
        /\ d.gas_used = c.gas_used + Effect[tx][StateOf(c.bundle)].gas
        /\ d.fees = c.fees + Fee(tx, Effect[tx][StateOf(c.bundle)].gas)
    BY DEF Execute
  <2> HIDE DEF d, tx
  <2> QED BY <2>1, <1>2 DEF d
<1>9. IsBlock(Prestate) /\ DOMAIN Prestate.bundle = TxKeys(t[lo])
      /\ SameExecution(Prestate, t[lo]) /\ AccessListBefore \in AccessList
  BY DEF IsPrestate
<1>10. /\ acc \in Block
       /\ SameExecution(acc, t[j])
       /\ DOMAIN acc.bundle = TxKeys(t[j])
       /\ \A k \in DOMAIN acc.bundle :
            k \notin DOMAIN Prestate.bundle => acc.bundle[k] = t[j].bundle[k]
       /\ Entries(acc.access_list) =
            IF i = 0 THEN {}
            ELSE Entries(AccessListBefore) \cup {e \in Entries(t[j].access_list) : e.index > lo}
       /\ i = 0 => acc.access_list = EmptyList
  BY DEF Merged
<1>11. DOMAIN Prestate.bundle \subseteq TxKeys(t[j]) /\ TxKeys(t[j]) \subseteq DOMAIN t[j].bundle
  <2>1. lo \in 0 .. j /\ j \in 0 .. j
    BY <1>1
  <2> QED BY <2>1, <1>1, <1>9, KeysGrow
<1> HIDE DEF r, new, gas, w, st, tx, j
<1>12. SameExecution(new, t[j + 1])
  BY <1>4, <1>6, <1>8, <1>10 DEF SameExecution, gas
<1>13. /\ DOMAIN new.bundle = TxKeys(t[j + 1])
       /\ \A k \in DOMAIN w : new.bundle[k] = w[k]
       /\ \A k \in DOMAIN Prestate.bundle \ DOMAIN w : new.bundle[k] = Prestate.bundle[k]
       /\ \A k \in DOMAIN acc.bundle \ (DOMAIN w \cup DOMAIN Prestate.bundle) :
            new.bundle[k] = acc.bundle[k]
  <2>1. /\ DOMAIN r.bundle = DOMAIN w \cup DOMAIN Prestate.bundle
        /\ \A k \in DOMAIN w : r.bundle[k] = w[k]
        /\ \A k \in DOMAIN Prestate.bundle \ DOMAIN w : r.bundle[k] = Prestate.bundle[k]
    <3> DEFINE o == Override(w, Prestate.bundle)
    <3>1. /\ DOMAIN o = DOMAIN w \cup DOMAIN Prestate.bundle
          /\ \A k \in DOMAIN w : o[k] = w[k]
          /\ \A k \in DOMAIN Prestate.bundle \ DOMAIN w : o[k] = Prestate.bundle[k]
      BY OverrideFacts
    <3>2. r.bundle = o
      BY <1>4
    <3> HIDE DEF o
    <3> QED BY <3>1, <3>2
  <2>2. /\ DOMAIN new.bundle = DOMAIN r.bundle \cup DOMAIN acc.bundle
        /\ \A k \in DOMAIN r.bundle : new.bundle[k] = r.bundle[k]
        /\ \A k \in DOMAIN acc.bundle \ DOMAIN r.bundle : new.bundle[k] = acc.bundle[k]
    <3> DEFINE o == Override(r.bundle, acc.bundle)
    <3>1. /\ DOMAIN o = DOMAIN r.bundle \cup DOMAIN acc.bundle
          /\ \A k \in DOMAIN r.bundle : o[k] = r.bundle[k]
          /\ \A k \in DOMAIN acc.bundle \ DOMAIN r.bundle : o[k] = acc.bundle[k]
      BY OverrideFacts
    <3>2. new.bundle = o
      BY <1>6
    <3> HIDE DEF o
    <3> QED BY <3>1, <3>2
  <2>3. DOMAIN new.bundle = TxKeys(t[j + 1])
    BY <2>1, <2>2, <1>3, <1>10, <1>11
  <2> QED BY <2>1, <2>2, <2>3
<1>14. /\ \A k \in DOMAIN w : t[j + 1].bundle[k] = w[k]
       /\ \A k \in DOMAIN t[j].bundle \ DOMAIN w : t[j + 1].bundle[k] = t[j].bundle[k]
  <2> DEFINE o == Override(w, t[j].bundle)
  <2>1. /\ \A k \in DOMAIN w : o[k] = w[k]
        /\ \A k \in DOMAIN t[j].bundle \ DOMAIN w : o[k] = t[j].bundle[k]
    BY OverrideFacts
  <2>2. t[j + 1].bundle = o
    BY <1>3
  <2> HIDE DEF o
  <2> QED BY <2>1, <2>2
<1>15. ASSUME NEW k \in DOMAIN new.bundle
       PROVE  new.bundle[k] =
                IF k \in DOMAIN Prestate.bundle
                     /\ ~(i + 1 > 0 /\ j + 1 \in Writes(t[j + 1], k))
                THEN Prestate.bundle[k] ELSE t[j + 1].bundle[k]
  <2>1. i + 1 > 0 /\ (j + 1 \in Writes(t[j + 1], k) <=> k \in DOMAIN w)
    BY <1>3
  <2>2. k \in TxKeys(t[j]) \/ k \in DOMAIN w
    BY <1>3, <1>13
  <2>3. CASE k \in DOMAIN w
    BY <2>1, <2>3, <1>13, <1>14
  <2>4. CASE k \notin DOMAIN w /\ k \in DOMAIN Prestate.bundle
    BY <2>1, <2>4, <1>13
  <2>5. CASE k \notin DOMAIN w /\ k \notin DOMAIN Prestate.bundle
    BY <2>1, <2>2, <2>5, <1>10, <1>11, <1>13, <1>14
  <2> QED BY <2>3, <2>4, <2>5
<1>16. /\ AccessListEntries(w, j + 1) \in AccessList
       /\ Entries(AccessListEntries(w, j + 1)) = ChangeEntries(w, j + 1)
       /\ r.access_list \in AccessList /\ new.access_list \in AccessList
       /\ Entries(r.access_list) = Entries(AccessListBefore) \cup ChangeEntries(w, j + 1)
       /\ Entries(new.access_list) = Entries(acc.access_list) \cup Entries(r.access_list)
  <2> DEFINE more == AccessListEntries(w, j + 1)
  <2>1. more \in AccessList /\ Entries(more) = ChangeEntries(w, j + 1)
    <3>1. j + 1 \in Nat
      BY <1>1
    <3> QED BY <3>1, <1>3, ListOfChange
  <2>2. acc.access_list \in AccessList
    BY <1>10 DEF Block
  <2>3. r.access_list = Extend(AccessListBefore, more)
    BY <1>4
  <2> HIDE DEF more
  <2>4. /\ r.access_list \in AccessList
        /\ Entries(r.access_list) = Entries(AccessListBefore) \cup Entries(more)
    BY <2>1, <2>3, <1>9, ExtendFacts
  <2>5. /\ new.access_list \in AccessList
        /\ Entries(new.access_list) = Entries(acc.access_list) \cup Entries(r.access_list)
    BY <2>2, <2>4, <1>6, ExtendFacts
  <2> QED BY <2>1, <2>4, <2>5 DEF more
<1>17. Entries(new.access_list) =
         Entries(AccessListBefore) \cup {e \in Entries(t[j + 1].access_list) : e.index > lo}
  <2>1. \A e \in ChangeEntries(w, j + 1) : e.index > lo
    <3>1. \A e \in ChangeEntries(w, j + 1) : e.index = j + 1
      BY DEF ChangeEntries
    <3> QED BY <3>1 DEF j
  <2>2. CASE i = 0
    <3>1. \A e \in Entries(t[j].access_list) : e.index <= lo /\ e.index \in Nat
      <4>1. Len(t[lo].txs) = lo /\ WellBuilt(t[lo]) /\ j = lo
        BY <2>2, <1>1 DEF IsTrace, j
      <4> QED BY <4>1, EntriesOfBlock DEF WellBuilt
    <3>2. {e \in Entries(t[j + 1].access_list) : e.index > lo} = ChangeEntries(w, j + 1)
      BY <3>1, <2>1, <1>3
    <3> QED BY <3>2, <2>2, <1>10, <1>16
  <2>3. CASE i # 0
    <3>1. {e \in Entries(t[j + 1].access_list) : e.index > lo}
            = {e \in Entries(t[j].access_list) : e.index > lo} \cup ChangeEntries(w, j + 1)
      BY <2>1, <1>3
    <3> QED BY <3>1, <2>3, <1>10, <1>16
  <2> QED BY <2>2, <2>3
<1>18. ASSUME i + 1 = 1, AccessListBefore = t[lo].access_list
       PROVE  new.access_list = t[j + 1].access_list
  <2>1. i = 0 /\ j = lo
    BY <1>18 DEF j
  <2>2. acc.access_list = EmptyList
    BY <2>1, <1>10
  <2>3. new.access_list = r.access_list
    BY <2>2, <1>6, <1>16, EmptyListFacts
  <2> QED BY <2>1, <2>3, <1>3, <1>4, <1>18
<1>19. new \in Block
  <2>1. /\ acc.txs \in Seq(Tx) /\ acc.bundle \in Change /\ acc.gas_used \in Nat /\ acc.fees \in Nat
        /\ acc.receipts \in Seq([deposit_nonce : Value \cup {None}, cumulative_gas_used : Nat])
    BY <1>10 DEF Block
  <2>2. gas \in Nat
    BY <2>1, <1>4, <1>5 DEF gas
  <2>3. Receipt(r.tx, r.nonce, gas)
          \in [deposit_nonce : Value \cup {None}, cumulative_gas_used : Nat]
    BY <2>2, <1>4, <1>5 DEF Receipt
  <2>4. new.fees \in Nat
    <3>1. Fee(r.tx, r.gas) \in Nat
      BY <1>1, <1>4, <1>5, FeeType
    <3> QED BY <3>1, <2>1, <1>6
  <2>5. new.bundle \in Change
    <3>1. Prestate.bundle \in Change
      BY <1>9 DEF IsBlock, Block
    <3>2. r.bundle \in Change
      BY <3>1, <1>3, <1>4, OverrideType
    <3> QED BY <3>2, <2>1, <1>6, OverrideType
  <2>6. /\ new.txs \in Seq(Tx) /\ new.gas_used \in Nat
        /\ new.receipts \in Seq([deposit_nonce : Value \cup {None}, cumulative_gas_used : Nat])
    BY <2>1, <2>2, <2>3, <1>1, <1>4, <1>6
  <2> QED BY <2>4, <2>5, <2>6, <1>7, <1>16 DEF Block
<1>20. lo + (i + 1) = j + 1 /\ i + 1 # 0
  BY <1>1
<1>21. /\ \A k \in DOMAIN new.bundle :
            new.bundle[k] =
              IF k \in DOMAIN Prestate.bundle
                   /\ ~(i + 1 > 0 /\ lo + (i + 1) \in Writes(t[lo + (i + 1)], k))
              THEN Prestate.bundle[k] ELSE t[lo + (i + 1)].bundle[k]
  BY <1>15, <1>20
<1>22. Entries(new.access_list) =
         IF i + 1 = 0 THEN {}
         ELSE Entries(AccessListBefore)
                \cup {e \in Entries(t[lo + (i + 1)].access_list) : e.index > lo}
  BY <1>17, <1>20
<1>23. i + 1 = 1 /\ AccessListBefore = t[lo].access_list =>
         new.access_list = t[lo + (i + 1)].access_list
  BY <1>20, <1>18
<1>24. SameExecution(new, t[lo + (i + 1)]) /\ DOMAIN new.bundle = TxKeys(t[lo + (i + 1)])
  BY <1>12, <1>13, <1>20
<1> QED BY <1>19, <1>20, <1>21, <1>22, <1>24, <1>23 DEF Merged, new, r

\* The whole flashblock, merged.
LEMMA BuildFacts ==
  ASSUME NEW t, NEW b, IsTrace(t, b), NEW lo \in Nat, NEW m \in Nat, NEW fb,
         IsAhead(t, b, lo, m, fb), IsPrestate(t, lo)
  PROVE  Merged(t, lo, m, Build(fb))
<1> DEFINE p == [Prestate EXCEPT !.access_list = EmptyList]
           res == ParallelResults(fb)
<1>1. lo + m <= Len(b.txs) /\ Len(b.txs) \in Nat
  BY DEF IsAhead, IsTrace
<1>2. Len(fb.txs) = m
  <2>1. Len(fb.txs) = (lo + m) - lo
    BY DEF IsAhead, IsSpan
  <2> QED BY <2>1
<1>3. DOMAIN res = 1 .. m
  BY <1>2 DEF ParallelResults
<1>4. \A i \in 1 .. m : res[i] = Result(t, b, lo, i)
  BY ResultFacts
<1>5. Merged(t, lo, 0, p)
  BY MergedStarts
<1>6. Build(fb) = MergeAll(p, res)
  BY DEF Build, MergeAll
<1> HIDE DEF p, res
<1>7. PICK g : /\ g[0] = p
               /\ \A i \in 1 .. m : g[i] = Merge(g[i - 1], res[i])
               /\ MergeAll(p, res) = g[m]
  BY <1>3, MergeOneByOne
<1> DEFINE S == {i \in Nat : i <= m => Merged(t, lo, i, g[i])}
<1>8. 0 \in S
  BY <1>5, <1>7
<1>9. ASSUME NEW i \in Nat, i \in S PROVE i + 1 \in S
  <2> SUFFICES ASSUME i + 1 <= m PROVE Merged(t, lo, i + 1, g[i + 1])
    OBVIOUS
  <2>1. i + 1 \in 1 .. m /\ (i + 1) - 1 = i /\ lo + i + 1 <= Len(b.txs)
    BY <1>1
  <2>2. Merged(t, lo, i, g[i])
    BY <1>9
  <2>3. g[i + 1] = Merge(g[i], Result(t, b, lo, i + 1))
    BY <2>1, <1>4, <1>7
  <2>4. Merged(t, lo, i + 1, Merge(g[i], Result(t, b, lo, i + 1)))
    BY <2>1, <2>2, MergedGrows
  <2> QED BY <2>3, <2>4
<1> HIDE DEF S
<1>10. Nat \subseteq S
  BY <1>8, <1>9, SetInduction
<1>11. Merged(t, lo, m, g[m])
  BY <1>10 DEF S
<1> QED BY <1>6, <1>7, <1>11

-----------------------------------------------------------------------------
(***************************************************************************)
(* The flashblocks cut the builder's block, and the follower is at one of  *)
(* the cuts.                                                               *)
(***************************************************************************)

\* How many transactions the block has at flashblock f.
End(pub, f) == IF f = 0 THEN 0 ELSE Len(pub[f].block.txs)

\* Each flashblock is a cut of the trace, with the transactions since the cut
\* before it; `s` are those since the last.
IsCut(t, b, pub, s) ==
  /\ pub \in Seq([txs : Seq(Tx), block : Block])
  /\ \A f \in 0 .. Len(pub) : End(pub, f) \in 0 .. Len(b.txs)
  /\ \A f, g \in 0 .. Len(pub) : f <= g => End(pub, f) <= End(pub, g)
  /\ \A f \in 1 .. Len(pub) : /\ pub[f].block = t[End(pub, f)]
                              /\ IsSpan(pub[f].txs, b, End(pub, f - 1), End(pub, f))
  /\ IsSpan(s, b, End(pub, Len(pub)), Len(b.txs))

Ends(pub, n) == {End(pub, f) : f \in 1 .. n}

\* The last write to k is kept when no later transaction of its flashblock
\* carries an older value of k.
StateAgrees(p, b, ends) ==
  \A k \in Key : \A last \in Writes(b, k) :
    /\ \A i \in Writes(b, k) : i <= last
    /\ last \in ends \/ ~(\E i \in Writes(b, k), x \in ends : i <= x /\ x < last)
    => k \in DOMAIN p.bundle /\ p.bundle[k] = b.bundle[k]

\* What the follower has after n flashblocks, when the n-th was cut at `b`.
IsFollower(p, b, pub, n) ==
  IF n = 0 THEN p = None
  ELSE /\ IsBlock(p)
       /\ SameExecution(p, b)
       /\ DOMAIN p.bundle = TxKeys(b)
       /\ (\A f \in 1 .. n : pub[f].txs # <<>>) => Entries(p.access_list) = Entries(b.access_list)
       /\ (\A f \in 1 .. n : Len(pub[f].txs) = 1) => p.access_list = b.access_list
       /\ StateAgrees(p, b, Ends(pub, n))

\* The inductive invariant.
IInv ==
  \E t : /\ IsTrace(t, building)
         /\ IsCut(t, building, published, span)
         /\ followed \in 0 .. Len(published)
         /\ IsFollower(committed, t[End(published, followed)], published, followed)

\* A span of a block is one of the block with a transaction more.
LEMMA SpanOfNext ==
  ASSUME NEW s, NEW b, b.txs \in Seq(Tx), NEW tx \in Tx, NEW lo \in Nat, NEW hi \in Nat,
         hi <= Len(b.txs), IsSpan(s, b, lo, hi)
  PROVE  /\ IsSpan(s, Execute(b, tx), lo, hi)
         /\ hi = Len(b.txs) => IsSpan(Append(s, tx), Execute(b, tx), lo, hi + 1)
<1> DEFINE c == Execute(b, tx)
<1>1. c.txs = Append(b.txs, tx)
  BY DEF Execute
<1>2. Len(b.txs) \in Nat
  OBVIOUS
<1>3. \A i \in 1 .. Len(b.txs) : c.txs[i] = b.txs[i]
  BY <1>1
<1>4. c.txs[Len(b.txs) + 1] = tx
  BY <1>1
<1> HIDE DEF c
<1>5. s \in Seq(Tx) /\ lo <= hi /\ Len(s) = hi - lo
      /\ \A i \in 1 .. (hi - lo) : s[i] = b.txs[lo + i]
  BY DEF IsSpan
<1>6. \A i \in 1 .. (hi - lo) : lo + i \in 1 .. Len(b.txs)
  BY <1>2, <1>5
<1>7. IsSpan(s, c, lo, hi)
  BY <1>3, <1>5, <1>6 DEF IsSpan
<1>8. ASSUME hi = Len(b.txs) PROVE IsSpan(Append(s, tx), c, lo, hi + 1)
  <2>1. /\ Append(s, tx) \in Seq(Tx) /\ Len(Append(s, tx)) = (hi - lo) + 1
        /\ Append(s, tx)[(hi - lo) + 1] = tx
        /\ \A i \in 1 .. (hi - lo) : Append(s, tx)[i] = s[i]
    <3>1. /\ Append(s, tx) \in Seq(Tx) /\ Len(Append(s, tx)) = Len(s) + 1
          /\ Append(s, tx)[Len(s) + 1] = tx
          /\ \A i \in 1 .. Len(s) : Append(s, tx)[i] = s[i]
      <4>1. s \in Seq(Tx)
        BY <1>5
      <4>2. Append(s, tx) \in Seq(Tx) /\ Len(Append(s, tx)) = Len(s) + 1
        BY <4>1
      <4>3. Append(s, tx)[Len(s) + 1] = tx
        BY <4>1
      <4>4. \A i \in 1 .. Len(s) : Append(s, tx)[i] = s[i]
        BY <4>1
      <4> QED BY <4>2, <4>3, <4>4
    <3> QED BY <3>1, <1>5
  <2>2. (hi - lo) + 1 = (hi + 1) - lo /\ lo <= hi + 1 /\ lo + ((hi - lo) + 1) = Len(b.txs) + 1
    BY <1>5, <1>8
  <2>3. \A i \in 1 .. ((hi + 1) - lo) : i \in 1 .. (hi - lo) \/ i = (hi - lo) + 1
    BY <1>5
  <2>4. \A i \in 1 .. ((hi + 1) - lo) : Append(s, tx)[i] = c.txs[lo + i]
    BY <2>1, <2>2, <2>3, <1>3, <1>4, <1>5, <1>6
  <2> QED BY <2>1, <2>2, <2>4 DEF IsSpan
<1> QED BY <1>7, <1>8 DEF c

\* The cuts stay where they are when the builder executes a transaction.
LEMMA CutOfNext ==
  ASSUME NEW t, NEW u, NEW b, NEW pub, NEW s, IsTrace(t, b), IsCut(t, b, pub, s), NEW tx \in Tx,
         IsTrace(u, Execute(b, tx)), \A i \in 0 .. Len(b.txs) : u[i] = t[i]
  PROVE  IsCut(u, Execute(b, tx), pub, Append(s, tx))
<1> DEFINE c == Execute(b, tx)
<1>1. b.txs \in Seq(Tx) /\ Len(b.txs) \in Nat
  BY DEF IsTrace
<1>2. c.txs = Append(b.txs, tx)
  BY DEF Execute
<1>3. Len(c.txs) = Len(b.txs) + 1
  BY <1>1, <1>2
<1>4. /\ pub \in Seq([txs : Seq(Tx), block : Block])
      /\ \A f \in 0 .. Len(pub) : End(pub, f) \in 0 .. Len(b.txs)
      /\ \A f, g \in 0 .. Len(pub) : f <= g => End(pub, f) <= End(pub, g)
      /\ \A f \in 1 .. Len(pub) : /\ pub[f].block = t[End(pub, f)]
                                  /\ IsSpan(pub[f].txs, b, End(pub, f - 1), End(pub, f))
      /\ IsSpan(s, b, End(pub, Len(pub)), Len(b.txs))
  BY DEF IsCut
<1>5. /\ Len(pub) \in Nat /\ Len(pub) \in 0 .. Len(pub)
      /\ \A f \in 1 .. Len(pub) : f - 1 \in 0 .. Len(pub) /\ f \in 0 .. Len(pub)
  BY <1>4
<1>6. \A f \in 0 .. Len(pub) : End(pub, f) \in Nat /\ End(pub, f) <= Len(b.txs)
  BY <1>1, <1>4
<1>7. IsSpan(Append(s, tx), c, End(pub, Len(pub)), Len(b.txs) + 1)
  BY <1>1, <1>4, <1>5, <1>6, SpanOfNext
<1>8. ASSUME NEW f \in 1 .. Len(pub)
      PROVE  /\ pub[f].block = u[End(pub, f)]
             /\ IsSpan(pub[f].txs, c, End(pub, f - 1), End(pub, f))
  <2>1. f \in 0 .. Len(pub) /\ f - 1 \in 0 .. Len(pub)
    BY <1>5
  <2>2. IsSpan(pub[f].txs, c, End(pub, f - 1), End(pub, f))
    BY <2>1, <1>1, <1>4, <1>6, SpanOfNext
  <2> QED BY <2>1, <2>2, <1>4
<1> HIDE DEF c
<1>9. \A f \in 0 .. Len(pub) : End(pub, f) \in 0 .. Len(c.txs)
  BY <1>1, <1>3, <1>6
<1> QED BY <1>3, <1>4, <1>7, <1>8, <1>9 DEF IsCut, c

\* Publishing a flashblock cuts the block where it is.
LEMMA CutHere ==
  ASSUME NEW t, NEW b, NEW pub, NEW s, IsTrace(t, b), IsCut(t, b, pub, s)
  PROVE  IsCut(t, b, Append(pub, [txs |-> s, block |-> b]), <<>>)
<1> DEFINE fb == [txs |-> s, block |-> b]
           new == Append(pub, fb)
           n == Len(pub)
           hi == Len(b.txs)
<1>1. /\ pub \in Seq([txs : Seq(Tx), block : Block])
      /\ \A f \in 0 .. n : End(pub, f) \in 0 .. hi
      /\ \A f, g \in 0 .. n : f <= g => End(pub, f) <= End(pub, g)
      /\ \A f \in 1 .. n : /\ pub[f].block = t[End(pub, f)]
                           /\ IsSpan(pub[f].txs, b, End(pub, f - 1), End(pub, f))
      /\ IsSpan(s, b, End(pub, n), hi)
  BY DEF IsCut
<1>2. hi \in Nat /\ b.txs \in Seq(Tx) /\ t[hi] = b /\ b \in Block
  BY DEF IsTrace, WellBuilt, IsBlock
<1>3. s \in Seq(Tx)
  BY <1>1 DEF IsSpan
<1>4. fb \in [txs : Seq(Tx), block : Block] /\ fb.block = b /\ fb.txs = s
  BY <1>2, <1>3
<1> HIDE DEF fb
<1>5. /\ n \in Nat /\ new \in Seq([txs : Seq(Tx), block : Block]) /\ Len(new) = n + 1
      /\ new[n + 1] = fb /\ \A f \in 1 .. n : new[f] = pub[f]
  BY <1>1, <1>4
<1> HIDE DEF new, n, hi
<1>6. /\ \A f \in 0 .. n : End(new, f) = End(pub, f)
      /\ End(new, n + 1) = hi
  BY <1>4, <1>5 DEF End, hi
<1>7. \A f \in 0 .. (n + 1) : f \in 0 .. n \/ f = n + 1
  BY <1>5
<1>8. \A f \in 0 .. (n + 1) : End(new, f) \in 0 .. hi
  BY <1>1, <1>2, <1>6, <1>7
<1>9. ASSUME NEW f \in 0 .. (n + 1), NEW g \in 0 .. (n + 1), f <= g
      PROVE  End(new, f) <= End(new, g)
  <2>1. CASE g = n + 1
    BY <2>1, <1>2, <1>6, <1>8
  <2>2. CASE g \in 0 .. n
    <3>1. f \in 0 .. n
      BY <2>2, <1>5, <1>9
    <3> QED BY <3>1, <2>2, <1>1, <1>6, <1>9
  <2> QED BY <2>1, <2>2, <1>7
<1>10. ASSUME NEW f \in 1 .. (n + 1)
       PROVE  /\ new[f].block = t[End(new, f)]
              /\ IsSpan(new[f].txs, b, End(new, f - 1), End(new, f))
  <2>1. CASE f = n + 1
    <3>1. f - 1 = n /\ n \in 0 .. n
      BY <2>1, <1>5
    <3>2. new[f].block = b /\ new[f].txs = s
      BY <2>1, <1>4, <1>5
    <3>3. End(new, f) = hi /\ End(new, f - 1) = End(pub, n)
      BY <2>1, <3>1, <1>6
    <3> QED BY <3>2, <3>3, <1>1, <1>2
  <2>2. CASE f \in 1 .. n
    <3>1. f \in 0 .. n /\ f - 1 \in 0 .. n
      BY <2>2, <1>5
    <3> QED BY <3>1, <2>2, <1>1, <1>5, <1>6
  <2> QED BY <2>1, <2>2, <1>5
<1>11. IsSpan(<<>>, b, hi, hi)
  BY <1>2 DEF IsSpan
<1> QED BY <1>5, <1>6, <1>8, <1>9, <1>10, <1>11 DEF IsCut, new, n, hi, fb

\* What the follower's next execution starts from.
LEMMA PrestateFacts ==
  ASSUME NEW t, IsTrace(t, building), IsCut(t, building, published, span),
         followed \in 0 .. Len(published),
         IsFollower(committed, t[End(published, followed)], published, followed)
  PROVE  /\ IsPrestate(t, End(published, followed))
         /\ followed = 0 => AccessListBefore = EmptyBlock.access_list
         /\ followed > 0 => AccessListBefore = committed.access_list /\ Prestate = committed
<1>1. t[0] = EmptyBlock
  BY DEF IsTrace
<1>2. <<>> \in Change /\ DOMAIN <<>> = {}
  BY EmptyChange
<1>3. CASE followed = 0
  <2>1. committed = None /\ End(published, followed) = 0
    BY <1>3 DEF IsFollower, End
  <2>2. /\ Prestate = [txs |-> <<>>, receipts |-> <<>>, bundle |-> <<>>, gas_used |-> 0,
                       fees |-> 0, access_list |-> EmptyList]
        /\ PreExecution = SystemWrites
    BY <2>1 DEF Prestate, PreExecution
  <2>3. Prestate \in Block /\ IsBlock(Prestate)
    <3>1. Prestate \in Block
      BY <2>2, <1>2, EmptyListFacts DEF Block
    <3>2. Len(Prestate.receipts) = Len(Prestate.txs) /\ Entries(Prestate.access_list) = {}
      BY <2>2, EmptyListFacts
    <3> QED BY <3>1, <3>2 DEF IsBlock
  <2>4. SameExecution(Prestate, EmptyBlock)
    BY <2>2, EmptyBlockFacts DEF SameExecution
  <2>5. TxKeys(EmptyBlock) = {}
    BY EmptyBlockFacts DEF TxKeys, Writes
  <2>6. DOMAIN Prestate.bundle = {}
    BY <2>2, <1>2
  <2>7. PreExecution \in Change /\ DOMAIN PreExecution \subseteq DOMAIN EmptyBlock.bundle
    BY <2>2, BuilderAssumption DEF EmptyBlock
  <2>8. AccessListBefore = EmptyBlock.access_list /\ AccessListBefore \in AccessList
    <3> DEFINE al == AccessListEntries(SystemWrites, 0)
    <3>1. al \in AccessList
      BY BuilderAssumption, ListOfChange
    <3>2. AccessListBefore = Extend(EmptyList, al)
      BY <2>2 DEF AccessListBefore
    <3>3. EmptyBlock.access_list = al
      BY DEF EmptyBlock
    <3> HIDE DEF al
    <3> QED BY <3>1, <3>2, <3>3, EmptyListFacts
  <2>9. IsPrestate(t, 0)
    BY <2>3, <2>4, <2>5, <2>6, <2>7, <2>8, <1>1 DEF IsPrestate
  <2> QED BY <2>1, <2>9, <2>8, <1>3
<1>4. CASE followed > 0
  <2> DEFINE b == t[End(published, followed)]
  <2>1. IsBlock(committed) /\ SameExecution(committed, b) /\ DOMAIN committed.bundle = TxKeys(b)
    BY <1>4 DEF IsFollower
  <2>2. committed # None
    BY <2>1, BuilderAssumption DEF IsBlock
  <2>3. Prestate = committed /\ PreExecution = <<>>
    BY <2>2 DEF Prestate, PreExecution
  <2>4. AccessListEntries(<<>>, 0) = EmptyList
    BY <1>2, ListOfChange
  <2>5. AccessListBefore = committed.access_list /\ AccessListBefore \in AccessList
    <3>1. committed.access_list \in AccessList
      BY <2>1, EntriesOfBlock
    <3>2. AccessListBefore = Extend(committed.access_list, EmptyList)
      BY <2>3, <2>4 DEF AccessListBefore
    <3> QED BY <3>1, <3>2, EmptyListFacts
  <2>6. PreExecution \in Change /\ DOMAIN PreExecution \subseteq DOMAIN b.bundle
    BY <2>3, <1>2
  <2> HIDE DEF b
  <2>7. IsPrestate(t, End(published, followed))
    BY <2>1, <2>3, <2>5, <2>6 DEF IsPrestate, b
  <2> QED BY <2>3, <2>5, <2>7, <1>4
<1>5. followed = 0 \/ followed > 0
  BY DEF IsCut
<1> QED BY <1>3, <1>4, <1>5

\* Following a flashblock: the follower is at the next cut.
LEMMA FollowerFollows ==
  ASSUME NEW t, IsTrace(t, building), IsCut(t, building, published, span),
         followed \in 0 .. Len(published), followed < Len(published),
         IsFollower(committed, t[End(published, followed)], published, followed)
  PROVE  IsFollower(Build(published[followed + 1]), t[End(published, followed + 1)],
                    published, followed + 1)
<1> DEFINE n == followed
           lo == End(published, n)
           hi == End(published, n + 1)
           m == hi - lo
           fb == published[n + 1]
           p == Build(fb)
           b == t[hi]
<1>1. /\ Len(building.txs) \in Nat /\ Len(published) \in Nat
      /\ n \in Nat /\ n \in 0 .. Len(published) /\ n + 1 \in 0 .. Len(published)
      /\ n + 1 \in 1 .. Len(published) /\ (n + 1) - 1 = n /\ n <= n + 1
  BY DEF IsCut, IsTrace
<1>2. /\ lo \in 0 .. Len(building.txs) /\ hi \in 0 .. Len(building.txs) /\ lo <= hi
      /\ fb.block = b /\ IsSpan(fb.txs, building, lo, hi)
  <2>1. lo \in 0 .. Len(building.txs) /\ hi \in 0 .. Len(building.txs)
    BY <1>1 DEF IsCut
  <2>2. lo <= hi
    BY <1>1 DEF IsCut
  <2>3. fb.block = b /\ IsSpan(fb.txs, building, End(published, (n + 1) - 1), hi)
    BY <1>1 DEF IsCut
  <2> QED BY <2>1, <2>2, <2>3, <1>1
<1>3. /\ IsPrestate(t, lo)
      /\ n = 0 => AccessListBefore = EmptyBlock.access_list
      /\ n > 0 => AccessListBefore = committed.access_list /\ Prestate = committed
  BY PrestateFacts
<1>4. /\ n = 0 => lo = 0
      /\ n > 0 => /\ IsBlock(committed)
                  /\ (\A f \in 1 .. n : published[f].txs # <<>>) =>
                       Entries(committed.access_list) = Entries(t[lo].access_list)
                  /\ (\A f \in 1 .. n : Len(published[f].txs) = 1) =>
                       committed.access_list = t[lo].access_list
                  /\ StateAgrees(committed, t[lo], Ends(published, n))
      /\ t[0] = EmptyBlock
  BY DEF IsFollower, End, IsTrace
<1>5. /\ \A f \in 1 .. n : End(published, f) <= lo
      /\ n > 0 => lo \in Ends(published, n)
      /\ \A x \in Ends(published, n) : x \in Nat /\ x <= lo
      /\ Ends(published, n + 1) = Ends(published, n) \cup {hi}
  <2>1. \A f \in 1 .. n : f \in 0 .. Len(published) /\ f <= n
    BY <1>1
  <2>2. \A f \in 1 .. n : End(published, f) <= lo /\ End(published, f) \in Nat
    BY <2>1, <1>1 DEF IsCut
  <2>3. 1 .. (n + 1) = (1 .. n) \cup {n + 1} /\ (n > 0 => n \in 1 .. n)
    BY <1>1
  <2> HIDE DEF n
  <2> QED BY <2>2, <2>3 DEF Ends
<1> HIDE DEF n, fb, hi, lo, m, b
<1>6. m \in Nat /\ lo + m = hi /\ lo \in Nat /\ hi \in Nat /\ lo \in 0 .. hi /\ hi \in 0 .. hi
  BY <1>1, <1>2 DEF m
<1>7. IsAhead(t, building, lo, m, fb)
  BY <1>2, <1>6 DEF IsAhead, b
<1>8. Merged(t, lo, m, p)
  BY <1>3, <1>6, <1>7, BuildFacts
<1> HIDE DEF p
<1>9. /\ p \in Block /\ SameExecution(p, b)
      /\ DOMAIN p.bundle = TxKeys(b)
      /\ \A k \in DOMAIN p.bundle :
           p.bundle[k] = IF k \in DOMAIN Prestate.bundle /\ ~(m > 0 /\ hi \in Writes(b, k))
                         THEN Prestate.bundle[k] ELSE b.bundle[k]
      /\ Entries(p.access_list) =
           IF m = 0 THEN {}
           ELSE Entries(AccessListBefore) \cup {e \in Entries(b.access_list) : e.index > lo}
      /\ m = 1 /\ AccessListBefore = t[lo].access_list => p.access_list = b.access_list
  BY <1>6, <1>8 DEF Merged, b
<1>10. WellBuilt(b) /\ Len(b.txs) = hi /\ b \in Block /\ IsBlock(b)
       /\ WellBuilt(t[lo]) /\ Len(t[lo].txs) = lo
  BY <1>2 DEF IsTrace, b, WellBuilt, IsBlock
<1>11. DOMAIN Prestate.bundle = TxKeys(t[lo])
  BY <1>3 DEF IsPrestate
<1>12. /\ Entries(t[lo].access_list) \subseteq Entries(b.access_list)
       /\ \A e \in Entries(b.access_list) : e.index <= lo => e \in Entries(t[lo].access_list)
       /\ \A k : Writes(t[lo], k) = {x \in Writes(b, k) : x <= lo}
       /\ \A k : Writes(b, k) \subseteq 1 .. hi
  <2>1. hi \in 0 .. Len(building.txs) /\ lo \in 0 .. hi
    BY <1>2, <1>6
  <2>2. /\ Entries(t[lo].access_list) \subseteq Entries(t[hi].access_list)
        /\ \A e \in Entries(t[hi].access_list) : e.index <= lo => e \in Entries(t[lo].access_list)
        /\ \A k : Writes(t[lo], k) = {x \in Writes(t[hi], k) : x <= lo}
        /\ \A k : Writes(t[hi], k) \subseteq 1 .. hi
    BY <2>1, WritesUpTo
  <2> QED BY <2>2 DEF b
<1>13. IsBlock(p)
  <2>1. p.txs = b.txs /\ p.receipts = b.receipts
    BY <1>9 DEF SameExecution
  <2>2. Len(p.txs) = hi /\ Len(p.receipts) = hi
    BY <2>1, <1>10 DEF IsBlock
  <2>3. \A e \in Entries(AccessListBefore) : e.index <= hi
    <3>1. CASE n = 0
      BY <3>1, <1>3, <1>6, EmptyBlockFacts
    <3>2. CASE n > 0
      <4>1. \A e \in Entries(committed.access_list) :
              e.index <= Len(committed.txs) /\ e.index \in Nat
        BY <3>2, <1>4, EntriesOfBlock
      <4>2. committed.txs = t[lo].txs
        BY <3>2, <1>3 DEF IsPrestate, SameExecution
      <4> QED BY <3>2, <4>1, <4>2, <1>3, <1>6, <1>10
    <3> QED BY <3>1, <3>2, <1>1
  <2>4. \A e \in Entries(b.access_list) : e.index <= hi
    BY <1>10 DEF IsBlock
  <2>5. \A e \in Entries(p.access_list) : e.index <= hi
    BY <2>3, <2>4, <1>9
  <2> QED BY <2>2, <2>5, <1>9 DEF IsBlock
<1>14. ASSUME \A f \in 1 .. (n + 1) : published[f].txs # <<>>
       PROVE  Entries(p.access_list) = Entries(b.access_list)
  <2>1. n + 1 \in 1 .. (n + 1) /\ \A f \in 1 .. n : f \in 1 .. (n + 1)
    BY <1>1
  <2>2. fb.txs # <<>> /\ \A f \in 1 .. n : published[f].txs # <<>>
    BY <2>1, <1>14 DEF fb
  <2>3. m # 0
    <3>1. fb.txs \in Seq(Tx) /\ Len(fb.txs) = hi - lo
      BY <1>2 DEF IsSpan
    <3> QED BY <3>1, <2>2 DEF m
  <2>4. Entries(AccessListBefore) = Entries(t[lo].access_list)
    <3>1. CASE n = 0
      BY <3>1, <1>3, <1>4
    <3>2. CASE n > 0
      BY <3>2, <2>2, <1>3, <1>4
    <3> QED BY <3>1, <3>2, <1>1
  <2>5. \A e \in Entries(b.access_list) : e.index \in Nat
    BY <1>10, EntriesOfBlock
  <2> QED BY <2>3, <2>4, <2>5, <1>6, <1>9, <1>12
<1>15. ASSUME \A f \in 1 .. (n + 1) : Len(published[f].txs) = 1
       PROVE  p.access_list = b.access_list
  <2>1. n + 1 \in 1 .. (n + 1) /\ \A f \in 1 .. n : f \in 1 .. (n + 1)
    BY <1>1
  <2>2. Len(fb.txs) = 1 /\ \A f \in 1 .. n : Len(published[f].txs) = 1
    BY <2>1, <1>15 DEF fb
  <2>3. m = 1
    BY <2>2, <1>2 DEF IsSpan, m
  <2>4. AccessListBefore = t[lo].access_list
    <3>1. CASE n = 0
      BY <3>1, <1>3, <1>4
    <3>2. CASE n > 0
      BY <3>2, <2>2, <1>3, <1>4
    <3> QED BY <3>1, <3>2, <1>1
  <2> QED BY <2>3, <2>4, <1>9
<1>16. StateAgrees(p, b, Ends(published, n + 1))
  <2> DEFINE ends == Ends(published, n)
  <2> SUFFICES ASSUME NEW k \in Key, NEW last \in Writes(b, k),
                      \A i \in Writes(b, k) : i <= last,
                      \/ last \in ends \cup {hi}
                      \/ ~(\E i \in Writes(b, k), x \in ends \cup {hi} : i <= x /\ x < last)
               PROVE  k \in DOMAIN p.bundle /\ p.bundle[k] = b.bundle[k]
    BY <1>5 DEF StateAgrees
  <2> HIDE DEF ends
  <2>1. k \in DOMAIN p.bundle
    BY <1>9 DEF TxKeys
  <2>2. last \in Nat /\ last <= hi /\ last > 0
    BY <1>6, <1>12
  <2>3. \A x \in ends : x \in Nat /\ x <= lo
    BY <1>5 DEF ends
  <2>4. \A i \in Writes(b, k) : i \in Nat
    BY <1>12
  <2>5. CASE last > lo
    <3>1. CASE k \notin DOMAIN Prestate.bundle
      BY <3>1, <2>1, <1>9
    <3>2. CASE k \in DOMAIN Prestate.bundle
      <4>1. PICK i \in Writes(t[lo], k) : TRUE
        BY <3>2, <1>11 DEF TxKeys
      <4>2. i \in Writes(b, k) /\ i <= lo
        BY <4>1, <1>12
      <4>3. n > 0
        <5>1. CASE n = 0
          <6>1. Writes(EmptyBlock, k) = {}
            BY EmptyBlockFacts DEF Writes
          <6> QED BY <6>1, <5>1, <4>1, <1>4
        <5> QED BY <5>1, <1>1
      <4>4. lo \in ends
        BY <4>3, <1>5 DEF ends
      <4>5. last \in ends \cup {hi}
        BY <4>2, <4>4, <2>5
      <4>6. last = hi
        BY <4>5, <2>2, <2>3, <2>5, <1>6
      <4>7. m > 0 /\ hi \in Writes(b, k)
        BY <4>6, <2>5, <1>6
      <4> QED BY <4>7, <2>1, <1>9
    <3> QED BY <3>1, <3>2
  <2>6. CASE last <= lo
    <3>1. last \in Writes(t[lo], k) /\ \A i \in Writes(t[lo], k) : i <= last
      BY <2>6, <1>12
    <3>2. k \in DOMAIN Prestate.bundle
      BY <3>1, <1>11 DEF TxKeys
    <3>3. n > 0
      <4>1. CASE n = 0
        <5>1. Writes(EmptyBlock, k) = {}
          BY EmptyBlockFacts DEF Writes
        <5> QED BY <5>1, <4>1, <3>1, <1>4
      <4> QED BY <4>1, <1>1
    <3>4. ~(m > 0 /\ hi \in Writes(b, k))
      BY <2>2, <2>6, <1>6
    <3>5. p.bundle[k] = committed.bundle[k]
      BY <3>2, <3>3, <3>4, <2>1, <1>3, <1>9
    <3>6. \/ last \in ends
          \/ ~(\E i \in Writes(t[lo], k), x \in ends : i <= x /\ x < last)
      <4>1. CASE last = hi
        <5>1. last = lo
          BY <4>1, <2>6, <1>6
        <5> QED BY <5>1, <3>3, <1>5 DEF ends
      <4>2. CASE last # hi
        BY <4>2, <1>12
      <4> QED BY <4>1, <4>2
    <3>7. committed.bundle[k] = t[lo].bundle[k]
      <4>1. StateAgrees(committed, t[lo], ends)
        BY <3>3, <1>4 DEF ends
      <4> QED BY <4>1, <3>1, <3>6 DEF StateAgrees
    <3>8. b.bundle[k] = t[lo].bundle[k]
      <4>1. k \in TxKeys(t[hi]) /\ Writes(t[hi], k) \subseteq 1 .. lo
        BY <2>2, <2>6, <1>6, <1>12 DEF b, TxKeys
      <4>2. hi \in 0 .. Len(building.txs) /\ lo \in 0 .. hi
        BY <1>2, <1>6
      <4>3. t[hi].bundle[k] = t[lo].bundle[k]
        BY <4>1, <4>2, ValueOfLastWrite
      <4> QED BY <4>3 DEF b
    <3> QED BY <3>5, <3>7, <3>8, <2>1
  <2> QED BY <2>2, <2>5, <2>6, <1>6
<1>17. IsFollower(p, b, published, n + 1)
  <2>1. n + 1 # 0
    BY <1>1
  <2> QED BY <2>1, <1>9, <1>13, <1>14, <1>16, <1>15 DEF IsFollower
<1> QED BY <1>17 DEF p, fb, b, hi, n

\* The inductive invariant holds of every state: the follower is at a cut of the
\* trace of the builder's block, whatever it and the builder do.
THEOREM Invariance == BuilderSpec => []IInv
<1>1. BuilderInit => IInv
  <2> SUFFICES ASSUME BuilderInit PROVE IInv
    OBVIOUS
  <2>1. /\ building = EmptyBlock /\ span = <<>> /\ published = <<>>
        /\ followed = 0 /\ committed = None
    BY DEF BuilderInit
  <2>2. PICK t : IsTrace(t, EmptyBlock)
    BY TraceStarts
  <2>3. Len(EmptyBlock.txs) = 0 /\ Len(published) = 0
    BY <2>1, EmptyBlockFacts
  <2>4. IsCut(t, EmptyBlock, <<>>, <<>>)
    <3>1. \A f \in 0 .. 0 : End(<<>>, f) = 0
      BY DEF End
    <3>2. IsSpan(<<>>, EmptyBlock, 0, 0)
      BY DEF IsSpan
    <3>3. Len(<<>>) = 0 /\ <<>> \in Seq([txs : Seq(Tx), block : Block])
      OBVIOUS
    <3> QED BY <3>1, <3>2, <3>3, <2>3 DEF IsCut
  <2>5. IsFollower(None, t[End(<<>>, 0)], <<>>, 0)
    BY DEF IsFollower
  <2> QED BY <2>1, <2>2, <2>3, <2>4, <2>5 DEF IInv
<1>2. IInv /\ [BuilderNext]_vars => IInv'
  <2> SUFFICES ASSUME IInv, [BuilderNext]_vars PROVE IInv'
    OBVIOUS
  <2>1. PICK t : /\ IsTrace(t, building)
                 /\ IsCut(t, building, published, span)
                 /\ followed \in 0 .. Len(published)
                 /\ IsFollower(committed, t[End(published, followed)], published, followed)
    BY DEF IInv
  <2>2. /\ published \in Seq([txs : Seq(Tx), block : Block])
        /\ Len(published) \in Nat /\ followed \in Nat
        /\ \A f \in 0 .. Len(published) : End(published, f) \in 0 .. Len(building.txs)
    BY <2>1 DEF IsCut
  <2>3. ASSUME NEW tx \in Tx, ExecuteTx(tx) PROVE IInv'
    <3>1. /\ building' = Execute(building, tx) /\ span' = Append(span, tx)
          /\ published' = published /\ followed' = followed /\ committed' = committed
      BY <2>3 DEF ExecuteTx
    <3>2. PICK u : /\ IsTrace(u, Execute(building, tx))
                   /\ \A i \in 0 .. Len(building.txs) : u[i] = t[i]
      BY <2>1, TraceExtends
    <3>3. IsCut(u, Execute(building, tx), published, Append(span, tx))
      BY <2>1, <3>2, CutOfNext
    <3>4. IsFollower(committed, u[End(published, followed)], published, followed)
      BY <2>1, <2>2, <3>2
    <3> QED BY <2>1, <3>1, <3>2, <3>3, <3>4 DEF IInv
  <2>4. CASE PublishFlashblock
    <3> DEFINE new == Append(published, [txs |-> span, block |-> building])
    <3>1. /\ published' = new /\ span' = <<>> /\ building' = building
          /\ followed' = followed /\ committed' = committed
      BY <2>4 DEF PublishFlashblock
    <3>2. IsCut(t, building, new, <<>>)
      BY <2>1, CutHere
    <3>3. /\ Len(new) = Len(published) + 1
          /\ \A f \in 1 .. Len(published) : new[f] = published[f]
      BY <2>2
    <3> HIDE DEF new
    <3>4. /\ \A f \in 1 .. followed : new[f] = published[f]
          /\ \A f \in 0 .. followed : End(new, f) = End(published, f)
          /\ followed \in 0 .. Len(new) /\ followed \in 0 .. followed
      <4>1. \A f \in 1 .. followed : f \in 1 .. Len(published) /\ new[f] = published[f]
        BY <2>1, <2>2, <3>3
      <4>2. \A f \in 0 .. followed : f = 0 \/ f \in 1 .. followed
        BY <2>2
      <4>3. \A f \in 0 .. followed : End(new, f) = End(published, f)
        BY <4>1, <4>2 DEF End
      <4>4. followed \in 0 .. Len(new) /\ followed \in 0 .. followed
        BY <2>1, <2>2, <3>3
      <4> QED BY <4>1, <4>3, <4>4
    <3>5. Ends(new, followed) = Ends(published, followed)
      BY <2>2, <3>4 DEF Ends
    <3>6. (\A f \in 1 .. followed : new[f].txs # <<>>)
            => \A f \in 1 .. followed : published[f].txs # <<>>
      BY <3>4
    <3>7. (\A f \in 1 .. followed : Len(new[f].txs) = 1)
            => \A f \in 1 .. followed : Len(published[f].txs) = 1
      BY <3>4
    <3>8. IsFollower(committed, t[End(new, followed)], new, followed)
      BY <2>1, <3>4, <3>5, <3>6, <3>7 DEF IsFollower
    <3> QED BY <2>1, <3>1, <3>2, <3>4, <3>8 DEF IInv
  <2>5. CASE FollowFlashblock
    <3>1. /\ followed < Len(published) /\ committed' = Build(published[followed + 1])
          /\ followed' = followed + 1
          /\ building' = building /\ span' = span /\ published' = published
      BY <2>5 DEF FollowFlashblock
    <3>2. IsFollower(Build(published[followed + 1]), t[End(published, followed + 1)],
                     published, followed + 1)
      BY <2>1, <3>1, FollowerFollows
    <3>3. followed + 1 \in 0 .. Len(published)
      BY <2>2, <3>1
    <3> QED BY <2>1, <3>1, <3>2, <3>3 DEF IInv
  <2>6. CASE UNCHANGED vars
    <3>1. /\ building' = building /\ span' = span /\ published' = published
          /\ followed' = followed /\ committed' = committed
      BY <2>6 DEF vars
    <3> QED BY <2>1, <3>1 DEF IInv
  <2> QED BY <2>3, <2>4, <2>5, <2>6 DEF BuilderNext
<1> QED BY <1>1, <1>2, PTL DEF BuilderSpec

-----------------------------------------------------------------------------
(***************************************************************************)
(* What the invariant says of the states.                                  *)
(***************************************************************************)

\* The block the follower is at, in the trace.
LEMMA FollowedFacts ==
  ASSUME NEW t, IsTrace(t, building), IsCut(t, building, published, span),
         followed \in 0 .. Len(published),
         IsFollower(committed, t[End(published, followed)], published, followed),
         followed > 0
  PROVE  /\ Followed = t[End(published, followed)]
         /\ WellBuilt(Followed)
         /\ IsBlock(committed)
         /\ SameExecution(committed, Followed)
         /\ (\A f \in 1 .. followed : published[f].txs # <<>>) =>
              Entries(committed.access_list) = Entries(Followed.access_list)
         /\ (\A f \in 1 .. followed : Len(published[f].txs) = 1) =>
              committed.access_list = Followed.access_list
         /\ StateAgrees(committed, Followed, Ends(published, followed))
<1>1. followed \in 1 .. Len(published) /\ followed # 0
  BY DEF IsCut
<1>2. Followed = t[End(published, followed)]
  BY <1>1 DEF IsCut, Followed
<1>3. WellBuilt(t[End(published, followed)])
  BY DEF IsCut, IsTrace
<1> QED BY <1>1, <1>2, <1>3 DEF IsFollower

\* The blocks of the builder, of the flashblocks it publishes and of the
\* follower have one receipt per transaction, and list no entry beyond their last.
THEOREM TypeCorrect == BuilderSpec => []TypeOK
<1>1. IInv => TypeOK
  <2> SUFFICES ASSUME IInv PROVE TypeOK
    OBVIOUS
  <2>1. PICK t : /\ IsTrace(t, building)
                 /\ IsCut(t, building, published, span)
                 /\ followed \in 0 .. Len(published)
                 /\ IsFollower(committed, t[End(published, followed)], published, followed)
    BY DEF IInv
  <2>2. IsBlock(building)
    BY <2>1 DEF IsTrace, WellBuilt
  <2>3. span \in Seq(Tx)
    BY <2>1 DEF IsCut, IsSpan
  <2>4. ASSUME NEW f \in DOMAIN published
        PROVE  published[f].txs \in Seq(Tx) /\ IsBlock(published[f].block)
    <3>1. published \in Seq([txs : Seq(Tx), block : Block])
      BY <2>1 DEF IsCut
    <3>2. f \in 1 .. Len(published) /\ f \in 0 .. Len(published)
      BY <3>1
    <3>3. End(published, f) \in 0 .. Len(building.txs)
      BY <3>2, <2>1 DEF IsCut
    <3>4. IsBlock(t[End(published, f)])
      BY <3>3, <2>1 DEF IsTrace, WellBuilt
    <3> QED BY <3>2, <3>4, <2>1 DEF IsCut, IsSpan
  <2>5. IF followed = 0 THEN committed = None ELSE IsBlock(committed)
    BY <2>1 DEF IsFollower
  <2> QED BY <2>1, <2>2, <2>3, <2>4, <2>5 DEF TypeOK
<1> QED BY <1>1, Invariance, PTL

\* The parallel execution of the flashblocks arrives at the transactions, the
\* receipts with their cumulative gas and deposit nonces, the gas and the fees
\* of the builder's sequential execution, whatever the transactions read and write.
THEOREM ParallelEqualsSequential == BuilderSpec => []ExecutionAgrees
<1>1. IInv => ExecutionAgrees
  BY FollowedFacts DEF IInv, ExecutionAgrees, SameExecution
<1> QED BY <1>1, Invariance, PTL

\* What the follower's access list says is what the builder's says, as long as
\* each flashblock has a transaction that carries the earlier entries over.  It
\* is the same list as long as none has a second one to carry them over again.
THEOREM AccessListsAgree == BuilderSpec => []AccessListAgreesUnlessRepeated
<1>1. IInv => AccessListAgreesUnlessRepeated
  BY FollowedFacts DEF IInv, AccessListAgreesUnlessRepeated
<1> QED BY <1>1, Invariance, PTL

\* The follower has the builder's value of each key that a transaction wrote,
\* unless a later transaction of the flashblock carried an older value of it.
THEOREM StatesAgree == BuilderSpec => []StateAgreesUnlessReplaced
<1>1. IInv => StateAgreesUnlessReplaced
  <2> SUFFICES ASSUME IInv, followed > 0, NEW k \in Key PROVE
        LET writes == {e.index : e \in {w \in Entries(Followed.access_list) :
                                          w.key = k /\ w.index > 0}}
            last == CHOOSE i \in writes : \A j \in writes : j <= i
            ends == {Len(published[f].block.txs) : f \in 1 .. followed}
            writtenBefore == \E i \in writes, e \in ends : i <= e /\ e < last
        IN (writes # {} /\ (last \in ends \/ ~writtenBefore))
             => k \in DOMAIN committed.bundle /\ committed.bundle[k] = Followed.bundle[k]
    BY DEF StateAgreesUnlessReplaced
  <2> DEFINE writes == Writes(Followed, k)
             last == CHOOSE i \in writes : \A j \in writes : j <= i
             ends == {Len(published[f].block.txs) : f \in 1 .. followed}
  <2>1. /\ WellBuilt(Followed)
        /\ StateAgrees(committed, Followed, Ends(published, followed))
    BY FollowedFacts DEF IInv
  <2>2. ends = Ends(published, followed)
    BY DEF Ends, End
  <2> HIDE DEF ends
  <2> SUFFICES ASSUME writes # {},
                      last \in ends \/ ~(\E i \in writes, e \in ends : i <= e /\ e < last)
               PROVE  k \in DOMAIN committed.bundle /\ committed.bundle[k] = Followed.bundle[k]
    BY DEF Writes, ends
  <2>3. \E i \in writes : \A j \in writes : j <= i
    <3>1. /\ Listed(Entries(Followed.access_list), Followed.bundle)
          /\ \A e \in Entries(Followed.access_list) : e.index \in Nat
      BY <2>1, EntriesOfBlock DEF WellBuilt
    <3>2. PICK w \in Entries(Followed.access_list) : w.key = k /\ w.index > 0
      BY DEF Writes
    <3>3. PICK e \in Entries(Followed.access_list) :
            /\ e.key = k
            /\ \A g \in Entries(Followed.access_list) : g.key = k => g = e \/ g.index < e.index
      BY <3>1, <3>2 DEF Listed
    <3>4. e.index \in Nat /\ e.index > 0
      <4>1. w = e \/ w.index < e.index
        BY <3>2, <3>3
      <4> QED BY <4>1, <3>1, <3>2
    <3>5. e.index \in writes
      BY <3>3, <3>4 DEF Writes
    <3>6. \A j \in writes : j <= e.index
      BY <3>1, <3>3, <3>4 DEF Writes
    <3> QED BY <3>5, <3>6
  <2>4. last \in writes /\ \A j \in writes : j <= last
    BY <2>3
  <2> HIDE DEF last
  <2> QED BY <2>1, <2>2, <2>4 DEF StateAgrees
<1> QED BY <1>1, Invariance, PTL

=============================================================================
