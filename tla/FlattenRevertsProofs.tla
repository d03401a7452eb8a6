------------------------ MODULE FlattenRevertsProofs ------------------------
(***************************************************************************)
(* Proofs about FlattenReverts: flattened once or at every flashblock, the *)
(* reverts of a block of any length lead back to the parent block.         *)
(***************************************************************************)
EXTENDS FlattenReverts, WellFoundedInduction, TLAPS

-----------------------------------------------------------------------------
(***************************************************************************)
(* Induction and folds.                                                    *)
(***************************************************************************)

\* Every set of naturals that is not empty has a least element.
LEMMA LeastElement ==
  ASSUME NEW T, T \subseteq Nat, T # {}
  PROVE  \E n \in T : \A m \in T : n <= m
<1>1. IsWellFoundedOn(OpToRel(<, Nat), Nat)
  BY NatLessThanWellFounded, Zenon
<1>2. PICK n \in T : \A m \in T : ~(<<m, n>> \in OpToRel(<, Nat))
  BY <1>1, WFMin, Zenon
<1>3. \A m \in T : ~(m < n)
  BY <1>2 DEF OpToRel
<1> QED BY <1>3

\* A set that has 0, and n + 1 with every n, has all naturals: induction for a
\* property that is given as a set.
LEMMA SetInduction ==
  ASSUME NEW S, 0 \in S, \A n \in Nat : n \in S => n + 1 \in S
  PROVE  Nat \subseteq S
<1> SUFFICES ASSUME NEW x \in Nat, x \notin S PROVE FALSE
  OBVIOUS
<1> DEFINE T == {n \in Nat : n \notin S}
<1>1. PICK n \in T : \A m \in T : n <= m
  BY LeastElement
<1>2. n - 1 \in Nat /\ n - 1 \notin T
  BY <1>1
<1> QED BY <1>2

\* h folds `seq` over every set of the indices 1 .. k, in their order.
FoldsOver(h, base, seq, k) ==
  h = [s \in SUBSET (1 .. k) |->
         IF s = {} THEN base ELSE MergeTransition(h[s \ {Max(s)}], seq[Max(s)])]

\* The greatest index of a set of indices.
LEMMA MaxFacts ==
  ASSUME NEW k \in Nat, NEW s \in SUBSET (1 .. (k + 1))
  PROVE  /\ k + 1 \in s => Max(s) = k + 1 /\ s \ {Max(s)} \in SUBSET (1 .. k)
         /\ k + 1 \notin s => s \in SUBSET (1 .. k) /\ s \ {Max(s)} \in SUBSET (1 .. k)
<1>1. ASSUME k + 1 \in s PROVE Max(s) = k + 1
  <2>1. \A y \in s : k + 1 >= y
    OBVIOUS
  <2>2. \A x \in s : (\A y \in s : x >= y) => x = k + 1
    BY <1>1
  <2> QED BY <1>1, <2>1, <2>2 DEF Max
<1>2. k + 1 \in s => s \ {k + 1} \in SUBSET (1 .. k)
  OBVIOUS
<1>3. k + 1 \notin s => s \in SUBSET (1 .. k)
  OBVIOUS
<1>4. s \in SUBSET (1 .. k) => s \ {Max(s)} \in SUBSET (1 .. k)
  OBVIOUS
<1> QED BY <1>1, <1>2, <1>3, <1>4

\* The recursion that defines a fold has a solution.
LEMMA FoldExists ==
  ASSUME NEW base, NEW seq, NEW n \in Nat
  PROVE  \E h : FoldsOver(h, base, seq, n)
<1> DEFINE S == {k \in Nat : \E h : FoldsOver(h, base, seq, k)}
<1>1. 0 \in S
  <2> DEFINE h == [s \in SUBSET (1 .. 0) |-> base]
  <2>1. FoldsOver(h, base, seq, 0)
    BY DEF FoldsOver
  <2> QED BY <2>1
<1>2. ASSUME NEW k \in Nat, k \in S PROVE k + 1 \in S
  <2>1. PICK h : FoldsOver(h, base, seq, k)
    BY <1>2
  <2> DEFINE g == [s \in SUBSET (1 .. (k + 1)) |->
                     IF k + 1 \in s THEN MergeTransition(h[s \ {k + 1}], seq[k + 1]) ELSE h[s]]
  <2>2. \A s \in SUBSET (1 .. k) : s \in SUBSET (1 .. (k + 1)) /\ k + 1 \notin s
    OBVIOUS
  <2>3. \A s \in SUBSET (1 .. k) : g[s] = h[s]
    BY <2>2
  <2> HIDE DEF g
  <2>4. ASSUME NEW s \in SUBSET (1 .. (k + 1))
        PROVE  g[s] = IF s = {} THEN base ELSE MergeTransition(g[s \ {Max(s)}], seq[Max(s)])
    <3>1. CASE k + 1 \in s
      <4>1. Max(s) = k + 1 /\ s \ {Max(s)} \in SUBSET (1 .. k)
        BY <3>1, MaxFacts
      <4> QED BY <3>1, <4>1, <2>3 DEF g
    <3>2. CASE k + 1 \notin s
      <4>1. s \in SUBSET (1 .. k) /\ s \ {Max(s)} \in SUBSET (1 .. k)
        BY <3>2, MaxFacts
      <4>2. h[s] = IF s = {} THEN base ELSE MergeTransition(h[s \ {Max(s)}], seq[Max(s)])
        BY <2>1, <4>1 DEF FoldsOver
      <4> QED BY <4>1, <4>2, <2>3
    <3> QED BY <3>1, <3>2
  <2>5. FoldsOver(g, base, seq, k + 1)
    BY <2>4 DEF FoldsOver, g
  <2> QED BY <2>5
<1> HIDE DEF S
<1>3. Nat \subseteq S
  BY <1>1, <1>2, SetInduction
<1> QED BY <1>3 DEF S

\* The one transition that a sequence of them is flattened into.
Merged(seq) == FoldLeft(MergeTransition, <<>>, seq)

\* Flattening a sequence of transitions is merging one after the other.
LEMMA FlattenOneByOne ==
  ASSUME NEW seq, NEW n \in Nat, DOMAIN seq = 1 .. n
  PROVE  \E g : /\ g[0] = <<>>
                /\ \A i \in 1 .. n : g[i] = MergeTransition(g[i - 1], seq[i])
                /\ Merged(seq) = g[n]
<1> DEFINE h == CHOOSE x : FoldsOver(x, <<>>, seq, n)
<1>1. Merged(seq) = h[1 .. n]
  BY DEF Merged, FoldLeft, MapThenFoldSet, FoldsOver
<1>2. FoldsOver(h, <<>>, seq, n)
  BY FoldExists
<1> HIDE DEF h
<1> DEFINE g == [i \in 0 .. n |-> h[1 .. i]]
<1>3. g[0] = <<>>
  <2>1. 1 .. 0 = {} /\ 1 .. 0 \in SUBSET (1 .. n)
    OBVIOUS
  <2> QED BY <1>2, <2>1 DEF FoldsOver
<1>4. ASSUME NEW i \in 1 .. n PROVE g[i] = MergeTransition(g[i - 1], seq[i])
  <2>1. i - 1 \in Nat /\ (i - 1) + 1 = i /\ i \in 1 .. i /\ 1 .. i \in SUBSET (1 .. n)
    OBVIOUS
  <2>2. Max(1 .. i) = i
    BY <2>1, MaxFacts
  <2>3. (1 .. i) \ {i} = 1 .. (i - 1)
    OBVIOUS
  <2>4. h[1 .. i] = MergeTransition(h[1 .. (i - 1)], seq[i])
    BY <1>2, <2>1, <2>2, <2>3 DEF FoldsOver
  <2> QED BY <2>1, <2>4
<1>5. Merged(seq) = g[n]
  BY <1>1
<1> HIDE DEF g
<1> QED BY <1>3, <1>4, <1>5

\* Nothing is flattened into nothing.
LEMMA MergedOfNone == Merged(<<>>) = <<>>
<1>1. DOMAIN <<>> = 1 .. 0 /\ 0 \in Nat
  OBVIOUS
<1>2. PICK g : g[0] = <<>> /\ Merged(<<>>) = g[0]
  BY <1>1, FlattenOneByOne
<1> QED BY <1>2

\* A transition more is merged last.
LEMMA MergedOfNext ==
  ASSUME NEW T, NEW seq \in Seq(T), NEW t \in T
  PROVE  Merged(Append(seq, t)) = MergeTransition(Merged(seq), t)
<1> DEFINE n == Len(seq)
           next == Append(seq, t)
<1>1. /\ n \in Nat /\ n + 1 \in Nat /\ DOMAIN seq = 1 .. n /\ DOMAIN next = 1 .. (n + 1)
      /\ next[n + 1] = t /\ \A i \in 1 .. n : next[i] = seq[i]
  OBVIOUS
<1> HIDE DEF n, next
<1>2. PICK g : /\ g[0] = <<>>
               /\ \A i \in 1 .. n : g[i] = MergeTransition(g[i - 1], seq[i])
               /\ Merged(seq) = g[n]
  BY <1>1, FlattenOneByOne
<1>3. PICK h : /\ h[0] = <<>>
               /\ \A i \in 1 .. (n + 1) : h[i] = MergeTransition(h[i - 1], next[i])
               /\ Merged(next) = h[n + 1]
  BY <1>1, FlattenOneByOne
<1> DEFINE S == {i \in Nat : i <= n => h[i] = g[i]}
<1>4. 0 \in S
  BY <1>2, <1>3
<1>5. ASSUME NEW i \in Nat, i \in S PROVE i + 1 \in S
  <2> SUFFICES ASSUME i + 1 <= n PROVE h[i + 1] = g[i + 1]
    OBVIOUS
  <2>1. i + 1 \in 1 .. n /\ i + 1 \in 1 .. (n + 1) /\ (i + 1) - 1 = i /\ i <= n
    BY <1>1
  <2>2. h[i] = g[i]
    BY <2>1, <1>5
  <2>3. next[i + 1] = seq[i + 1]
    BY <2>1, <1>1
  <2>4. h[i + 1] = MergeTransition(h[i], next[i + 1])
    BY <2>1, <1>3
  <2>5. g[i + 1] = MergeTransition(g[i], seq[i + 1])
    BY <2>1, <1>2
  <2> QED BY <2>2, <2>3, <2>4, <2>5
<1> HIDE DEF S
<1>6. Nat \subseteq S
  BY <1>4, <1>5, SetInduction
<1>7. h[n] = g[n]
  BY <1>1, <1>6 DEF S
<1>8. h[n + 1] = MergeTransition(h[n], next[n + 1])
  <2>1. n + 1 \in 1 .. (n + 1) /\ (n + 1) - 1 = n
    BY <1>1
  <2> QED BY <2>1, <1>3
<1> QED BY <1>1, <1>2, <1>3, <1>7, <1>8 DEF next

\* Undoing one transition.
LEMMA UndoOne ==
  ASSUME NEW m, NEW state
  PROVE  Undo(<<m>>, state) = UndoTransition(m, state)
<1> DEFINE Folds(h) == h = [s \in SUBSET (1 .. 1) |->
                             IF s = {} THEN state
                             ELSE UndoTransition(<<m>>[Min(s)], h[s \ {Min(s)}])]
           h0 == [s \in SUBSET (1 .. 1) |->
                   IF s = {} THEN state ELSE UndoTransition(m, state)]
           h1 == CHOOSE h : Folds(h)
<1>1. Undo(<<m>>, state) = h1[1 .. 1]
  <2>1. DOMAIN <<m>> = 1 .. 1
    OBVIOUS
  <2> QED BY <2>1 DEF Undo, FoldRight, MapThenFoldSet
<1>2. ASSUME NEW s \in SUBSET (1 .. 1) PROVE s = {} \/ s = {1}
  <2>1. \A x \in s : x = 1
    OBVIOUS
  <2> QED BY <2>1
<1>3. Min({1}) = 1 /\ {1} \ {1} = {} /\ 1 .. 1 = {1} /\ <<m>>[1] = m
  BY DEF Min
<1>4. Folds(h0)
  <2>1. \A s \in SUBSET (1 .. 1) :
          h0[s] = IF s = {} THEN state ELSE UndoTransition(<<m>>[Min(s)], h0[s \ {Min(s)}])
    <3>1. h0[{}] = state /\ h0[{1}] = UndoTransition(m, state)
      BY <1>3
    <3> HIDE DEF h0
    <3> TAKE s \in SUBSET (1 .. 1)
    <3>2. CASE s = {}
      BY <3>1, <3>2
    <3>3. CASE s = {1}
      <4>1. <<m>>[Min(s)] = m /\ s \ {Min(s)} = {} /\ s # {}
        BY <3>3, <1>3
      <4> HIDE <1>3
      <4> QED BY <3>1, <3>3, <4>1
    <3> QED BY <3>2, <3>3, <1>2
  <2>2. h0 = [s \in SUBSET (1 .. 1) |-> h0[s]]
    OBVIOUS
  <2> HIDE DEF h0
  <2> QED BY <2>1, <2>2
<1>5. Folds(h1)
  BY <1>4
<1> HIDE DEF h1
<1>6. h1[{}] = state
  BY <1>5
<1>7. h1[{1}] = UndoTransition(m, state)
  <2>1. {1} \in SUBSET (1 .. 1) /\ {1} # {}
    OBVIOUS
  <2>2. h1[{1}] = UndoTransition(<<m>>[Min({1})], h1[{1} \ {Min({1})}])
    BY <2>1, <1>5
  <2> QED BY <2>2, <1>3, <1>6
<1> QED BY <1>1, <1>3, <1>7

-----------------------------------------------------------------------------
(***************************************************************************)
(* What a transition says of the accounts before and after it.             *)
(***************************************************************************)

\* The revert leads from account `new` back to account `old`.
LeadsBack(revert, new, old) ==
  /\ \/ revert.account.kind = "DoNothing" /\ old.info = new.info
     \/ revert.account.kind = "DeleteIt" /\ old.info = NoAccount
     \/ revert.account.kind = "RevertTo" /\ old.info = revert.account.info
  /\ DOMAIN revert.storage \subseteq StorageSlot
  /\ \A slot \in DOMAIN revert.storage : revert.storage[slot] = old.storage[slot]
  /\ \A slot \in StorageSlot \ DOMAIN revert.storage : new.storage[slot] = old.storage[slot]
  /\ revert.previous_status = old.status

\* The transition leads from `new` back to `old`; an account that it does not
\* mention is the same in both.
TransitionLeadsBack(transition, new, old) ==
  /\ DOMAIN transition \subseteq Address
  /\ \A a \in Address : IF a \in DOMAIN transition
                        THEN LeadsBack(transition[a], new[a], old[a])
                        ELSE new[a] = old[a]

WipedIn(transition) == {a \in DOMAIN transition : transition[a].wipe_storage}

\* Merged, two reverts lead back over both changes.
LEMMA MergeLeadsBack ==
  ASSUME NEW first, NEW later, NEW new, NEW mid, NEW old,
         LeadsBack(first, mid, old), LeadsBack(later, new, mid)
  PROVE  LeadsBack(Merge(first, later), new, old)
<1> DEFINE both == Merge(first, later)
<1>1. /\ both.account = IF first.account.kind = "DoNothing" THEN later.account ELSE first.account
      /\ both.storage = Override(first.storage, later.storage)
      /\ both.previous_status = first.previous_status
  BY DEF Merge
<1> DEFINE o == Override(first.storage, later.storage)
<1>2. /\ DOMAIN o = DOMAIN first.storage \cup DOMAIN later.storage
      /\ \A s \in DOMAIN first.storage : o[s] = first.storage[s]
      /\ \A s \in DOMAIN later.storage \ DOMAIN first.storage : o[s] = later.storage[s]
  BY DEF Override
<1> HIDE DEF both, o
<1>3. \/ both.account.kind = "DoNothing" /\ old.info = new.info
      \/ both.account.kind = "DeleteIt" /\ old.info = NoAccount
      \/ both.account.kind = "RevertTo" /\ old.info = both.account.info
  BY <1>1 DEF LeadsBack
<1>4. DOMAIN o \subseteq StorageSlot
  BY <1>2 DEF LeadsBack
<1>5. \A slot \in DOMAIN o : o[slot] = old.storage[slot]
  BY <1>2 DEF LeadsBack
<1>6. \A slot \in StorageSlot \ DOMAIN o : new.storage[slot] = old.storage[slot]
  BY <1>2 DEF LeadsBack
<1>7. both.storage = o
  BY <1>1 DEF o
<1>8. both.previous_status = old.status
  BY <1>1 DEF LeadsBack
<1>9. LeadsBack(both, new, old)
  BY <1>3, <1>4, <1>5, <1>6, <1>7, <1>8 DEF LeadsBack
<1> QED BY <1>9 DEF both

\* So do two transitions; and what either wiped the two have wiped.
LEMMA TransitionsLeadBack ==
  ASSUME NEW merged, NEW transition, NEW new, NEW mid, NEW old,
         TransitionLeadsBack(merged, mid, old), TransitionLeadsBack(transition, new, mid)
  PROVE  /\ TransitionLeadsBack(MergeTransition(merged, transition), new, old)
         /\ WipedIn(MergeTransition(merged, transition)) = WipedIn(merged) \cup WipedIn(transition)
<1> DEFINE both == MergeTransition(merged, transition)
<1>1. /\ DOMAIN both = DOMAIN merged \cup DOMAIN transition
      /\ \A a \in DOMAIN merged \ DOMAIN transition : both[a] = merged[a]
      /\ \A a \in DOMAIN transition \ DOMAIN merged : both[a] = transition[a]
      /\ \A a \in DOMAIN merged \cap DOMAIN transition : both[a] = Merge(merged[a], transition[a])
  BY DEF MergeTransition
<1> HIDE DEF both
<1>2. DOMAIN both \subseteq Address
  BY <1>1 DEF TransitionLeadsBack
<1>3. ASSUME NEW a \in Address
      PROVE  IF a \in DOMAIN both THEN LeadsBack(both[a], new[a], old[a]) ELSE new[a] = old[a]
  <2>1. /\ IF a \in DOMAIN merged THEN LeadsBack(merged[a], mid[a], old[a]) ELSE mid[a] = old[a]
        /\ IF a \in DOMAIN transition THEN LeadsBack(transition[a], new[a], mid[a])
                                      ELSE new[a] = mid[a]
    BY DEF TransitionLeadsBack
  <2>2. CASE a \in DOMAIN merged /\ a \in DOMAIN transition
    <3>1. LeadsBack(Merge(merged[a], transition[a]), new[a], old[a])
      BY <2>1, <2>2, MergeLeadsBack
    <3> QED BY <3>1, <2>2, <1>1
  <2>3. CASE a \in DOMAIN merged /\ a \notin DOMAIN transition
    BY <2>1, <2>3, <1>1
  <2>4. CASE a \notin DOMAIN merged /\ a \in DOMAIN transition
    BY <2>1, <2>4, <1>1
  <2>5. CASE a \notin DOMAIN merged /\ a \notin DOMAIN transition
    BY <2>1, <2>5, <1>1
  <2> QED BY <2>2, <2>3, <2>4, <2>5
<1>4. ASSUME NEW a \in DOMAIN both
      PROVE  both[a].wipe_storage <=> a \in WipedIn(merged) \cup WipedIn(transition)
  <2>1. CASE a \in DOMAIN merged /\ a \in DOMAIN transition
    <3>1. Merge(merged[a], transition[a]).wipe_storage
            <=> merged[a].wipe_storage \/ transition[a].wipe_storage
      BY DEF Merge
    <3> QED BY <3>1, <2>1, <1>1 DEF WipedIn
  <2>2. CASE a \in DOMAIN merged /\ a \notin DOMAIN transition
    BY <2>2, <1>1 DEF WipedIn
  <2>3. CASE a \notin DOMAIN merged /\ a \in DOMAIN transition
    BY <2>3, <1>1 DEF WipedIn
  <2> QED BY <2>1, <2>2, <2>3, <1>1
<1>5. WipedIn(both) = WipedIn(merged) \cup WipedIn(transition)
  BY <1>1, <1>4 DEF WipedIn
<1> QED BY <1>2, <1>3, <1>5 DEF TransitionLeadsBack, both

-----------------------------------------------------------------------------
(***************************************************************************)
(* The reverts of the block.                                               *)
(***************************************************************************)

\* Accounts as they occur have the fields of an account.
AccountType ==
  [info : AccountInfo \cup {NoAccount}, storage : [StorageSlot -> Value], status : Status]

\* The inductive invariant: merged into one, the transitions of the bundle lead
\* back to the parent block, and have wiped what was wiped.
IInv ==
  /\ parent \in [Address -> AccountType]
  /\ accounts \in [Address -> AccountType]
  /\ \E T : published \in Seq(T) /\ unpublished \in Seq(T)
  /\ TransitionLeadsBack(Merged(published \o unpublished), accounts, parent)
  /\ WipedIn(Merged(published \o unpublished)) = wiped

\* The reverts of a checkpoint lead back over what it changed.
LEMMA CheckpointLeadsBack ==
  ASSUME NEW old \in [Address -> AccountType], NEW new \in [Address -> AccountType],
         NEW changed \in SUBSET Address, NEW wipe \in SUBSET changed,
         \A a \in Address \ changed : new[a] = old[a],
         NEW t, t = [a \in changed |-> AccountRevert(old[a], new[a], a \in wipe)]
  PROVE  TransitionLeadsBack(t, new, old) /\ WipedIn(t) = wipe
<1>1. DOMAIN t = changed /\ \A a \in changed : t[a] = AccountRevert(old[a], new[a], a \in wipe)
  OBVIOUS
<1>2. ASSUME NEW a \in changed PROVE LeadsBack(t[a], new[a], old[a])
  <2> DEFINE r == AccountRevert(old[a], new[a], a \in wipe)
  <2>1. /\ r.account = InfoRevert(old[a], new[a])
        /\ r.storage = [slot \in {s \in StorageSlot : old[a].storage[s] # new[a].storage[s]} |->
                          old[a].storage[slot]]
        /\ r.previous_status = old[a].status
    BY DEF AccountRevert
  <2> HIDE DEF r
  <2>2. \/ r.account.kind = "DoNothing" /\ old[a].info = new[a].info
        \/ r.account.kind = "DeleteIt" /\ old[a].info = NoAccount
        \/ r.account.kind = "RevertTo" /\ old[a].info = r.account.info
    BY <2>1 DEF InfoRevert
  <2>3. /\ DOMAIN r.storage \subseteq StorageSlot
        /\ \A slot \in DOMAIN r.storage : r.storage[slot] = old[a].storage[slot]
        /\ \A slot \in StorageSlot \ DOMAIN r.storage : new[a].storage[slot] = old[a].storage[slot]
    BY <2>1
  <2>4. LeadsBack(r, new[a], old[a])
    BY <2>1, <2>2, <2>3 DEF LeadsBack
  <2> QED BY <2>4, <1>1 DEF r
<1>3. TransitionLeadsBack(t, new, old)
  BY <1>1, <1>2 DEF TransitionLeadsBack
<1>4. ASSUME NEW a \in changed PROVE t[a].wipe_storage <=> a \in wipe
  <2>1. AccountRevert(old[a], new[a], a \in wipe).wipe_storage = (a \in wipe)
    BY DEF AccountRevert
  <2> QED BY <2>1, <1>1
<1>5. WipedIn(t) = wipe
  BY <1>1, <1>4 DEF WipedIn
<1> QED BY <1>3, <1>5

\* No reverts lead nowhere.
LEMMA NothingLeadsBack ==
  ASSUME NEW state
  PROVE  TransitionLeadsBack(<<>>, state, state) /\ WipedIn(<<>>) = {}
<1>1. DOMAIN <<>> = {}
  OBVIOUS
<1> QED BY <1>1 DEF TransitionLeadsBack, WipedIn

\* The inductive invariant holds of every state.
THEOREM Invariance == RevertsSpec => []IInv
<1>1. RevertsInit => IInv
  <2> SUFFICES ASSUME RevertsInit PROVE IInv
    OBVIOUS
  <2>1. parent \in [Address -> AccountType] /\ accounts = parent
    BY RevertsAssumption DEF RevertsInit, AccountType
  <2>2. published \in Seq({}) /\ unpublished \in Seq({}) /\ published \o unpublished = <<>>
    BY DEF RevertsInit
  <2>3. Merged(published \o unpublished) = <<>> /\ wiped = {}
    BY <2>2, MergedOfNone DEF RevertsInit
  <2> QED BY <2>1, <2>2, <2>3, NothingLeadsBack DEF IInv
<1>2. IInv /\ [RevertsNext]_vars => IInv'
  <2> SUFFICES ASSUME IInv, [RevertsNext]_vars PROVE IInv'
    OBVIOUS
  <2> DEFINE R == published \o unpublished
  <2>1. /\ parent \in [Address -> AccountType] /\ accounts \in [Address -> AccountType]
        /\ TransitionLeadsBack(Merged(R), accounts, parent)
        /\ WipedIn(Merged(R)) = wiped
    BY DEF IInv
  <2>2. CASE Checkpoint
    <3>1. PICK changed \in SUBSET Address \ {{}}, wipe \in SUBSET Address,
               new \in [Address -> Account] :
            /\ wipe \subseteq changed
            /\ \A a \in Address \ changed : new[a] = accounts[a]
            /\ accounts' = new
            /\ unpublished' =
                 Append(unpublished,
                        [a \in changed |-> AccountRevert(accounts[a], new[a], a \in wipe)])
            /\ wiped' = wiped \cup wipe
      BY <2>2 DEF Checkpoint
    <3> DEFINE t == [a \in changed |-> AccountRevert(accounts[a], new[a], a \in wipe)]
    <3>2. parent' = parent /\ published' = published
      BY <2>2 DEF Checkpoint
    <3>3. new \in [Address -> AccountType] /\ changed \in SUBSET Address /\ wipe \in SUBSET changed
      BY <3>1, RevertsAssumption DEF AccountType
    <3>4. TransitionLeadsBack(t, new, accounts) /\ WipedIn(t) = wipe
      <4>1. /\ accounts \in [Address -> AccountType] /\ new \in [Address -> AccountType]
            /\ changed \in SUBSET Address /\ wipe \in SUBSET changed
            /\ \A a \in Address \ changed : new[a] = accounts[a]
        BY <2>1, <3>1, <3>3
      <4> QED BY <4>1, CheckpointLeadsBack
    <3>5. unpublished' = Append(unpublished, t)
      BY <3>1
    <3> HIDE DEF t
    <3>6. PICK T : published \in Seq(T) /\ unpublished \in Seq(T)
      BY DEF IInv
    <3> DEFINE U == T \cup {t}
    <3>7. published \in Seq(U) /\ unpublished \in Seq(U) /\ t \in U
      BY <3>6
    <3> HIDE DEF U
    <3>8. /\ R \in Seq(U) /\ Append(unpublished, t) \in Seq(U)
          /\ published \o Append(unpublished, t) = Append(R, t)
      BY <3>7
    <3>9. Merged(published \o Append(unpublished, t)) = MergeTransition(Merged(R), t)
      BY <3>7, <3>8, MergedOfNext
    <3>10. /\ TransitionLeadsBack(MergeTransition(Merged(R), t), new, parent)
           /\ WipedIn(MergeTransition(Merged(R), t)) = wiped \cup wipe
      BY <2>1, <3>4, TransitionsLeadBack
    <3>11. /\ TransitionLeadsBack(Merged(published' \o unpublished'), accounts', parent')
           /\ WipedIn(Merged(published' \o unpublished')) = wiped'
      BY <3>1, <3>2, <3>5, <3>9, <3>10
    <3>12. \E V : published' \in Seq(V) /\ unpublished' \in Seq(V)
      BY <3>2, <3>5, <3>7, <3>8
    <3>13. parent' \in [Address -> AccountType] /\ accounts' \in [Address -> AccountType]
      BY <2>1, <3>1, <3>2, <3>3
    <3> QED BY <3>11, <3>12, <3>13 DEF IInv
  <2>3. CASE PublishFlashblock
    <3> DEFINE m == Merged(R)
    <3>1. /\ published' = <<m>> /\ unpublished' = <<>>
          /\ parent' = parent /\ accounts' = accounts /\ wiped' = wiped
      BY <2>3 DEF PublishFlashblock, BlockReverts, Flatten, Merged
    <3> HIDE DEF m
    <3>2. /\ <<m>> \o <<>> = Append(<<>>, m) /\ <<>> \in Seq({m}) /\ m \in {m}
          /\ <<m>> \in Seq({m})
      OBVIOUS
    <3>3. Merged(<<m>> \o <<>>) = MergeTransition(<<>>, m)
      BY <3>2, MergedOfNext, MergedOfNone
    <3>4. TransitionLeadsBack(<<>>, parent, parent) /\ WipedIn(<<>>) = {}
      BY NothingLeadsBack
    <3>5. /\ TransitionLeadsBack(MergeTransition(<<>>, m), accounts, parent)
          /\ WipedIn(MergeTransition(<<>>, m)) = {} \cup WipedIn(m)
      BY <2>1, <3>4, TransitionsLeadBack DEF m
    <3>6. WipedIn(m) = wiped
      BY <2>1 DEF m
    <3> QED BY <2>1, <3>1, <3>2, <3>3, <3>5, <3>6 DEF IInv
  <2>4. CASE UNCHANGED vars
    BY <2>4 DEF IInv, vars
  <2> QED BY <2>2, <2>3, <2>4 DEF RevertsNext
<1> QED BY <1>1, <1>2, PTL DEF RevertsSpec

\* Undoing a transition that leads back gives the accounts it leads back to.
LEMMA UndoLeadsBack ==
  ASSUME NEW m, NEW new \in [Address -> AccountType], NEW old \in [Address -> AccountType],
         TransitionLeadsBack(m, new, old)
  PROVE  UndoTransition(m, new) = old
<1>1. ASSUME NEW a \in DOMAIN m, a \in Address PROVE UndoAccount(new[a], m[a]) = old[a]
  <2> DEFINE r == m[a]
             u == UndoAccount(new[a], r)
  <2>1. LeadsBack(r, new[a], old[a])
    BY <1>1 DEF TransitionLeadsBack
  <2>2. new[a] \in AccountType /\ old[a] \in AccountType
    BY <1>1
  <2>3. u = [info |-> CASE r.account.kind = "DoNothing" -> new[a].info
                        [] r.account.kind = "DeleteIt"  -> NoAccount
                        [] r.account.kind = "RevertTo"  -> r.account.info,
             storage |-> Override(r.storage, new[a].storage),
             status |-> r.previous_status]
    BY DEF UndoAccount
  <2> HIDE DEF r
  <2>4. (CASE r.account.kind = "DoNothing" -> new[a].info
           [] r.account.kind = "DeleteIt"  -> NoAccount
           [] r.account.kind = "RevertTo"  -> r.account.info) = old[a].info
    BY <2>1 DEF LeadsBack
  <2>5. Override(r.storage, new[a].storage) = old[a].storage
    <3>1. new[a].storage \in [StorageSlot -> Value] /\ old[a].storage \in [StorageSlot -> Value]
      BY <2>2 DEF AccountType
    <3>2. DOMAIN r.storage \cup DOMAIN new[a].storage = StorageSlot
      BY <2>1, <3>1 DEF LeadsBack
    <3>3. Override(r.storage, new[a].storage)
            = [k \in StorageSlot |-> IF k \in DOMAIN r.storage THEN r.storage[k]
                                                               ELSE new[a].storage[k]]
      BY <3>2 DEF Override
    <3>4. \A k \in StorageSlot : (IF k \in DOMAIN r.storage THEN r.storage[k]
                                  ELSE new[a].storage[k]) = old[a].storage[k]
      BY <2>1 DEF LeadsBack
    <3> QED BY <3>1, <3>3, <3>4
  <2>6. r.previous_status = old[a].status
    BY <2>1 DEF LeadsBack
  <2>7. u = [info |-> old[a].info, storage |-> old[a].storage, status |-> old[a].status]
    BY <2>3, <2>4, <2>5, <2>6
  <2>8. old[a] = [info |-> old[a].info, storage |-> old[a].storage, status |-> old[a].status]
    BY <2>2 DEF AccountType
  <2> QED BY <2>7, <2>8 DEF r
<1>2. \A a \in Address : (IF a \in DOMAIN m THEN UndoAccount(new[a], m[a]) ELSE new[a]) = old[a]
  BY <1>1 DEF TransitionLeadsBack
<1> QED BY <1>2 DEF UndoTransition

\* Undoing the flattened reverts of the block, after any number of checkpoints
\* and flashblocks, gives the accounts of the parent block.
THEOREM FlattenedUndoes == RevertsSpec => []FlattenedUndoesTheBlock
<1>1. IInv => FlattenedUndoesTheBlock
  <2> SUFFICES ASSUME IInv PROVE FlattenedUndoesTheBlock
    OBVIOUS
  <2> DEFINE m == Merged(published \o unpublished)
  <2>1. BlockReverts = <<m>>
    BY DEF BlockReverts, Flatten, Merged
  <2>2. UndoTransition(m, accounts) = parent
    BY UndoLeadsBack DEF IInv
  <2> HIDE DEF m
  <2>3. Undo(<<m>>, accounts) = UndoTransition(m, accounts)
    BY UndoOne
  <2> QED BY <2>1, <2>2, <2>3 DEF FlattenedUndoesTheBlock
<1> QED BY <1>1, Invariance, PTL

\* The flattened reverts claim a wiped storage for exactly the accounts whose
\* storage some checkpoint of the block wiped.
THEOREM WipesReflected == RevertsSpec => []WipesAreReflected
<1>1. IInv => WipesAreReflected
  <2> SUFFICES ASSUME IInv PROVE WipesAreReflected
    OBVIOUS
  <2> DEFINE m == Merged(published \o unpublished)
  <2>1. BlockReverts = <<m>>
    BY DEF BlockReverts, Flatten, Merged
  <2>2. WipedIn(m) = wiped
    BY DEF IInv
  <2> HIDE DEF m
  <2>3. Head(BlockReverts) = m
    BY <2>1
  <2> QED BY <2>2, <2>3 DEF WipesAreReflected, WipedIn
<1> QED BY <1>1, Invariance, PTL

=============================================================================
