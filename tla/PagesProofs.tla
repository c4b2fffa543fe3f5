---------------------------- MODULE PagesProofs -----------------------------
(***************************************************************************)
(* What remains of the pages: a student's new profile and the list of      *)
(* conversations, and with them the types of all pages.  Lists are         *)
(* numbered places: what filter leaves of one keeps the order of the       *)
(* places, and each element has one of its own.                            *)
(***************************************************************************)
EXTENDS AccountPagesProofs, Lists, WellFoundedInduction

LEMMA RankIsBijection ==
    ASSUME NEW K \in SUBSET Nat, IsFiniteSet(K)
    PROVE  LET rank == [k \in K |-> Cardinality({j \in K : j <= k})]
           IN  /\ Cardinality(K) \in Nat
               /\ rank \in Surjection(K, 1 .. Cardinality(K))
               /\ rank \in Injection(K, 1 .. Cardinality(K))
<1> DEFINE Upto(k) == {j \in K : j <= k}
           rank == [k \in K |-> Cardinality(Upto(k))]
           Ns == 1 .. Cardinality(K)
<1>1. Cardinality(K) \in Nat /\ IsFiniteSet(Ns) /\ Cardinality(Ns) = Cardinality(K)
  BY FS_CardinalityType, FS_Interval
<1>2. ASSUME NEW k \in K
      PROVE  /\ IsFiniteSet(Upto(k)) /\ k \in Upto(k)
             /\ Cardinality(Upto(k)) \in Ns
  <2>1. IsFiniteSet(Upto(k)) /\ Cardinality(Upto(k)) <= Cardinality(K) /\ k \in Upto(k)
    BY FS_Subset
  <2>2. Cardinality(Upto(k)) \in Nat /\ Cardinality(Upto(k)) # 0
    BY <2>1, FS_CardinalityType, FS_EmptySet
  <2> QED BY <1>1, <2>1, <2>2
<1>3. ASSUME NEW k \in K, NEW l \in K, k < l
      PROVE  Cardinality(Upto(k)) # Cardinality(Upto(l))
  <2>1. k \in Nat /\ l \in Nat /\ \A j \in K : j \in Nat
    OBVIOUS
  <2>2. (\A j \in K : j <= k => j <= l) /\ l <= l /\ ~(l <= k)
    BY <1>3, <2>1
  <2>3. Upto(k) \in SUBSET Upto(l) /\ l \in Upto(l) /\ l \notin Upto(k)
    BY <2>2
  <2> HIDE DEF Upto
  <2> QED BY <1>2, <2>3, FS_Subset
<1>4. rank \in [K -> Ns]
  BY <1>2
<1>5. \A k, l \in K : rank[k] = rank[l] => k = l
  <2> SUFFICES ASSUME NEW k \in K, NEW l \in K, k # l PROVE rank[k] # rank[l]
    OBVIOUS
  <2>1. k < l \/ l < k
    OBVIOUS
  <2> HIDE DEF Upto
  <2> QED BY <1>3, <2>1
<1> HIDE DEF rank, Upto, Ns
<1>6. rank \in Injection(K, Ns)
  BY <1>4, <1>5 DEF Injection, IsInjective
<1>7. rank \in Surjection(K, Ns)
  BY <1>1, <1>6, FS_Injection
<1> QED BY <1>1, <1>6, <1>7 DEF rank, Upto, Ns

\* The n-th least are all the numbers, each once.
LEMMA NthIsBijection ==
    ASSUME NEW K \in SUBSET Nat, IsFiniteSet(K)
    PROVE  /\ Cardinality(K) \in Nat
           /\ \A n \in 1 .. Cardinality(K) : Nth(K, n) \in K
           /\ \A m, n \in 1 .. Cardinality(K) : Nth(K, m) = Nth(K, n) => m = n
           /\ \A k \in K : \E n \in 1 .. Cardinality(K) : Nth(K, n) = k
<1> DEFINE Rank(k) == Cardinality({j \in K : j <= k})
           rank == [k \in K |-> Rank(k)]
           Ns == 1 .. Cardinality(K)
<1>1. Cardinality(K) \in Nat /\ rank \in Surjection(K, Ns) /\ rank \in Injection(K, Ns)
  BY RankIsBijection
<1>2. \A k \in K : Rank(k) \in Ns
  BY <1>1 DEF Injection
<1>3. \A k, l \in K : Rank(k) = Rank(l) => k = l
  BY <1>1 DEF Injection, IsInjective
<1>4. \A n \in Ns : \E k \in K : Rank(k) = n
  BY <1>1 DEF Surjection
<1>5. \A n \in Ns : Nth(K, n) \in K /\ Rank(Nth(K, n)) = n
  <2> TAKE n \in Ns
  <2>1. \E k \in K : Rank(k) = n
    BY <1>4
  <2>2. Nth(K, n) = CHOOSE k \in K : Rank(k) = n
    BY DEF Nth
  <2> HIDE DEF Rank
  <2> QED BY <2>1, <2>2
<1> HIDE DEF Rank, Ns
<1>6. \A k \in K : \E n \in Ns : Nth(K, n) = k
  BY <1>2, <1>3, <1>5
<1> QED BY <1>1, <1>5, <1>6 DEF Ns

\* What is kept of a list are its elements in U, each from a place of its own.
LEMMA KeptIsPart ==
    ASSUME NEW T, NEW s \in Seq(T), NEW U
    PROVE  /\ Kept(s, U) \in Seq(T)
           /\ Len(Kept(s, U)) \in Nat
           /\ \E from \in [1 .. Len(Kept(s, U)) -> 1 .. Len(s)] :
                 /\ \A n \in 1 .. Len(Kept(s, U)) : Kept(s, U)[n] = s[from[n]]
                 /\ \A m, n \in 1 .. Len(Kept(s, U)) : from[m] = from[n] => m = n
           /\ \A n \in 1 .. Len(Kept(s, U)) : Kept(s, U)[n] \in U
           /\ \A i \in 1 .. Len(s) : s[i] \in U => \E n \in 1 .. Len(Kept(s, U)) : Kept(s, U)[n] = s[i]
<1> DEFINE K == {i \in DOMAIN s : s[i] \in U}
           Ns == 1 .. Cardinality(K)
           from == [n \in Ns |-> Nth(K, n)]
<1>1. DOMAIN s = 1 .. Len(s) /\ Len(s) \in Nat /\ \A i \in 1 .. Len(s) : s[i] \in T
  OBVIOUS
<1>2. K \in SUBSET Nat /\ IsFiniteSet(K)
  <2>1. K \in SUBSET (1 .. Len(s)) /\ IsFiniteSet(1 .. Len(s))
    BY <1>1, FS_Interval
  <2> QED BY <1>1, <2>1, FS_Subset
<1> HIDE DEF K
<1>3. /\ Cardinality(K) \in Nat
      /\ \A n \in Ns : Nth(K, n) \in K
      /\ \A m, n \in Ns : Nth(K, m) = Nth(K, n) => m = n
      /\ \A k \in K : \E n \in Ns : Nth(K, n) = k
  BY <1>2, NthIsBijection
<1>4. Kept(s, U) = [n \in Ns |-> s[Nth(K, n)]]
  BY DEF Kept, K
<1>5. \A n \in Ns : s[Nth(K, n)] \in T /\ s[Nth(K, n)] \in U /\ Nth(K, n) \in 1 .. Len(s)
  BY <1>1, <1>3 DEF K
<1>6. Kept(s, U) \in Seq(T) /\ Len(Kept(s, U)) = Cardinality(K)
  BY <1>3, <1>4, <1>5
<1>7. from \in [Ns -> 1 .. Len(s)] /\ \A n \in Ns : Kept(s, U)[n] = s[from[n]]
  BY <1>4, <1>5
<1>8. \A i \in 1 .. Len(s) : s[i] \in U => i \in K
  BY <1>1 DEF K
<1>9. \A i \in 1 .. Len(s) : s[i] \in U => \E n \in Ns : Kept(s, U)[n] = s[i]
  BY <1>3, <1>4, <1>8
<1>10. \A m, n \in Ns : from[m] = from[n] => m = n
  BY <1>3
<1>11. \A n \in Ns : Kept(s, U)[n] \in U
  BY <1>4, <1>5
<1> HIDE DEF from
<1> QED BY <1>3, <1>6, <1>7, <1>9, <1>10, <1>11

LEMMA CardinalityOfPages ==
    /\ \A U : O!Cardinality(U) = Cardinality(U)
    /\ \A U : C!Cardinality(U) = Cardinality(U)
BY Zenon DEF O!Cardinality, C!Cardinality, Cardinality

LEMMA ListsOfPages ==
    /\ \A K, n : O!Nth(K, n) = Nth(K, n) /\ C!Nth(K, n) = Nth(K, n)
    /\ \A s, U : O!Kept(s, U) = Kept(s, U) /\ C!Kept(s, U) = Kept(s, U)
<1>1. \A K, n : O!Nth(K, n) = Nth(K, n) /\ C!Nth(K, n) = Nth(K, n)
  BY CardinalityOfPages DEF O!Nth, C!Nth, Nth
<1> QED BY <1>1, CardinalityOfPages DEF O!Kept, C!Kept, Kept

-----------------------------------------------------------------------------
(***************************************************************************)
(* The four steps that fill in a new profile.                              *)
(***************************************************************************)
Ids(seq) == {seq[i].id : i \in 1 .. Len(seq)}
Distinct(seq) == \A i, j \in 1 .. Len(seq) : seq[i].id = seq[j].id => i = j

\* A row of the server has the skills and the levels of a selection.
Agrees(row, seq) ==
    /\ DOMAIN row = Ids(seq)
    /\ \A i \in 1 .. Len(seq) : row[seq[i].id] = seq[i].level

\* What is left to write makes the row agree with the selection.
Pending(row, seq, deletes, puts) ==
    /\ deletes = DOMAIN row \ Ids(seq)
    /\ \A n \in 1 .. Len(puts) : \E i \in 1 .. Len(seq) : puts[n] = seq[i]
    /\ \A i \in 1 .. Len(seq) :
          \/ \E n \in 1 .. Len(puts) : puts[n] = seq[i]
          \/ seq[i].id \in DOMAIN row /\ row[seq[i].id] = seq[i].level

SkillSaves(l) ==
    [phase : {"read", "asked", "handled", "refused"}, list : {l}, existing : O!Rows(l),
     deletes : SUBSET Catalogue[l], puts : Seq(O!Picks(l))]
PatchSaves == [phase : {"patch", "patched", "refused"}, body : {"fields", "formats"}]

Least(D) == CHOOSE s \in D : \A t \in D : s <= t

\* The save of a list runs in its step; between two writes the rest of them
\* makes the server agree with the selection.
SkillsAreSaved(l) ==
    /\ save \in SkillSaves(l)
    /\ step = O!StepOf(l) /\ loading.status = "ready" /\ fields[l] # <<>>
    /\ save.phase = "asked" => Pending(onboarded[l], fields[l], save.deletes, save.puts)
    /\ save.phase = "handled" =>
          /\ save.deletes # {} \/ save.puts # <<>>
          /\ Pending(onboarded[l], fields[l],
                     IF save.deletes = {} THEN {} ELSE save.deletes \ {Least(save.deletes)},
                     IF save.deletes # {} THEN save.puts ELSE Tail(save.puts))

PatchIsSaved ==
    /\ save \in PatchSaves
    /\ step = (IF save.body = "fields" THEN 0 ELSE 3) /\ loading.status = "ready"
    /\ save.body = "formats" => fields.formats # {}
    /\ save.body = "formats" /\ save.phase = "patched" =>
          onboarded.formats = fields.formats /\ O!Valid(onboarded)

Forms ==
    [city : BOOLEAN, formats : SUBSET O!Formats,
     teaching : Seq(O!Picks("teaching")), learning : Seq(O!Picks("learning"))]

OnboardingTyped ==
    /\ onboarded \in O!StoredProfiles
    /\ fields \in Forms
    /\ step \in 0 .. 4

OnboardingQueried ==
    /\ loading \in O!Queries({"onboarding"}, O!StoredProfiles)
    /\ loading.call # "none" => loading.status = "loading"
    /\ loading.call = "served" => loading.answer \in O!StoredProfiles
    /\ step # 0 => loading.status = "ready"

ListIsSaved(l) ==
    /\ Distinct(fields[l])
    /\ step > O!StepOf(l) => fields[l] # <<>> /\ Agrees(onboarded[l], fields[l])

SaveIsRunning == PatchIsSaved \/ \E l \in O!SkillLists : SkillsAreSaved(l)

OnboardingInv ==
    /\ OnboardingTyped /\ OnboardingQueried
    /\ \A l \in O!SkillLists : ListIsSaved(l)
    /\ step = 4 => onboarded.formats # {} /\ O!Valid(onboarded)
    /\ save = O!Idle \/ SaveIsRunning

LEMMA SelectedIsIds ==
    ASSUME NEW T, NEW l, fields[l] \in Seq(T)
    PROVE  O!Selected(l) = Ids(fields[l])
<1>1. DOMAIN fields[l] = 1 .. Len(fields[l])
  OBVIOUS
<1>2. O!ToSet(fields[l]) = {fields[l][i] : i \in 1 .. Len(fields[l])}
  BY <1>1 DEF O!ToSet
<1> QED BY <1>2 DEF O!Selected, Ids

\* A row that agrees with a selection is the row AsRow makes of it.
LEMMA AgreesAsRow ==
    ASSUME NEW X, NEW V, NEW seq \in Seq([id : X, level : V]), Distinct(seq),
           NEW D, NEW row \in [D -> V], Agrees(row, seq)
    PROVE  row = O!AsRow(seq)
<1> DEFINE picked == O!ToSet(seq)
           level(s) == CHOOSE p \in picked : p.id = s
<1>1. DOMAIN seq = 1 .. Len(seq) /\ picked = {seq[i] : i \in 1 .. Len(seq)}
  BY DEF O!ToSet
<1> HIDE DEF picked
<1>2. {p.id : p \in picked} = Ids(seq)
  BY <1>1 DEF Ids
<1>3. ASSUME NEW i \in 1 .. Len(seq)
      PROVE  level(seq[i].id) = seq[i]
  <2>1. seq[i] \in picked /\ \A p \in picked : p.id = seq[i].id => p = seq[i]
    BY <1>1 DEF Distinct
  <2> QED BY <2>1
<1> HIDE DEF level
<1>4. \A s \in Ids(seq) : row[s] = level(s).level
  BY <1>3 DEF Ids, Agrees
<1>5. row = [s \in Ids(seq) |-> level(s).level]
  BY <1>4 DEF Agrees
<1> QED BY <1>2, <1>5 DEF O!AsRow, picked, level

LEMMA NothingPending ==
    ASSUME NEW row, NEW seq, Pending(row, seq, {}, <<>>)
    PROVE  Agrees(row, seq)
<1>1. \A i \in 1 .. Len(seq) : seq[i].id \in DOMAIN row /\ row[seq[i].id] = seq[i].level
  BY DEF Pending
<1>2. DOMAIN row \subseteq Ids(seq)
  BY DEF Pending
<1> QED BY <1>1, <1>2 DEF Agrees, Ids

\* What saveSkills deletes and puts makes the server agree.
LEMMA SaveIsPending ==
    ASSUME NEW X, NEW V, NEW seq \in Seq([id : X, level : V]), NEW row,
           NEW U, \A p \in [id : X, level : V] :
                     p \in U \/ (p.id \in DOMAIN row /\ row[p.id] = p.level)
    PROVE  Pending(row, seq, DOMAIN row \ Ids(seq), Kept(seq, U))
<1> DEFINE k == Kept(seq, U)
<1>1. \A i \in 1 .. Len(seq) : seq[i] \in [id : X, level : V]
  BY ElementOfSeq
<1>2. \A i \in 1 .. Len(seq) : seq[i] \in U => \E n \in 1 .. Len(k) : k[n] = seq[i]
  BY KeptIsPart
<1>3. \E from \in [1 .. Len(k) -> 1 .. Len(seq)] : \A n \in 1 .. Len(k) : k[n] = seq[from[n]]
  BY KeptIsPart
<1> HIDE DEF k
<1>4. \A n \in 1 .. Len(k) : \E i \in 1 .. Len(seq) : k[n] = seq[i]
  BY <1>3
<1>5. \A i \in 1 .. Len(seq) :
         \/ \E n \in 1 .. Len(k) : k[n] = seq[i]
         \/ seq[i].id \in DOMAIN row /\ row[seq[i].id] = seq[i].level
  BY <1>1, <1>2
<1>6. Pending(row, seq, DOMAIN row \ Ids(seq), k)
  BY <1>4, <1>5 DEF Pending
<1> QED BY <1>6 DEF k

LEMMA DropIsPending ==
    ASSUME NEW row, NEW seq, NEW deletes, NEW puts, NEW drop \in deletes,
           Pending(row, seq, deletes, puts)
    PROVE  Pending([s \in DOMAIN row \ {drop} |-> row[s]], seq, deletes \ {drop}, puts)
<1>1. \A i \in 1 .. Len(seq) : seq[i].id # drop
  BY DEF Pending, Ids
<1> QED BY <1>1 DEF Pending

LEMMA PutIsPending ==
    ASSUME NEW T, NEW seq \in Seq(T), Distinct(seq),
           NEW row, NEW puts \in Seq(T), puts # <<>>,
           Pending(row, seq, {}, puts)
    PROVE  Pending([s \in DOMAIN row \union {Head(puts).id} |->
                       IF s = Head(puts).id THEN Head(puts).level ELSE row[s]],
                   seq, {}, Tail(puts))
<1> DEFINE put == Head(puts)
           tail == Tail(puts)
           after == [s \in DOMAIN row \union {put.id} |-> IF s = put.id THEN put.level ELSE row[s]]
<1>1. /\ Len(puts) \in Nat /\ 1 \in 1 .. Len(puts) /\ put = puts[1]
      /\ Len(tail) = Len(puts) - 1 /\ \A n \in 1 .. Len(tail) : tail[n] = puts[n + 1]
  <2>1. Len(puts) \in Nat \ {0}
    BY EmptySeq
  <2> QED BY <2>1, HeadTailProperties
<1> HIDE DEF put, tail
<1>2. PICK i \in 1 .. Len(seq) : put = seq[i]
  BY <1>1 DEF Pending
<1>3. \A n \in 1 .. Len(tail) : \E j \in 1 .. Len(seq) : tail[n] = seq[j]
  <2>1. \A n \in 1 .. Len(tail) : n + 1 \in 1 .. Len(puts)
    BY <1>1
  <2> QED BY <1>1, <2>1 DEF Pending
<1>4. DOMAIN after = DOMAIN row \union {put.id} /\ after[put.id] = put.level
      /\ \A s \in DOMAIN row : s # put.id => after[s] = row[s]
  OBVIOUS
<1> HIDE DEF after
<1>5. DOMAIN after \ Ids(seq) = {}
  BY <1>2, <1>4 DEF Pending, Ids
<1>6. ASSUME NEW j \in 1 .. Len(seq)
      PROVE  \/ \E n \in 1 .. Len(tail) : tail[n] = seq[j]
             \/ seq[j].id \in DOMAIN after /\ after[seq[j].id] = seq[j].level
  <2>1. CASE seq[j] = put
    BY <1>4, <2>1
  <2>2. CASE seq[j] # put
    <3>1. seq[j].id # put.id
      BY <1>2, <2>2 DEF Distinct
    <3>2. CASE \E n \in 1 .. Len(puts) : puts[n] = seq[j]
      <4>1. PICK n \in 1 .. Len(puts) : puts[n] = seq[j]
        BY <3>2
      <4>2. n - 1 \in 1 .. Len(tail) /\ tail[n - 1] = puts[n]
        BY <1>1, <2>2, <4>1
      <4> QED BY <4>1, <4>2
    <3>3. CASE seq[j].id \in DOMAIN row /\ row[seq[j].id] = seq[j].level
      BY <1>4, <3>1, <3>3
    <3> QED BY <3>2, <3>3 DEF Pending
  <2> QED BY <2>1, <2>2
<1> QED BY <1>3, <1>5, <1>6 DEF Pending, put, tail, after

\* A set of numbers that has one has a least one.
LEMMA LeastIsIn ==
    ASSUME NEW D \in SUBSET Nat, D # {}
    PROVE  Least(D) \in D
<1> DEFINE less == OpToRel(<, Nat)
<1>1. IsWellFoundedOn(less, Nat)
  BY NatLessThanWellFounded
<1> HIDE DEF less
<1>2. \E x \in D : \A y \in D : ~(<<y, x>> \in less)
  BY <1>1, WFMin
<1>3. \A x, y \in Nat : y < x => <<y, x>> \in less
  BY DEF less, OpToRel
<1>4. \E x \in D : \A y \in D : x <= y
  <2>1. PICK x \in D : \A y \in D : ~(<<y, x>> \in less)
    BY <1>2
  <2>2. \A y \in D : ~(y < x)
    BY <1>3, <2>1
  <2>3. x \in Nat /\ \A y \in D : y \in Nat
    OBVIOUS
  <2> QED BY <2>2, <2>3
<1> QED BY <1>4, Zenon DEF Least

LEMMA RowsOf ==
    ASSUME NEW l, NEW row
    PROVE  row \in O!Rows(l) <=>
              DOMAIN row \subseteq Catalogue[l] /\ row \in [DOMAIN row -> Levels[l]]
BY DEF O!Rows

LEMMA FiniteRows ==
    ASSUME NEW l \in O!SkillLists
    PROVE  /\ "BEGINNER" \in Levels[l] /\ Catalogue[l] \in SUBSET Nat
           /\ \A D \in SUBSET Catalogue[l] : D \in SUBSET Nat /\ IsFiniteSet(D)
<1>1. "BEGINNER" \in Levels[l] /\ Catalogue[l] \subseteq Nat /\ O!IsFiniteSet(Catalogue[l])
  BY PagesAssumption DEF O!OnboardingAssumption
<1>2. IsFiniteSet(Catalogue[l])
  BY <1>1 DEF O!IsFiniteSet, IsFiniteSet
<1> QED BY <1>1, <1>2, FS_Subset

\* The form starts from the server's rows, without repeating a skill.
LEMMA SelectedSkillsTyped ==
    ASSUME NEW l \in O!SkillLists, NEW row \in O!Rows(l)
    PROVE  O!selectedSkills(row) \in Seq(O!Picks(l)) /\ Distinct(O!selectedSkills(row))
<1> DEFINE D == DOMAIN row
           Ns == 1 .. Cardinality(D)
           made == O!selectedSkills(row)
<1>1. D \in SUBSET Nat /\ IsFiniteSet(D) /\ D \subseteq Catalogue[l] /\ row \in [D -> Levels[l]]
  BY RowsOf, FiniteRows
<1> HIDE DEF D
<1>2. /\ Cardinality(D) \in Nat
      /\ \A n \in Ns : Nth(D, n) \in D
      /\ \A m, n \in Ns : Nth(D, m) = Nth(D, n) => m = n
  BY <1>1, NthIsBijection
<1>3. made = [n \in Ns |-> [id |-> Nth(D, n), level |-> row[Nth(D, n)]]]
  BY CardinalityOfPages, ListsOfPages DEF O!selectedSkills, D
<1> HIDE DEF made
<1>4. \A n \in Ns : [id |-> Nth(D, n), level |-> row[Nth(D, n)]] \in O!Picks(l)
  BY <1>1, <1>2 DEF O!Picks
<1>5. made \in Seq(O!Picks(l)) /\ Len(made) = Cardinality(D)
  BY <1>2, <1>3, <1>4
<1>6. \A n \in Ns : made[n].id = Nth(D, n)
  BY <1>3
<1>7. Distinct(made)
  BY <1>2, <1>5, <1>6 DEF Distinct
<1> QED BY <1>5, <1>7 DEF made

LEMMA KeptIsDistinct ==
    ASSUME NEW T, NEW seq \in Seq(T), Distinct(seq), NEW U
    PROVE  Kept(seq, U) \in Seq(T) /\ Distinct(Kept(seq, U))
<1> DEFINE k == Kept(seq, U)
<1>1. k \in Seq(T)
  BY KeptIsPart
<1>2. \E from \in [1 .. Len(k) -> 1 .. Len(seq)] :
         /\ \A n \in 1 .. Len(k) : k[n] = seq[from[n]]
         /\ \A m, n \in 1 .. Len(k) : from[m] = from[n] => m = n
  BY KeptIsPart
<1> HIDE DEF k
<1>3. PICK from \in [1 .. Len(k) -> 1 .. Len(seq)] :
         /\ \A n \in 1 .. Len(k) : k[n] = seq[from[n]]
         /\ \A m, n \in 1 .. Len(k) : from[m] = from[n] => m = n
  BY <1>2
<1>4. ASSUME NEW m \in 1 .. Len(k), NEW n \in 1 .. Len(k), k[m].id = k[n].id
      PROVE  m = n
  <2>1. from[m] \in 1 .. Len(seq) /\ from[n] \in 1 .. Len(seq)
    OBVIOUS
  <2>2. seq[from[m]].id = seq[from[n]].id
    BY <1>3, <1>4
  <2>3. from[m] = from[n]
    BY <2>1, <2>2 DEF Distinct
  <2> QED BY <1>3, <2>3
<1> QED BY <1>1, <1>4 DEF Distinct, k

LEMMA AppendedIsDistinct ==
    ASSUME NEW T, NEW seq \in Seq(T), Distinct(seq), NEW p \in T, p.id \notin Ids(seq)
    PROVE  Append(seq, p) \in Seq(T) /\ Distinct(Append(seq, p))
<1> DEFINE longer == Append(seq, p)
<1>1. /\ longer \in Seq(T) /\ Len(longer) = Len(seq) + 1 /\ Len(seq) \in Nat
      /\ \A i \in 1 .. Len(seq) : longer[i] = seq[i] /\ seq[i].id # p.id
      /\ longer[Len(seq) + 1] = p
  BY AppendProperties DEF Ids
<1> HIDE DEF longer
<1>2. ASSUME NEW i \in 1 .. Len(longer), NEW j \in 1 .. Len(longer), longer[i].id = longer[j].id
      PROVE  i = j
  <2>1. /\ i \in 1 .. Len(seq) \/ i = Len(seq) + 1
        /\ j \in 1 .. Len(seq) \/ j = Len(seq) + 1
    BY <1>1
  <2> QED BY <1>1, <1>2, <2>1 DEF Distinct
<1> QED BY <1>1, <1>2 DEF Distinct, longer

LEMMA LevelledIsDistinct ==
    ASSUME NEW X, NEW V, NEW seq \in Seq([id : X, level : V]), Distinct(seq),
           NEW i \in 1 .. Len(seq), NEW v \in V
    PROVE  /\ [seq EXCEPT ![i].level = v] \in Seq([id : X, level : V])
           /\ Distinct([seq EXCEPT ![i].level = v])
<1> DEFINE p == [seq[i] EXCEPT !.level = v]
           new == [seq EXCEPT ![i] = p]
<1>1. seq[i] \in [id : X, level : V]
  BY ElementOfSeq
<1>2. p \in [id : X, level : V] /\ p.id = seq[i].id
  BY <1>1
<1> HIDE DEF p
<1>3. /\ new \in Seq([id : X, level : V]) /\ Len(new) = Len(seq)
      /\ \A j \in 1 .. Len(seq) : new[j] = IF j = i THEN p ELSE seq[j]
  BY <1>2, ExceptSeq
<1>4. Distinct(new)
  <2> HIDE DEF new
  <2>1. \A j \in 1 .. Len(new) : new[j].id = seq[j].id
    BY <1>2, <1>3
  <2> QED BY <1>3, <2>1 DEF Distinct
<1>5. [seq EXCEPT ![i].level = v] = new
  BY DEF p
<1> QED BY <1>3, <1>4, <1>5

\* A skill moved to another place is in the list once, and so are the others.
LEMMA MovedIsDistinct ==
    ASSUME NEW T, NEW seq \in Seq(T), Distinct(seq),
           NEW i \in 1 .. Len(seq), NEW j \in 1 .. Len(seq)
    PROVE  /\ O!InsertAt(O!RemoveAt(seq, i), j, seq[i]) \in Seq(T)
           /\ Distinct(O!InsertAt(O!RemoveAt(seq, i), j, seq[i]))
<1> DEFINE m == Len(seq)
           others == O!RemoveAt(seq, i)
           moved == O!InsertAt(others, j, seq[i])
<1>1. m \in Nat /\ i \in 1 .. m /\ j \in 1 .. m /\ \A n \in 1 .. m : seq[n] \in T
  BY ElementOfSeq
<1> HIDE DEF m
<1>2. /\ others \in Seq(T) /\ Len(others) = m - 1
      /\ \A n \in 1 .. m - 1 : others[n] = IF n < i THEN seq[n] ELSE seq[n + 1]
  <2> DEFINE a == SubSeq(seq, 1, i - 1)
             b == SubSeq(seq, i + 1, m)
  <2>1. /\ a \in Seq(T) /\ Len(a) = i - 1
        /\ \A n \in 1 .. i - 1 : a[n] = seq[n]
    <3>1. 1 \in Int /\ i - 1 \in Int /\ \A n \in 1 .. i - 1 : seq[n] \in T
      BY <1>1
    <3>2. /\ a \in Seq(T) /\ Len(a) = IF 1 <= i - 1 THEN i - 1 - 1 + 1 ELSE 0
          /\ \A n \in 1 .. i - 1 - 1 + 1 : a[n] = seq[1 + n - 1]
      BY <3>1, SubSeqProperties
    <3> HIDE DEF a
    <3> QED BY <1>1, <3>2
  <2>2. /\ b \in Seq(T) /\ Len(b) = m - i
        /\ \A n \in 1 .. m - i : b[n] = seq[i + n]
    <3>1. i + 1 \in Int /\ m \in Int /\ \A n \in i + 1 .. m : seq[n] \in T
      BY <1>1
    <3>2. /\ b \in Seq(T) /\ Len(b) = IF i + 1 <= m THEN m - (i + 1) + 1 ELSE 0
          /\ \A n \in 1 .. m - (i + 1) + 1 : b[n] = seq[i + 1 + n - 1]
      BY <3>1, SubSeqProperties
    <3> HIDE DEF b
    <3> QED BY <1>1, <3>2
  <2>3. others = a \o b
    BY DEF O!RemoveAt, m
  <2> HIDE DEF a, b, others
  <2>4. /\ others \in Seq(T) /\ Len(others) = Len(a) + Len(b)
        /\ \A n \in 1 .. Len(a) + Len(b) : others[n] = IF n <= Len(a) THEN a[n] ELSE b[n - Len(a)]
    BY <2>1, <2>2, <2>3, ConcatProperties
  <2>5. Len(others) = m - 1
    BY <1>1, <2>1, <2>2, <2>4
  <2>6. ASSUME NEW n \in 1 .. m - 1, n < i
        PROVE  others[n] = seq[n]
    <3>1. n \in 1 .. Len(a) + Len(b) /\ n <= Len(a) /\ n \in 1 .. i - 1
      BY <1>1, <2>1, <2>2, <2>6
    <3>2. others[n] = a[n]
      BY <2>4, <3>1
    <3> QED BY <2>1, <3>1, <3>2
  <2>7. ASSUME NEW n \in 1 .. m - 1, ~(n < i)
        PROVE  others[n] = seq[n + 1]
    <3>1. /\ n \in 1 .. Len(a) + Len(b) /\ ~(n <= Len(a))
          /\ n - Len(a) \in 1 .. m - i /\ i + (n - Len(a)) = n + 1
      BY <1>1, <2>1, <2>2, <2>7
    <3>2. others[n] = b[n - Len(a)]
      BY <2>4, <3>1
    <3>3. b[n - Len(a)] = seq[i + (n - Len(a))]
      BY <2>2, <3>1
    <3> QED BY <3>1, <3>2, <3>3
  <2> QED BY <2>4, <2>5, <2>6, <2>7
<1> HIDE DEF others
<1>3. /\ moved \in Seq(T) /\ Len(moved) = m
      /\ \A n \in 1 .. m : moved[n] = IF n < j THEN others[n]
                                      ELSE IF n = j THEN seq[i] ELSE others[n - 1]
  <2> DEFINE a == SubSeq(others, 1, j - 1)
             b == SubSeq(others, j, m - 1)
             c == <<seq[i]>>
  <2>0. \A n \in 1 .. m - 1 : others[n] \in T
    BY <1>1, <1>2
  <2>1. /\ a \in Seq(T) /\ Len(a) = j - 1
        /\ \A n \in 1 .. j - 1 : a[n] = others[n]
    <3>1. 1 \in Int /\ j - 1 \in Int /\ \A n \in 1 .. j - 1 : others[n] \in T
      BY <1>1, <2>0
    <3>2. /\ a \in Seq(T) /\ Len(a) = IF 1 <= j - 1 THEN j - 1 - 1 + 1 ELSE 0
          /\ \A n \in 1 .. j - 1 - 1 + 1 : a[n] = others[1 + n - 1]
      BY <3>1, SubSeqProperties
    <3> HIDE DEF a
    <3> QED BY <1>1, <3>2
  <2>2. /\ b \in Seq(T) /\ Len(b) = m - j
        /\ \A n \in 1 .. m - j : b[n] = others[j + n - 1]
    <3>1. j \in Int /\ m - 1 \in Int /\ \A n \in j .. m - 1 : others[n] \in T
      BY <1>1, <2>0
    <3>2. /\ b \in Seq(T) /\ Len(b) = IF j <= m - 1 THEN m - 1 - j + 1 ELSE 0
          /\ \A n \in 1 .. m - 1 - j + 1 : b[n] = others[j + n - 1]
      BY <3>1, SubSeqProperties
    <3> HIDE DEF b
    <3> QED BY <1>1, <3>2
  <2>3. c \in Seq(T) /\ Len(c) = 1 /\ c[1] = seq[i]
    BY <1>1
  <2>4. moved = (a \o c) \o b
    BY <1>2 DEF O!InsertAt
  <2> HIDE DEF a, b, c, moved
  <2> DEFINE d == a \o c
  <2>5. /\ d \in Seq(T) /\ Len(d) = Len(a) + Len(c)
        /\ \A n \in 1 .. Len(a) + Len(c) : d[n] = IF n <= Len(a) THEN a[n] ELSE c[n - Len(a)]
    BY <2>1, <2>3, ConcatProperties
  <2> HIDE DEF d
  <2>6. /\ moved \in Seq(T) /\ Len(moved) = Len(d) + Len(b)
        /\ \A n \in 1 .. Len(d) + Len(b) : moved[n] = IF n <= Len(d) THEN d[n] ELSE b[n - Len(d)]
    <3>1. moved = d \o b
      BY <2>4 DEF d
    <3>2. /\ d \o b \in Seq(T) /\ Len(d \o b) = Len(d) + Len(b)
          /\ \A n \in 1 .. Len(d) + Len(b) : (d \o b)[n] = IF n <= Len(d) THEN d[n] ELSE b[n - Len(d)]
      <4>1. d \in Seq(T) /\ b \in Seq(T)
        BY <2>2, <2>5
      <4> QED BY <4>1, ConcatProperties
    <3> QED BY <3>1, <3>2
  <2>7. Len(d) = j /\ Len(moved) = m
    BY <1>1, <2>1, <2>2, <2>3, <2>5, <2>6
  <2>8. ASSUME NEW n \in 1 .. m, n < j
        PROVE  moved[n] = others[n]
    <3>1. n \in 1 .. Len(d) + Len(b) /\ n <= Len(d) /\ n \in 1 .. Len(a) + Len(c) /\ n <= Len(a)
      BY <1>1, <2>1, <2>2, <2>3, <2>7, <2>8
    <3> QED BY <2>1, <2>5, <2>6, <2>8, <3>1
  <2>9. moved[j] = seq[i]
    <3>1. /\ j \in 1 .. Len(d) + Len(b) /\ j <= Len(d) /\ j \in 1 .. Len(a) + Len(c)
          /\ ~(j <= Len(a)) /\ j - Len(a) = 1
      BY <1>1, <2>1, <2>2, <2>3, <2>7
    <3> QED BY <2>3, <2>5, <2>6, <3>1
  <2>10. ASSUME NEW n \in 1 .. m, n > j
         PROVE  moved[n] = others[n - 1]
    <3>1. /\ n \in 1 .. Len(d) + Len(b) /\ ~(n <= Len(d))
          /\ n - Len(d) \in 1 .. m - j /\ j + (n - Len(d)) - 1 = n - 1
      BY <1>1, <2>2, <2>7, <2>10
    <3>2. moved[n] = b[n - Len(d)]
      BY <2>6, <3>1
    <3>3. b[n - Len(d)] = others[j + (n - Len(d)) - 1]
      BY <2>2, <3>1
    <3> QED BY <3>1, <3>2, <3>3
  <2>11. \A n \in 1 .. m : n < j \/ n = j \/ n > j
    BY <1>1
  <2> QED BY <1>1, <2>6, <2>7, <2>8, <2>9, <2>10, <2>11
<1> HIDE DEF moved
<1> DEFINE rest(n) == IF n < i THEN n ELSE n + 1
           from(n) == IF n < j THEN rest(n) ELSE IF n = j THEN i ELSE rest(n - 1)
<1>4. \A n \in 1 .. m : from(n) \in 1 .. m /\ moved[n] = seq[from(n)]
  <2> TAKE n \in 1 .. m
  <2>1. CASE n < j
    <3>1. n \in 1 .. m - 1 /\ moved[n] = others[n]
      BY <1>1, <1>3, <2>1
    <3> QED BY <1>1, <1>2, <2>1, <3>1
  <2>2. CASE n = j
    BY <1>1, <1>3, <2>2
  <2>3. CASE ~(n < j) /\ n # j
    <3>1. n - 1 \in 1 .. m - 1 /\ moved[n] = others[n - 1]
      BY <1>1, <1>3, <2>3
    <3>2. others[n - 1] = seq[rest(n - 1)] /\ rest(n - 1) \in 1 .. m
      BY <1>1, <1>2, <3>1
    <3> QED BY <2>3, <3>1, <3>2
  <2> QED BY <2>1, <2>2, <2>3
<1>5. \A n, k \in 1 .. m : from(n) = from(k) => n = k
  BY <1>1
<1> HIDE DEF from
<1>6. \A n, k \in 1 .. m : seq[n].id = seq[k].id => n = k
  BY DEF Distinct, m
<1>7. ASSUME NEW n \in 1 .. m, NEW k \in 1 .. m, moved[n].id = moved[k].id
      PROVE  n = k
  <2>1. from(n) \in 1 .. m /\ from(k) \in 1 .. m /\ seq[from(n)].id = seq[from(k)].id
    BY <1>4, <1>7
  <2>2. from(n) = from(k)
    BY <1>6, <2>1
  <2> QED BY <1>5, <2>2
<1>8. Distinct(moved)
  BY <1>3, <1>7 DEF Distinct
<1> QED BY <1>3, <1>8 DEF moved, others

LEMMA FieldsSet ==
    ASSUME fields \in Forms, NEW l \in O!SkillLists, NEW new \in Seq(O!Picks(l))
    PROVE  LET filled == [fields EXCEPT ![l] = new]
           IN  /\ filled \in Forms /\ filled[l] = new
               /\ filled.city = fields.city /\ filled.formats = fields.formats
               /\ \A k \in O!SkillLists : k # l => filled[k] = fields[k]
<1>1. CASE l = "teaching"
  BY <1>1 DEF Forms, O!SkillLists
<1>2. CASE l = "learning"
  BY <1>2 DEF Forms, O!SkillLists
<1> QED BY <1>1, <1>2 DEF O!SkillLists

LEMMA RowSet ==
    ASSUME onboarded \in O!StoredProfiles, NEW l \in O!SkillLists, NEW row \in O!Rows(l)
    PROVE  LET new == [onboarded EXCEPT ![l] = row]
           IN  /\ new \in O!StoredProfiles /\ new[l] = row
               /\ new.city = onboarded.city /\ new.formats = onboarded.formats
               /\ \A k \in O!SkillLists : k # l => new[k] = onboarded[k]
<1>1. CASE l = "teaching"
  BY <1>1 DEF O!StoredProfiles, O!SkillLists
<1>2. CASE l = "learning"
  BY <1>2 DEF O!StoredProfiles, O!SkillLists
<1> QED BY <1>1, <1>2 DEF O!SkillLists

LEMMA ListsTyped ==
    ASSUME OnboardingTyped, NEW l \in O!SkillLists
    PROVE  /\ fields[l] \in Seq(O!Picks(l)) /\ onboarded[l] \in O!Rows(l)
           /\ Len(fields[l]) \in Nat
BY DEF OnboardingTyped, Forms, O!StoredProfiles, O!SkillLists

LEMMA OnboardingShows ==
    ASSUME OnboardingQueried
    PROVE  O!Shows(loading) = loading.status /\ (O!Ready(loading) <=> loading.status = "ready")
BY DEF OnboardingQueried, O!Queries, O!Shows, O!Ready

\* The page loads only before its first step is edited or saved.
LEMMA LoadProfileStep ==
    ASSUME OnboardingInv, O!LoadProfile
    PROVE  OnboardingInv'
<1> USE DEF OnboardingInv
<1>1. UNCHANGED <<onboarded, step, save>>
  BY DEF O!LoadProfile
<1>2. loading.status # "ready"
  BY OnboardingShows DEF OnboardingQueried, O!LoadProfile, O!Asked, O!Arriving, O!InFlight
<1>3. step = 0 /\ save = O!Idle
  BY <1>2 DEF OnboardingQueried, SaveIsRunning, PatchIsSaved, SkillsAreSaved
<1>4. OnboardingQueried' /\ (UNCHANGED fields \/ (O!Arriving(loading) /\ ~UNCHANGED fields))
  <2>1. loading \in O!Queries({"onboarding"}, O!StoredProfiles) /\ onboarded \in O!StoredProfiles
    BY DEF OnboardingTyped, OnboardingQueried
  <2>2. CASE O!Asked(loading) /\ loading' = O!Served(loading, onboarded) /\ UNCHANGED fields
    BY <1>1, <1>3, <2>1, <2>2 DEF OnboardingQueried, O!Asked, O!Served, O!Queries
  <2>3. CASE O!Arriving(loading) /\ loading' = O!Taken(loading)
    BY <1>1, <1>3, <2>1, <2>3 DEF OnboardingQueried, O!Arriving, O!Taken, O!Queries, O!Nothing
  <2>4. CASE O!InFlight(loading) /\ loading' = O!Failed(loading) /\ UNCHANGED fields
    BY <1>1, <1>3, <2>1, <2>4 DEF OnboardingQueried, O!InFlight, O!Failed, O!Queries, O!Nothing
  <2>5. CASE O!Shows(loading) = "error" /\ loading' = O!Retry(loading) /\ UNCHANGED fields
    BY <1>1, <1>3, <2>1, <2>5 DEF OnboardingQueried, O!Retry, O!Load, O!Queries, O!Nothing
  <2> QED BY <2>2, <2>3, <2>4, <2>5 DEF O!LoadProfile
<1>5. OnboardingTyped' /\ \A l \in O!SkillLists : Distinct(fields'[l])
  <2>1. CASE UNCHANGED fields
    BY <1>1, <2>1 DEF OnboardingTyped, ListIsSaved
  <2>2. CASE ~UNCHANGED fields
    <3> DEFINE p == loading.answer
    <3>1. p \in O!StoredProfiles
      BY <1>4, <2>2 DEF OnboardingQueried, O!Arriving
    <3>2. fields' = [city |-> p.city, formats |-> p.formats,
                     teaching |-> O!selectedSkills(p.teaching),
                     learning |-> O!selectedSkills(p.learning)]
      BY <2>2 DEF O!LoadProfile
    <3> HIDE DEF p
    <3>3. /\ p.city \in BOOLEAN /\ p.formats \in SUBSET O!Formats
          /\ p.teaching \in O!Rows("teaching") /\ p.learning \in O!Rows("learning")
      BY <3>1 DEF O!StoredProfiles
    <3>4. "teaching" \in O!SkillLists /\ "learning" \in O!SkillLists
      BY DEF O!SkillLists
    <3>5. /\ O!selectedSkills(p.teaching) \in Seq(O!Picks("teaching"))
          /\ Distinct(O!selectedSkills(p.teaching))
      BY <3>3, <3>4, SelectedSkillsTyped
    <3>6. /\ O!selectedSkills(p.learning) \in Seq(O!Picks("learning"))
          /\ Distinct(O!selectedSkills(p.learning))
      BY <3>3, <3>4, SelectedSkillsTyped
    <3>7. fields' \in Forms
      BY <3>2, <3>3, <3>5, <3>6 DEF Forms
    <3>8. \A l \in O!SkillLists : Distinct(fields'[l])
      BY <3>2, <3>5, <3>6 DEF O!SkillLists
    <3> QED BY <1>1, <3>7, <3>8 DEF OnboardingTyped
  <2> QED BY <2>1, <2>2
<1>6. \A l \in O!SkillLists : ListIsSaved(l)'
  BY <1>1, <1>3, <1>5 DEF ListIsSaved, O!StepOf
<1> QED BY <1>1, <1>3, <1>4, <1>5, <1>6

\* An edit of a list in its step leaves the lists of the passed steps alone.
LEMMA ListEdited ==
    ASSUME OnboardingInv, NEW l \in O!SkillLists, O!Editing(O!StepOf(l)),
           NEW new \in Seq(O!Picks(l)), Distinct(new),
           O!Edit([fields EXCEPT ![l] = new])
    PROVE  OnboardingInv'
<1> USE DEF OnboardingInv
<1>1. /\ fields' = [fields EXCEPT ![l] = new] /\ UNCHANGED <<onboarded, loading, step, save>>
      /\ step = O!StepOf(l) /\ save = O!Idle
  BY DEF O!Edit, O!Editing
<1>2. /\ fields' \in Forms /\ fields'[l] = new
      /\ \A k \in O!SkillLists : k # l => fields'[k] = fields[k]
  <2> DEFINE filled == [fields EXCEPT ![l] = new]
  <2>1. fields \in Forms
    BY DEF OnboardingTyped
  <2>2. filled \in Forms /\ filled[l] = new /\ \A k \in O!SkillLists : k # l => filled[k] = fields[k]
    BY <2>1, FieldsSet
  <2>3. fields' = filled
    BY <1>1
  <2> HIDE DEF filled
  <2> QED BY <2>2, <2>3
<1>3. \A k \in O!SkillLists : ListIsSaved(k)'
  <2> SUFFICES ASSUME NEW k \in O!SkillLists PROVE ListIsSaved(k)'
    OBVIOUS
  <2>1. CASE k = l
    BY <1>1, <1>2, <2>1 DEF ListIsSaved, O!StepOf
  <2>2. CASE k # l
    BY <1>1, <1>2, <2>2 DEF ListIsSaved
  <2> QED BY <2>1, <2>2
<1> QED BY <1>1, <1>2, <1>3 DEF OnboardingTyped, OnboardingQueried, O!StepOf

LEMMA toggleSkillStep ==
    ASSUME OnboardingInv, NEW l \in O!SkillLists, NEW s \in Catalogue[l], O!toggleSkill(l, s)
    PROVE  OnboardingInv'
<1>1. fields[l] \in Seq(O!Picks(l)) /\ Distinct(fields[l]) /\ O!Editing(O!StepOf(l))
  BY ListsTyped DEF OnboardingInv, ListIsSaved, O!toggleSkill
<1>2. CASE s \in O!Selected(l)
  <2> DEFINE U == {p \in O!Picks(l) : p.id # s}
             new == Kept(fields[l], U)
  <2> HIDE DEF U
  <2>1. new \in Seq(O!Picks(l)) /\ Distinct(new)
    BY <1>1, KeptIsDistinct
  <2>2. O!Edit([fields EXCEPT ![l] = new])
    BY <1>2, ListsOfPages DEF O!toggleSkill, U
  <2> HIDE DEF new
  <2> QED BY <1>1, <2>1, <2>2, ListEdited
<1>3. CASE s \notin O!Selected(l)
  <2> DEFINE p == [id |-> s, level |-> "BEGINNER"]
             new == Append(fields[l], p)
  <2>1. p \in O!Picks(l) /\ p.id \notin Ids(fields[l])
    BY <1>1, <1>3, FiniteRows, SelectedIsIds DEF O!Picks
  <2> HIDE DEF p
  <2>2. new \in Seq(O!Picks(l)) /\ Distinct(new)
    BY <1>1, <2>1, AppendedIsDistinct
  <2>3. O!Edit([fields EXCEPT ![l] = new])
    BY <1>3 DEF O!toggleSkill, p
  <2> HIDE DEF new
  <2> QED BY <1>1, <2>2, <2>3, ListEdited
<1> QED BY <1>2, <1>3

LEMMA setLevelStep ==
    ASSUME OnboardingInv, NEW l \in O!SkillLists, NEW i \in DOMAIN fields[l],
           NEW level \in Levels[l], O!setLevel(l, i, level)
    PROVE  OnboardingInv'
<1>1. fields[l] \in Seq(O!Picks(l)) /\ Distinct(fields[l]) /\ O!Editing(O!StepOf(l))
  BY ListsTyped DEF OnboardingInv, ListIsSaved, O!setLevel
<1> DEFINE new == [fields[l] EXCEPT ![i].level = level]
<1>2. i \in 1 .. Len(fields[l]) /\ fields[l] \in Seq([id : Catalogue[l], level : Levels[l]])
  BY <1>1 DEF O!Picks
<1>3. /\ new \in Seq([id : Catalogue[l], level : Levels[l]]) /\ Distinct(new)
  BY <1>1, <1>2, LevelledIsDistinct
<1>4. new \in Seq(O!Picks(l))
  BY <1>3 DEF O!Picks
<1>5. O!Edit([fields EXCEPT ![l] = new])
  BY DEF O!setLevel
<1> HIDE DEF new
<1> QED BY <1>1, <1>3, <1>4, <1>5, ListEdited

LEMMA moveSkillStep ==
    ASSUME OnboardingInv, NEW i \in DOMAIN fields.learning, NEW j \in DOMAIN fields.learning,
           O!moveSkill(i, j)
    PROVE  OnboardingInv'
<1> DEFINE l == "learning"
           new == O!InsertAt(O!RemoveAt(fields[l], i), j, fields[l][i])
<1>1. l \in O!SkillLists /\ O!StepOf(l) = 2
  BY DEF O!SkillLists, O!StepOf
<1>2. fields[l] \in Seq(O!Picks(l)) /\ Distinct(fields[l]) /\ O!Editing(O!StepOf(l))
  BY <1>1, ListsTyped DEF OnboardingInv, ListIsSaved, O!moveSkill
<1>3. i \in 1 .. Len(fields[l]) /\ j \in 1 .. Len(fields[l])
  BY <1>2
<1>4. O!Edit([fields EXCEPT ![l] = new])
  BY DEF O!moveSkill
<1> HIDE DEF l
<1>5. new \in Seq(O!Picks(l)) /\ Distinct(new)
  BY <1>2, <1>3, MovedIsDistinct
<1> HIDE DEF new
<1> QED BY <1>1, <1>2, <1>4, <1>5, ListEdited

LEMMA FieldEdited ==
    ASSUME OnboardingInv,
           \/ \E city \in BOOLEAN : O!changeField(city)
           \/ \E formats \in (SUBSET O!Formats) \ {{}} : O!setFormat(formats)
    PROVE  OnboardingInv'
<1> USE DEF OnboardingInv
<1>1. /\ UNCHANGED <<onboarded, loading, step, save>> /\ save = O!Idle /\ step # 4
      /\ \/ \E city \in BOOLEAN : fields' = [fields EXCEPT !.city = city]
         \/ \E formats \in SUBSET O!Formats : fields' = [fields EXCEPT !.formats = formats]
  BY DEF O!changeField, O!setFormat, O!Edit, O!Editing
<1>2. /\ fields' \in Forms
      /\ \A l \in O!SkillLists : fields'[l] = fields[l]
  BY <1>1 DEF OnboardingTyped, Forms, O!SkillLists
<1> QED BY <1>1, <1>2 DEF OnboardingTyped, OnboardingQueried, ListIsSaved

LEMMA BackStep ==
    ASSUME OnboardingInv, O!Back
    PROVE  OnboardingInv'
<1> USE DEF OnboardingInv
<1>1. /\ UNCHANGED <<onboarded, loading, fields>> /\ step \in 1 .. 3 /\ step' = step - 1
      /\ save' = O!Idle /\ loading.status = "ready"
  BY OnboardingShows DEF O!Back, O!changeStep
<1>2. \A l \in O!SkillLists : ListIsSaved(l)'
  BY <1>1 DEF ListIsSaved, O!StepOf
<1> QED BY <1>1, <1>2 DEF OnboardingTyped, OnboardingQueried

LEMMA SavesTyped ==
    /\ \A l \in O!SkillLists : SkillSaves(l) \subseteq O!Saves
    /\ PatchSaves \subseteq O!Saves
<1>1. \A l \in O!SkillLists : SkillSaves(l) \subseteq O!Saves
  <2> SUFFICES ASSUME NEW l \in O!SkillLists, NEW s \in SkillSaves(l)
               PROVE  s \in O!Saves
    OBVIOUS
  <2> DEFINE Es == UNION {O!Rows(list_) : list_ \in O!SkillLists}
             Ds == UNION {SUBSET Catalogue[list_] : list_ \in O!SkillLists}
             Qs == UNION {Seq(O!Picks(list_)) : list_ \in O!SkillLists}
  <2>1. O!Rows(l) \subseteq Es /\ SUBSET Catalogue[l] \subseteq Ds /\ Seq(O!Picks(l)) \subseteq Qs
    OBVIOUS
  <2>2. O!Saves = [phase : {"read", "asked", "handled", "refused"}, list : O!SkillLists,
                   existing : Es, deletes : Ds, puts : Qs] \union PatchSaves
    BY DEF O!Saves, PatchSaves
  <2> HIDE DEF Es, Ds, Qs
  <2> QED BY <2>1, <2>2 DEF SkillSaves
<1> QED BY <1>1 DEF O!Saves, PatchSaves

LEMMA OnboardingIsTyped ==
    ASSUME OnboardingInv
    PROVE  O!OnboardingTypeOK
<1>1. save \in O!Saves \union {O!Idle}
  BY SavesTyped DEF OnboardingInv, SaveIsRunning, PatchIsSaved, SkillsAreSaved
<1> QED BY <1>1 DEF OnboardingInv, OnboardingTyped, OnboardingQueried, Forms, O!OnboardingTypeOK

\* The phase of a save tells a patch from the writes of a list.
LEMMA SaveKinds ==
    ASSUME OnboardingInv
    PROVE  /\ save.phase \in {"patch", "patched"} => PatchIsSaved
           /\ save.phase \in {"read", "asked", "handled"} =>
                 \E l \in O!SkillLists : save.list = l /\ SkillsAreSaved(l)
<1>1. save = O!Idle => save.phase = "idle"
  BY DEF O!Idle
<1>2. PatchIsSaved => save.phase \in {"patch", "patched", "refused"}
  BY DEF PatchIsSaved, PatchSaves
<1>3. \A l \in O!SkillLists : SkillsAreSaved(l) =>
         save.list = l /\ save.phase \in {"read", "asked", "handled", "refused"}
  BY DEF SkillsAreSaved, SkillSaves
<1> QED BY <1>1, <1>2, <1>3 DEF OnboardingInv, SaveIsRunning

LEMMA handleNextStep ==
    ASSUME OnboardingInv, O!handleNext
    PROVE  OnboardingInv'
<1> USE DEF OnboardingInv
<1>1. UNCHANGED <<onboarded, loading, step, fields>> /\ loading.status = "ready"
  BY OnboardingShows DEF O!handleNext
<1>2. CASE step = 0 /\ save' = [phase |-> "patch", body |-> "fields"]
  BY <1>1, <1>2 DEF SaveIsRunning, PatchIsSaved, PatchSaves, OnboardingTyped, OnboardingQueried,
                    ListIsSaved
<1>3. CASE step = 3 /\ fields.formats # {} /\ save' = [phase |-> "patch", body |-> "formats"]
  BY <1>1, <1>3 DEF SaveIsRunning, PatchIsSaved, PatchSaves, OnboardingTyped, OnboardingQueried,
                    ListIsSaved
<1>4. ASSUME NEW l \in O!SkillLists, step = O!StepOf(l), fields[l] # <<>>,
             save' = [phase |-> "read", list |-> l, existing |-> <<>>,
                      deletes |-> {}, puts |-> <<>>]
      PROVE  OnboardingInv'
  <2>1. <<>> \in O!Rows(l) /\ <<>> \in Seq(O!Picks(l))
    <3>1. <<>> \in Seq({}) /\ Len(<<>>) = 0 /\ <<>> \in Seq(O!Picks(l))
      BY EmptySeq
    <3>2. <<>> \in [1 .. 0 -> {}] /\ 1 .. 0 = {}
      BY <3>1, LenProperties
    <3>3. \A f \in [{} -> {}] : DOMAIN f = {} /\ f \in [{} -> Levels[l]]
      OBVIOUS
    <3> QED BY <3>1, <3>2, <3>3, RowsOf
  <2>2. save' \in SkillSaves(l) /\ save'.phase = "read"
    BY <1>4, <2>1 DEF SkillSaves
  <2>3. SkillsAreSaved(l)'
    BY <1>1, <1>4, <2>2 DEF SkillsAreSaved
  <2> QED BY <1>1, <2>3 DEF SaveIsRunning, OnboardingTyped, OnboardingQueried, ListIsSaved
<1> QED BY <1>2, <1>3, <1>4 DEF O!handleNext

LEMMA UpdateProfileStep ==
    ASSUME OnboardingInv, O!UpdateProfile
    PROVE  OnboardingInv'
<1> USE DEF OnboardingInv
<1>1. UNCHANGED <<loading, step, fields>> /\ PatchIsSaved /\ save.phase = "patch"
  BY SaveKinds DEF O!UpdateProfile
<1>2. step # 4 /\ save.body \in {"fields", "formats"}
  BY <1>1 DEF PatchIsSaved, PatchSaves
<1>3. CASE O!Valid(O!Patched(onboarded))
  <2>1. onboarded' = O!Patched(onboarded) /\ save' = [save EXCEPT !.phase = "patched"]
    BY <1>3 DEF O!UpdateProfile
  <2>2. /\ onboarded' \in O!StoredProfiles
        /\ \A l \in O!SkillLists : onboarded'[l] = onboarded[l]
        /\ save.body = "formats" => onboarded'.formats = fields.formats
    BY <2>1 DEF OnboardingTyped, Forms, O!StoredProfiles, O!Patched, O!SkillLists
  <2>3. save' \in PatchSaves /\ save'.body = save.body /\ save'.phase = "patched"
    BY <1>1, <2>1 DEF PatchIsSaved, PatchSaves
  <2>4. PatchIsSaved'
    <3>1. O!Valid(onboarded')
      BY <1>3, <2>1
    <3>2. O!Valid(onboarded)'
      BY <3>1 DEF O!Valid
    <3> QED BY <1>1, <2>2, <2>3, <3>2 DEF PatchIsSaved
  <2> QED BY <1>1, <1>2, <2>2, <2>4 DEF SaveIsRunning, OnboardingTyped, OnboardingQueried, ListIsSaved
<1>4. CASE ~O!Valid(O!Patched(onboarded))
  <2>1. UNCHANGED onboarded /\ save' = [save EXCEPT !.phase = "refused"]
    BY <1>4 DEF O!UpdateProfile
  <2>2. save' \in PatchSaves /\ save'.body = save.body /\ save'.phase = "refused"
    BY <1>1, <2>1 DEF PatchIsSaved, PatchSaves
  <2>3. PatchIsSaved'
    BY <1>1, <2>1, <2>2 DEF PatchIsSaved
  <2> QED BY <1>1, <1>2, <2>1, <2>3 DEF SaveIsRunning, OnboardingTyped, OnboardingQueried, ListIsSaved
<1> QED BY <1>3, <1>4

LEMMA ReadProfileStep ==
    ASSUME OnboardingInv, O!ReadProfile
    PROVE  OnboardingInv'
<1> USE DEF OnboardingInv
<1>1. UNCHANGED <<onboarded, loading, step, fields>> /\ save.phase = "read"
  BY DEF O!ReadProfile
<1>2. PICK l \in O!SkillLists : save.list = l /\ SkillsAreSaved(l)
  BY <1>1, SaveKinds
<1> DEFINE row == onboarded[l]
           deletes == DOMAIN row \ Ids(fields[l])
           puts == Kept(fields[l], O!Missing(l, row))
<1>3. fields[l] \in Seq(O!Picks(l)) /\ row \in O!Rows(l)
  BY ListsTyped
<1>4. save' = [phase |-> "asked", list |-> l, existing |-> row, deletes |-> deletes, puts |-> puts]
  BY <1>2, <1>3, SelectedIsIds, ListsOfPages DEF O!ReadProfile, O!saveSkills
<1>5. puts \in Seq(O!Picks(l))
  BY <1>3, KeptIsPart
<1>6. deletes \in SUBSET Catalogue[l]
  BY <1>3, RowsOf
<1>7. Pending(row, fields[l], deletes, puts)
  <2>1. fields[l] \in Seq([id : Catalogue[l], level : Levels[l]])
    BY <1>3 DEF O!Picks
  <2>2. \A p \in [id : Catalogue[l], level : Levels[l]] :
           p \in O!Missing(l, row) \/ (p.id \in DOMAIN row /\ row[p.id] = p.level)
    BY DEF O!Missing, O!Picks
  <2> HIDE DEF row
  <2> QED BY <2>1, <2>2, SaveIsPending
<1>8. save' \in SkillSaves(l) /\ save'.phase = "asked" /\ save'.deletes = deletes /\ save'.puts = puts
  <2> HIDE DEF deletes, puts, row
  <2> QED BY <1>3, <1>4, <1>5, <1>6 DEF SkillSaves
<1>9. SkillsAreSaved(l)'
  <2> HIDE DEF deletes, puts
  <2> QED BY <1>1, <1>2, <1>7, <1>8 DEF SkillsAreSaved
<1> QED BY <1>1, <1>9 DEF SaveIsRunning, OnboardingTyped, OnboardingQueried, ListIsSaved

LEMMA NextWriteStep ==
    ASSUME OnboardingInv, O!NextWrite
    PROVE  OnboardingInv'
<1> USE DEF OnboardingInv
<1>1. UNCHANGED <<onboarded, loading, step, fields>> /\ save.phase = "handled"
  BY DEF O!NextWrite
<1>2. PICK l \in O!SkillLists : save.list = l /\ SkillsAreSaved(l)
  BY <1>1, SaveKinds
<1> DEFINE deletes == IF save.deletes = {} THEN {} ELSE save.deletes \ {Least(save.deletes)}
           puts == IF save.deletes # {} THEN save.puts ELSE Tail(save.puts)
<1>3. save \in SkillSaves(l) /\ (save.deletes # {} \/ save.puts # <<>>)
  BY <1>1, <1>2 DEF SkillsAreSaved
<1>4. save' = [save EXCEPT !.phase = "asked", !.deletes = deletes, !.puts = puts]
  BY <1>3 DEF O!NextWrite, SkillSaves, Least
<1>5. puts \in Seq(O!Picks(l)) /\ deletes \in SUBSET Catalogue[l]
  <2>1. save.puts \in Seq(O!Picks(l)) /\ save.deletes \in SUBSET Catalogue[l]
    BY <1>3 DEF SkillSaves
  <2>2. save.puts # <<>> => Tail(save.puts) \in Seq(O!Picks(l))
    BY <2>1, HeadTailProperties
  <2> QED BY <1>3, <2>1, <2>2
<1>6. Pending(onboarded[l], fields[l], deletes, puts)
  BY <1>1, <1>2 DEF SkillsAreSaved
<1> HIDE DEF deletes, puts
<1>7. save' \in SkillSaves(l) /\ save'.phase = "asked" /\ save'.deletes = deletes /\ save'.puts = puts
  BY <1>3, <1>4, <1>5 DEF SkillSaves
<1>8. SkillsAreSaved(l)'
  BY <1>1, <1>2, <1>6, <1>7 DEF SkillsAreSaved
<1> QED BY <1>1, <1>8 DEF SaveIsRunning, OnboardingTyped, OnboardingQueried, ListIsSaved

\* A write the server handled leaves the rest of the loops pending.
LEMMA WriteHandled ==
    ASSUME OnboardingInv, NEW l \in O!SkillLists, SkillsAreSaved(l), save.phase = "asked",
           NEW row \in O!Rows(l), onboarded' = [onboarded EXCEPT ![l] = row],
           save' = [save EXCEPT !.phase = "handled"], UNCHANGED <<loading, step, fields>>,
           save.deletes # {} \/ save.puts # <<>>,
           Pending(row, fields[l],
                   IF save.deletes = {} THEN {} ELSE save.deletes \ {Least(save.deletes)},
                   IF save.deletes # {} THEN save.puts ELSE Tail(save.puts))
    PROVE  OnboardingInv'
<1> USE DEF OnboardingInv
<1>1. /\ onboarded' \in O!StoredProfiles /\ onboarded'[l] = row
      /\ \A k \in O!SkillLists : k # l => onboarded'[k] = onboarded[k]
  <2> DEFINE new == [onboarded EXCEPT ![l] = row]
  <2>1. onboarded \in O!StoredProfiles
    BY DEF OnboardingTyped
  <2>2. /\ new \in O!StoredProfiles /\ new[l] = row
        /\ \A k \in O!SkillLists : k # l => new[k] = onboarded[k]
    BY <2>1, RowSet
  <2>3. onboarded' = new
    OBVIOUS
  <2> HIDE DEF new
  <2> QED BY <2>2, <2>3
<1>2. step = O!StepOf(l) /\ step # 4 /\ save \in SkillSaves(l)
  BY DEF SkillsAreSaved, O!StepOf
<1>3. /\ save' \in SkillSaves(l) /\ save'.phase = "handled"
      /\ save'.deletes = save.deletes /\ save'.puts = save.puts
  BY <1>2 DEF SkillSaves
<1>4. \A k \in O!SkillLists : ListIsSaved(k)'
  <2> SUFFICES ASSUME NEW k \in O!SkillLists PROVE ListIsSaved(k)'
    OBVIOUS
  <2>1. CASE k = l
    BY <1>2, <2>1 DEF ListIsSaved, O!StepOf
  <2>2. CASE k # l
    BY <1>1, <2>2 DEF ListIsSaved
  <2> QED BY <2>1, <2>2
<1>5. SkillsAreSaved(l)'
  BY <1>1, <1>2, <1>3 DEF SkillsAreSaved
<1> QED BY <1>1, <1>2, <1>4, <1>5 DEF SaveIsRunning, OnboardingTyped, OnboardingQueried

LEMMA WriteRefused ==
    ASSUME OnboardingInv, NEW l \in O!SkillLists, SkillsAreSaved(l),
           save' = [save EXCEPT !.phase = "refused"],
           UNCHANGED <<onboarded, loading, step, fields>>
    PROVE  OnboardingInv'
<1> USE DEF OnboardingInv
<1>1. save' \in SkillSaves(l) /\ save'.phase = "refused"
  BY DEF SkillsAreSaved, SkillSaves
<1>2. SkillsAreSaved(l)'
  BY <1>1 DEF SkillsAreSaved
<1> QED BY <1>2 DEF SaveIsRunning, OnboardingTyped, OnboardingQueried, ListIsSaved

LEMMA WriteSkillStep ==
    ASSUME OnboardingInv, O!WriteSkill
    PROVE  OnboardingInv'
<1>1. UNCHANGED <<loading, step, fields>> /\ save.phase = "asked"
  BY DEF O!WriteSkill
<1>2. PICK l \in O!SkillLists : save.list = l /\ SkillsAreSaved(l)
  BY <1>1, SaveKinds
<1> DEFINE row == onboarded[l]
           drop == Least(save.deletes)
           put == Head(save.puts)
           without == [s \in DOMAIN row \ {drop} |-> row[s]]
           with == [s \in DOMAIN row \union {put.id} |-> IF s = put.id THEN put.level ELSE row[s]]
<1>3. /\ fields[l] \in Seq(O!Picks(l)) /\ Distinct(fields[l])
      /\ DOMAIN row \subseteq Catalogue[l] /\ row \in [DOMAIN row -> Levels[l]]
  <2>1. fields[l] \in Seq(O!Picks(l)) /\ row \in O!Rows(l) /\ Distinct(fields[l])
    BY ListsTyped DEF OnboardingInv, ListIsSaved
  <2> HIDE DEF row
  <2> QED BY <2>1, RowsOf
<1>4. /\ save.puts \in Seq(O!Picks(l)) /\ save.deletes \in SUBSET Catalogue[l]
      /\ Pending(row, fields[l], save.deletes, save.puts)
  BY <1>1, <1>2 DEF SkillsAreSaved, SkillSaves
<1>5. CASE save.deletes # {}
  <2>1. drop \in save.deletes
    BY <1>4, <1>5, FiniteRows, LeastIsIn
  <2>2. CASE drop \in DOMAIN row
    <3>1. onboarded' = [onboarded EXCEPT ![l] = without] /\ save' = [save EXCEPT !.phase = "handled"]
      BY <1>2, <1>5, <2>2 DEF O!WriteSkill, Least
    <3>2. DOMAIN without \subseteq Catalogue[l] /\ without \in [DOMAIN without -> Levels[l]]
      BY <1>3
    <3>3. Pending(without, fields[l], save.deletes \ {drop}, save.puts)
      <4> HIDE DEF row, drop
      <4> QED BY <1>4, <2>1, DropIsPending
    <3> HIDE DEF without, drop
    <3>4. without \in O!Rows(l)
      BY <3>2, RowsOf
    <3> USE DEF drop
    <3> QED BY <1>1, <1>2, <1>5, <3>1, <3>3, <3>4, WriteHandled
  <2>3. CASE drop \notin DOMAIN row
    <3>1. UNCHANGED onboarded /\ save' = [save EXCEPT !.phase = "refused"]
      BY <1>2, <1>5, <2>3 DEF O!WriteSkill, Least
    <3> QED BY <1>1, <1>2, <3>1, WriteRefused
  <2> QED BY <2>2, <2>3
<1>6. CASE save.deletes = {}
  <2>1. save.puts # <<>>
    BY <1>6 DEF O!WriteSkill
  <2>2. CASE put.id \in DOMAIN row <=> put.id \in DOMAIN save.existing
    <3>1. onboarded' = [onboarded EXCEPT ![l] = with] /\ save' = [save EXCEPT !.phase = "handled"]
      BY <1>2, <1>6, <2>2 DEF O!WriteSkill
    <3>2. DOMAIN with \subseteq Catalogue[l] /\ with \in [DOMAIN with -> Levels[l]]
      <4>1. put \in [id : Catalogue[l], level : Levels[l]]
        BY <1>4, <2>1, HeadTailProperties DEF O!Picks
      <4> HIDE DEF put
      <4> QED BY <1>3, <4>1
    <3>3. Pending(with, fields[l], {}, Tail(save.puts))
      <4>1. fields[l] \in Seq(O!Picks(l)) /\ save.puts \in Seq(O!Picks(l))
        BY <1>3, <1>4
      <4>2. Pending(row, fields[l], {}, save.puts) /\ Distinct(fields[l])
        BY <1>3, <1>4, <1>6
      <4> HIDE DEF row
      <4> QED BY <2>1, <4>1, <4>2, PutIsPending
    <3> HIDE DEF with
    <3>4. with \in O!Rows(l)
      BY <3>2, RowsOf
    <3> QED BY <1>1, <1>2, <1>6, <2>1, <3>1, <3>3, <3>4, WriteHandled
  <2>3. CASE ~(put.id \in DOMAIN row <=> put.id \in DOMAIN save.existing)
    <3>1. UNCHANGED onboarded /\ save' = [save EXCEPT !.phase = "refused"]
      BY <1>2, <1>6, <2>3 DEF O!WriteSkill
    <3> QED BY <1>1, <1>2, <3>1, WriteRefused
  <2> QED BY <2>2, <2>3
<1> QED BY <1>5, <1>6

LEMMA AdvanceStep ==
    ASSUME OnboardingInv, O!Advance
    PROVE  OnboardingInv'
<1> USE DEF OnboardingInv
<1>1. UNCHANGED <<onboarded, loading, fields>> /\ step' = step + 1 /\ save' = O!Idle
  BY DEF O!Advance, O!changeStep
<1>2. CASE save.phase = "patched"
  <2>1. PatchIsSaved
    BY <1>2, SaveKinds
  <2>2. \/ step = 0
        \/ step = 3 /\ onboarded.formats # {} /\ O!Valid(onboarded)
    BY <1>2, <2>1 DEF PatchIsSaved, PatchSaves
  <2>3. loading.status = "ready" /\ step' \in 0 .. 4
    BY <1>1, <2>1, <2>2 DEF PatchIsSaved
  <2>4. \A l \in O!SkillLists : ListIsSaved(l)'
    BY <1>1, <2>2 DEF ListIsSaved, O!StepOf
  <2>5. step' = 4 => (onboarded.formats # {} /\ O!Valid(onboarded))'
    BY <1>1, <2>2 DEF O!Valid
  <2> QED BY <1>1, <2>3, <2>4, <2>5 DEF OnboardingTyped, OnboardingQueried
<1>3. CASE save.phase = "asked" /\ save.deletes = {} /\ save.puts = <<>>
  <2>1. PICK l \in O!SkillLists : save.list = l /\ SkillsAreSaved(l)
    BY <1>3, SaveKinds
  <2>2. step = O!StepOf(l) /\ loading.status = "ready" /\ fields[l] # <<>>
    BY <2>1 DEF SkillsAreSaved
  <2>3. Agrees(onboarded[l], fields[l])
    BY <1>3, <2>1, NothingPending DEF SkillsAreSaved
  <2>4. step' \in 2 .. 3
    BY <1>1, <2>2 DEF O!StepOf
  <2>5. \A k \in O!SkillLists : ListIsSaved(k)'
    <3> SUFFICES ASSUME NEW k \in O!SkillLists PROVE ListIsSaved(k)'
      OBVIOUS
    <3>1. CASE k = l
      BY <1>1, <2>2, <2>3, <3>1 DEF ListIsSaved
    <3>2. CASE k # l
      <4>1. step' > O!StepOf(k) => step > O!StepOf(k)
        BY <1>1, <2>2, <3>2 DEF O!StepOf, O!SkillLists
      <4> QED BY <1>1, <4>1 DEF ListIsSaved
    <3> QED BY <3>1, <3>2
  <2> QED BY <1>1, <2>2, <2>4, <2>5 DEF OnboardingTyped, OnboardingQueried
<1> QED BY <1>2, <1>3 DEF O!Advance

LEMMA SaveFailsStep ==
    ASSUME OnboardingInv, O!SaveFails
    PROVE  OnboardingInv'
BY DEF OnboardingInv, OnboardingTyped, OnboardingQueried, ListIsSaved, O!SaveFails

LEMMA OnboardingStep ==
    ASSUME OnboardingInv, O!OnboardingNext
    PROVE  OnboardingInv'
BY LoadProfileStep, BackStep, handleNextStep, UpdateProfileStep, ReadProfileStep, WriteSkillStep,
   NextWriteStep, AdvanceStep, SaveFailsStep, FieldEdited, moveSkillStep, toggleSkillStep,
   setLevelStep
   DEF O!OnboardingNext

LEMMA OnboardingInitHolds ==
    ASSUME O!OnboardingInit
    PROVE  OnboardingInv
<1>1. onboarded \in O!StoredProfiles
  BY PagesAssumption DEF O!OnboardingInit, O!OnboardingAssumption
<1>2. /\ fields = [city |-> FALSE, formats |-> {}, teaching |-> <<>>, learning |-> <<>>]
      /\ step = 0 /\ save = O!Idle
  BY DEF O!OnboardingInit, O!Blank
<1>3. OnboardingTyped /\ \A l \in O!SkillLists : fields[l] = <<>>
  BY <1>1, <1>2 DEF OnboardingTyped, Forms, O!SkillLists
<1>4. \A l \in O!SkillLists : ListIsSaved(l)
  BY <1>2, <1>3 DEF ListIsSaved, Distinct, O!StepOf
<1>5. OnboardingQueried
  BY <1>2 DEF O!OnboardingInit, OnboardingQueried, O!Load, O!Queries, O!Nothing
<1> QED BY <1>2, <1>3, <1>4, <1>5 DEF OnboardingInv

LEMMA OnboardingSafe ==
    ASSUME OnboardingInv
    PROVE  O!PassedIsSaved /\ O!FinishedIsEligible
<1> USE DEF OnboardingInv
<1>1. ASSUME NEW l \in O!SkillLists, step > O!StepOf(l)
      PROVE  onboarded[l] = O!AsRow(fields[l])
  <2>1. Agrees(onboarded[l], fields[l]) /\ Distinct(fields[l])
    BY <1>1 DEF ListIsSaved
  <2>2. /\ fields[l] \in Seq([id : Catalogue[l], level : Levels[l]])
        /\ onboarded[l] \in [DOMAIN onboarded[l] -> Levels[l]]
    BY ListsTyped, RowsOf DEF O!Picks
  <2> QED BY <2>1, <2>2, AgreesAsRow
<1>2. ASSUME step = 4 PROVE O!EligibleForMatching(onboarded)
  <2>1. ASSUME NEW l \in O!SkillLists PROVE DOMAIN onboarded[l] # {}
    <3>1. Agrees(onboarded[l], fields[l]) /\ fields[l] # <<>> /\ fields[l] \in Seq(O!Picks(l))
      BY <1>2, ListsTyped DEF ListIsSaved, O!StepOf
    <3>2. 1 \in 1 .. Len(fields[l])
      BY <3>1, EmptySeq
    <3> QED BY <3>1, <3>2 DEF Agrees, Ids
  <2>2. DOMAIN onboarded.teaching # {} /\ DOMAIN onboarded.learning # {}
    BY <2>1 DEF O!SkillLists
  <2> QED BY <1>2, <2>2 DEF O!EligibleForMatching, O!Valid
<1> QED BY <1>1, <1>2 DEF O!PassedIsSaved, O!FinishedIsEligible

LEMMA OnboardingInvHolds == Spec => [](screen = "onboarding" => OnboardingInv)
<1> DEFINE Inv == screen = "onboarding" => OnboardingInv
<1>1. Init => Inv
  BY OnboardingInitHolds DEF Init
<1>2. Inv /\ [Next]_vars => Inv'
  <2> SUFFICES ASSUME Inv, [Next]_vars, screen' = "onboarding" PROVE OnboardingInv'
    OBVIOUS
  <2>1. CASE Next
    BY <2>1, StepOfPage, OnboardingStep
  <2>2. CASE UNCHANGED vars
    <3>1. UNCHANGED onboardingVars /\ OnboardingInv
      BY <2>2 DEF vars
    <3> QED BY <3>1
    DEF onboardingVars, OnboardingInv, OnboardingTyped, OnboardingQueried, ListIsSaved,
        SaveIsRunning, PatchIsSaved, SkillsAreSaved, O!Valid
  <2> QED BY <2>1, <2>2
<1> QED BY <1>1, <1>2, PTL DEF Spec

\* However many writes of a step failed, were lost after the server handled
\* them or were sent again, a list that was passed is on the server as it was
\* selected, and whoever comes to the end can be matched.
THEOREM OnboardingIsKeptHolds == Spec => []OnboardingIsKept
<1>1. (screen = "onboarding" => OnboardingInv) => OnboardingIsKept
  BY OnboardingSafe DEF OnboardingIsKept
<1> QED BY <1>1, OnboardingInvHolds, PTL

-----------------------------------------------------------------------------
(***************************************************************************)
(* The list of conversations.                                              *)
(***************************************************************************)
Listed(l) == l \in Seq(C!Conversations) /\ \A i, j \in 1 .. Len(l) : l[i] = l[j] => i = j

Listing == [items : Seq(C!Conversations), total : 0 .. MaxConversations]
Answers == {C!Unanswered} \union {a \in Listing : Listed(a.items)}

\* No list and no answer repeats a conversation; a list that was never ready
\* has none, and asks for no next page.
ConversationsInv ==
    /\ Listed(order)
    /\ conversations \in [status : {"loading", "error", "ready"}, items : Seq(C!Conversations),
                          total : 0 .. MaxConversations, pages : Nat]
    /\ Listed(conversations.items)
    /\ conversations.status # "ready" => conversations.items = <<>>
    /\ polls \in Seq(Answers) /\ Len(polls) <= MaxPolls
    /\ more \in [phase : {"idle", "loading", "error"}, page : Nat, answer : Answers]
    /\ more.phase = "loading" => more.page > 0 /\ conversations.status = "ready"

LEMMA ListedIsList ==
    ASSUME NEW l
    PROVE  Listed(l) <=> C!IsList(l)
<1>1. l \in Seq(C!Conversations) => DOMAIN l = 1 .. Len(l)
  OBVIOUS
<1> QED BY <1>1 DEF Listed, C!IsList, C!IsInjective

LEMMA ElementsOf ==
    ASSUME NEW T, NEW l \in Seq(T)
    PROVE  C!ToSet(l) = {l[i] : i \in 1 .. Len(l)} /\ C!ToSet(l) \subseteq T
<1>1. DOMAIN l = 1 .. Len(l) /\ \A i \in 1 .. Len(l) : l[i] \in T
  OBVIOUS
<1> QED BY <1>1 DEF C!ToSet

LEMMA ListedIsShort ==
    ASSUME NEW l, Listed(l)
    PROVE  Len(l) \in 0 .. MaxConversations
<1>1. MaxConversations \in Nat /\ Len(l) \in Nat
  BY PagesAssumption DEF C!ConversationsAssumption, Listed
<1>2. l \in Injection(1 .. Len(l), 1 .. MaxConversations)
  <2>1. l \in Seq(1 .. MaxConversations)
    BY DEF Listed, C!Conversations
  <2>2. l \in [1 .. Len(l) -> 1 .. MaxConversations]
    BY <2>1, LenProperties
  <2> QED BY <2>2 DEF Listed, Injection, IsInjective
<1>3. /\ IsFiniteSet(1 .. MaxConversations) /\ Cardinality(1 .. MaxConversations) = MaxConversations
      /\ Cardinality(1 .. Len(l)) = Len(l)
  <2>1. \A n \in Nat : IsFiniteSet(1 .. n) /\ Cardinality(1 .. n) = n
    <3> TAKE n \in Nat
    <3>1. 1 \in Int /\ n \in Int
      OBVIOUS
    <3>2. IsFiniteSet(1 .. n) /\ Cardinality(1 .. n) = IF 1 > n THEN 0 ELSE n - 1 + 1
      BY <3>1, FS_Interval
    <3> QED BY <3>2
  <2> QED BY <1>1, <2>1
<1>4. Cardinality(1 .. Len(l)) <= Cardinality(1 .. MaxConversations)
  BY <1>2, <1>3, FS_Injection
<1> QED BY <1>1, <1>3, <1>4

LEMMA KeptIsListed ==
    ASSUME NEW l, Listed(l), NEW U
    PROVE  /\ Listed(C!Kept(l, U))
           /\ C!ToSet(C!Kept(l, U)) = C!ToSet(l) \intersect U
<1> DEFINE k == Kept(l, U)
<1>1. /\ k \in Seq(C!Conversations) /\ Len(k) \in Nat
      /\ \A n \in 1 .. Len(k) : k[n] \in U
      /\ \A i \in 1 .. Len(l) : l[i] \in U => \E n \in 1 .. Len(k) : k[n] = l[i]
  BY KeptIsPart DEF Listed
<1>2. \E from \in [1 .. Len(k) -> 1 .. Len(l)] :
         /\ \A n \in 1 .. Len(k) : k[n] = l[from[n]]
         /\ \A m, n \in 1 .. Len(k) : from[m] = from[n] => m = n
  <2>1. l \in Seq(C!Conversations)
    BY DEF Listed
  <2> QED BY <2>1, KeptIsPart
<1> HIDE DEF k
<1>3. PICK from \in [1 .. Len(k) -> 1 .. Len(l)] :
         /\ \A n \in 1 .. Len(k) : k[n] = l[from[n]]
         /\ \A m, n \in 1 .. Len(k) : from[m] = from[n] => m = n
  BY <1>2
<1>4. \A n \in 1 .. Len(k) : from[n] \in 1 .. Len(l)
  OBVIOUS
<1>5. ASSUME NEW m \in 1 .. Len(k), NEW n \in 1 .. Len(k), k[m] = k[n]
      PROVE  m = n
  <2>1. l[from[m]] = l[from[n]]
    BY <1>3, <1>5
  <2>2. from[m] = from[n]
    BY <1>4, <2>1 DEF Listed
  <2> QED BY <1>3, <2>2
<1>6. Listed(k)
  BY <1>1, <1>5 DEF Listed
<1>7. C!ToSet(k) = {k[n] : n \in 1 .. Len(k)}
  BY <1>1, ElementsOf
<1>8. C!ToSet(l) = {l[n] : n \in 1 .. Len(l)}
  BY ElementsOf DEF Listed
<1>9. C!ToSet(k) = C!ToSet(l) \intersect U
  <2>1. \A n \in 1 .. Len(k) : k[n] \in {l[i] : i \in 1 .. Len(l)} /\ k[n] \in U
    BY <1>1, <1>3, <1>4
  <2> QED BY <1>1, <1>7, <1>8, <2>1
<1> QED BY <1>6, <1>9, ListsOfPages DEF k

LEMMA JoinedIsListed ==
    ASSUME NEW s, NEW t, Listed(s), Listed(t), C!ToSet(s) \intersect C!ToSet(t) = {}
    PROVE  /\ Listed(s \o t)
           /\ C!ToSet(s) \union C!ToSet(t) \subseteq C!ToSet(s \o t)
<1> DEFINE st == s \o t
<1>1. /\ st \in Seq(C!Conversations) /\ Len(st) = Len(s) + Len(t)
      /\ \A i \in 1 .. Len(s) + Len(t) : st[i] = IF i <= Len(s) THEN s[i] ELSE t[i - Len(s)]
  BY ConcatProperties DEF Listed
<1>2. Len(s) \in Nat /\ Len(t) \in Nat
  BY DEF Listed
<1> HIDE DEF st
<1>3. /\ C!ToSet(s) = {s[i] : i \in 1 .. Len(s)} /\ C!ToSet(t) = {t[i] : i \in 1 .. Len(t)}
      /\ C!ToSet(st) = {st[i] : i \in 1 .. Len(st)}
  <2>1. C!ToSet(s) = {s[i] : i \in 1 .. Len(s)}
    BY ElementsOf DEF Listed
  <2>2. C!ToSet(t) = {t[i] : i \in 1 .. Len(t)}
    BY ElementsOf DEF Listed
  <2>3. C!ToSet(st) = {st[i] : i \in 1 .. Len(st)}
    BY <1>1, ElementsOf
  <2> QED BY <2>1, <2>2, <2>3
<1>4. /\ \A i \in 1 .. Len(s) : i \in 1 .. Len(st) /\ st[i] = s[i]
      /\ \A i \in 1 .. Len(t) : i + Len(s) \in 1 .. Len(st) /\ st[i + Len(s)] = t[i]
  BY <1>1, <1>2
<1>5. \A i \in 1 .. Len(s), j \in 1 .. Len(t) : s[i] # t[j]
  BY <1>3
<1>6. ASSUME NEW i \in 1 .. Len(st), NEW j \in 1 .. Len(st), st[i] = st[j]
      PROVE  i = j
  <2>1. CASE i <= Len(s) /\ j <= Len(s)
    BY <1>1, <1>2, <1>6, <2>1 DEF Listed
  <2>2. CASE ~(i <= Len(s)) /\ ~(j <= Len(s))
    <3>1. i - Len(s) \in 1 .. Len(t) /\ j - Len(s) \in 1 .. Len(t)
      BY <1>1, <1>2, <2>2
    <3>2. i - Len(s) = j - Len(s)
      BY <1>1, <1>6, <2>2, <3>1 DEF Listed
    <3> QED BY <1>2, <3>2
  <2>3. CASE i <= Len(s) /\ ~(j <= Len(s))
    BY <1>1, <1>2, <1>5, <1>6, <2>3
  <2>4. CASE ~(i <= Len(s)) /\ j <= Len(s)
    BY <1>1, <1>2, <1>5, <1>6, <2>4
  <2> QED BY <2>1, <2>2, <2>3, <2>4
<1>7. Listed(st)
  BY <1>1, <1>6 DEF Listed
<1>8. C!ToSet(s) \union C!ToSet(t) \subseteq C!ToSet(st)
  BY <1>3, <1>4
<1> QED BY <1>7, <1>8 DEF st

\* Neither a first page nor a next one repeats or drops what was listed.
LEMMA PagesMerge ==
    ASSUME NEW l, NEW p, Listed(l), Listed(p)
    PROVE  /\ Listed(C!withFirstPage(l, p)) /\ C!ToSet(l) \subseteq C!ToSet(C!withFirstPage(l, p))
           /\ Listed(C!withNextPage(l, p)) /\ C!ToSet(l) \subseteq C!ToSet(C!withNextPage(l, p))
<1>1. C!ToSet(l) \subseteq C!Conversations /\ C!ToSet(p) \subseteq C!Conversations
  BY ElementsOf DEF Listed
<1>2. /\ Listed(C!withFirstPage(l, p)) /\ C!ToSet(l) \subseteq C!ToSet(C!withFirstPage(l, p))
  <2> DEFINE k == C!Kept(l, C!Conversations \ C!ToSet(p))
  <2>1. Listed(k) /\ C!ToSet(k) = C!ToSet(l) \ C!ToSet(p)
    BY <1>1, KeptIsListed
  <2> HIDE DEF k
  <2>2. Listed(p \o k) /\ C!ToSet(p) \union C!ToSet(k) \subseteq C!ToSet(p \o k)
    BY <2>1, JoinedIsListed
  <2> QED BY <2>1, <2>2 DEF k, C!withFirstPage
<1>3. /\ Listed(C!withNextPage(l, p)) /\ C!ToSet(l) \subseteq C!ToSet(C!withNextPage(l, p))
  <2> DEFINE k == C!Kept(p, C!Conversations \ C!ToSet(l))
  <2>1. Listed(k) /\ C!ToSet(k) = C!ToSet(p) \ C!ToSet(l)
    BY <1>1, KeptIsListed
  <2> HIDE DEF k
  <2>2. Listed(l \o k) /\ C!ToSet(l) \union C!ToSet(k) \subseteq C!ToSet(l \o k)
    BY <2>1, JoinedIsListed
  <2> QED BY <2>1, <2>2 DEF k, C!withNextPage
<1> QED BY <1>2, <1>3

LEMMA ServedPage ==
    ASSUME Listed(order), NEW p \in Nat \ {0}
    PROVE  /\ C!listConversations(p) \in Listing /\ Listed(C!listConversations(p).items)
           /\ C!listConversations(p) \in Answers
<1> DEFINE lo == (p - 1) * PageSize
           hi == p * PageSize
           end == IF hi < Len(order) THEN hi ELSE Len(order)
           items == SubSeq(order, lo + 1, end)
<1>1. PageSize \in Nat /\ Len(order) \in Nat /\ \A i \in 1 .. Len(order) : order[i] \in C!Conversations
  BY PagesAssumption DEF C!ConversationsAssumption, Listed
<1>2. p - 1 \in Nat /\ lo \in Nat /\ hi \in Nat
  BY <1>1
<1> HIDE DEF lo, hi
<1>3. end \in Nat /\ end <= Len(order) /\ \A i \in lo + 1 .. end : order[i] \in C!Conversations
  BY <1>1, <1>2
<1> HIDE DEF end
<1>4. /\ items \in Seq(C!Conversations)
      /\ Len(items) = IF lo + 1 <= end THEN end - (lo + 1) + 1 ELSE 0
      /\ \A i \in 1 .. end - (lo + 1) + 1 : items[i] = order[lo + 1 + i - 1]
  <2>1. lo + 1 \in Int /\ end \in Int
    BY <1>2, <1>3
  <2> QED BY <1>3, <2>1, SubSeqProperties
<1> HIDE DEF items
<1>5. \A i \in 1 .. Len(items) : items[i] = order[lo + i] /\ lo + i \in 1 .. Len(order)
  BY <1>1, <1>2, <1>3, <1>4
<1>6. Listed(items)
  <2> SUFFICES ASSUME NEW i \in 1 .. Len(items), NEW j \in 1 .. Len(items), items[i] = items[j]
               PROVE  i = j
    BY <1>4 DEF Listed
  <2>1. lo + i = lo + j
    BY <1>5 DEF Listed
  <2> QED BY <1>2, <2>1
<1>7. Len(order) \in 0 .. MaxConversations
  BY ListedIsShort
<1>8. C!listConversations(p) = [items |-> items, total |-> Len(order)]
  BY DEF C!listConversations, items, lo, hi, end
<1> QED BY <1>4, <1>6, <1>7, <1>8 DEF Listing, Answers

\* A poll that ended leaves the others as they were.
LEMMA PollsLeft ==
    ASSUME NEW T, NEW l \in Seq(T), NEW i \in DOMAIN l
    PROVE  C!RemoveAt(l, i) \in Seq(T) /\ Len(C!RemoveAt(l, i)) <= Len(l)
<1> DEFINE before == SubSeq(l, 1, i - 1)
           after == SubSeq(l, i + 1, Len(l))
<1>1. DOMAIN l = 1 .. Len(l) /\ Len(l) \in Nat /\ \A j \in 1 .. Len(l) : l[j] \in T
  OBVIOUS
<1>2. before \in Seq(T) /\ Len(before) = i - 1
  <2>1. 1 \in Int /\ i - 1 \in Int /\ \A j \in 1 .. i - 1 : l[j] \in T
    BY <1>1
  <2>2. before \in Seq(T) /\ Len(before) = IF 1 <= i - 1 THEN i - 1 - 1 + 1 ELSE 0
    BY <2>1, SubSeqProperties
  <2> QED BY <1>1, <2>2
<1>3. after \in Seq(T) /\ Len(after) = Len(l) - i
  <2>1. i + 1 \in Int /\ Len(l) \in Int /\ \A j \in i + 1 .. Len(l) : l[j] \in T
    BY <1>1
  <2>2. after \in Seq(T) /\ Len(after) = IF i + 1 <= Len(l) THEN Len(l) - (i + 1) + 1 ELSE 0
    BY <2>1, SubSeqProperties
  <2> QED BY <1>1, <2>2
<1> HIDE DEF before, after
<1>4. before \o after \in Seq(T) /\ Len(before \o after) = Len(before) + Len(after)
  BY <1>2, <1>3, ConcatProperties
<1> QED BY <1>1, <1>2, <1>3, <1>4 DEF C!RemoveAt, before, after

LEMMA ConversationsInitHolds ==
    ASSUME C!ConversationsInit
    PROVE  ConversationsInv
<1>1. Listed(order)
  <2>1. PICK n \in 0 .. MaxConversations : order \in [1 .. n -> C!Conversations]
    BY DEF C!ConversationsInit, C!BoundedSeq, C!SeqOf
  <2>2. order \in Seq(C!Conversations) /\ DOMAIN order = 1 .. Len(order)
    BY <2>1, PagesAssumption DEF C!ConversationsAssumption
  <2>3. C!IsInjective(order)
    BY DEF C!ConversationsInit
  <2> QED BY <2>2, <2>3 DEF Listed, C!IsInjective
<1>2. Listed(<<>>) /\ <<>> \in Seq(C!Conversations)
  BY DEF Listed
<1>3. 0 \in 0 .. MaxConversations /\ 1 <= MaxPolls
  BY PagesAssumption DEF C!ConversationsAssumption
<1>4. <<C!Unanswered>> \in Seq(Answers) /\ Len(<<C!Unanswered>>) = 1
  BY DEF Answers
<1>5. C!Unanswered \in Answers
  BY DEF Answers
<1> QED BY <1>1, <1>2, <1>3, <1>4, <1>5 DEF C!ConversationsInit, ConversationsInv, C!loading, C!Idle

LEMMA ConversationsTyped ==
    ASSUME ConversationsInv
    PROVE  C!ConversationsTypeOK
<1>1. C!IsList(order) /\ C!IsList(conversations.items)
  BY ListedIsList DEF ConversationsInv
<1>2. \A a \in Answers : C!IsAnswer(a)
  <2>1. MaxConversations \in Nat
    BY PagesAssumption DEF C!ConversationsAssumption
  <2> SUFFICES ASSUME NEW a \in Listing, Listed(a.items) PROVE C!IsAnswer(a)
    BY DEF Answers, C!IsAnswer
  <2>2. C!IsList(a.items) /\ a.total <= MaxConversations
    BY <2>1, ListedIsList DEF Listing
  <2> QED BY <2>2 DEF C!IsAnswer
<1>3. \A i \in DOMAIN polls : polls[i] \in Answers
  BY DEF ConversationsInv
<1> QED BY <1>1, <1>2, <1>3 DEF ConversationsInv, C!ConversationsTypeOK

\* A step of the server or of a request leaves the list as it is.
LEMMA ListUnchanged ==
    ASSUME ConversationsInv, UNCHANGED conversations
    PROVE  C!KeepsList /\ Listed(conversations'.items)
BY ListedIsList DEF ConversationsInv, C!KeepsList, C!IsList

LEMMA ActivityStep ==
    ASSUME ConversationsInv, NEW c \in C!Conversations, C!Activity(c)
    PROVE  ConversationsInv' /\ C!KeepsList
<1> DEFINE k == C!Kept(order, C!Conversations \ {c})
<1>1. Listed(k) /\ C!ToSet(k) = C!ToSet(order) \intersect (C!Conversations \ {c})
  BY KeptIsListed DEF ConversationsInv
<1>2. Listed(<<c>>) /\ <<c>> \in Seq(C!Conversations) /\ Len(<<c>>) = 1
  BY DEF Listed
<1>3. C!ToSet(<<c>>) = {c}
  BY <1>2 DEF C!ToSet
<1> HIDE DEF k
<1>4. Listed(<<c>> \o k)
  BY <1>1, <1>2, <1>3, JoinedIsListed
<1>5. Listed(order')
  BY <1>4 DEF C!Activity, k
<1> QED BY <1>5, ListUnchanged DEF C!Activity, ConversationsInv

LEMMA PollStep ==
    ASSUME ConversationsInv, C!Poll \/ C!VersionChanged
    PROVE  ConversationsInv' /\ C!KeepsList
<1>1. MaxPolls \in Nat \ {0} /\ 0 \in 0 .. MaxConversations
  BY PagesAssumption DEF C!ConversationsAssumption
<1>2. C!Unanswered \in Answers
  BY DEF Answers
<1>3. CASE C!Poll
  <2>1. polls' \in Seq(Answers) /\ Len(polls') = Len(polls) + 1 /\ Len(polls) \in Nat
    BY <1>2, <1>3 DEF C!Poll, ConversationsInv
  <2> QED BY <1>1, <1>3, <2>1, ListUnchanged DEF C!Poll, ConversationsInv
<1>4. CASE C!VersionChanged
  <2>1. polls' \in Seq(Answers) /\ Len(polls') = 1
    BY <1>2, <1>4 DEF C!VersionChanged
  <2>2. Listed(<<>>) /\ <<>> \in Seq(C!Conversations) /\ C!loading.items = <<>>
    BY DEF Listed, C!loading
  <2>3. CASE UNCHANGED conversations
    BY <1>1, <1>4, <2>1, <2>3, ListUnchanged DEF C!VersionChanged, ConversationsInv
  <2>4. CASE conversations.status = "error" /\ conversations' = C!loading
    <3>1. C!KeepsList
      BY <2>2, <2>4, ListedIsList DEF ConversationsInv, C!KeepsList, C!IsList
    <3> QED BY <1>1, <1>4, <2>1, <2>2, <2>4, <3>1 DEF C!VersionChanged, ConversationsInv, C!loading
  <2> QED BY <1>4, <2>3, <2>4 DEF C!VersionChanged
<1> QED BY <1>3, <1>4

LEMMA ServePollStep ==
    ASSUME ConversationsInv, NEW i \in DOMAIN polls, C!ServePoll(i)
    PROVE  ConversationsInv' /\ C!KeepsList
<1>1. C!listConversations(1) \in Answers
  BY ServedPage DEF ConversationsInv
<1>2. polls' \in Seq(Answers) /\ Len(polls') = Len(polls)
  <2>1. polls \in Seq(Answers) /\ i \in 1 .. Len(polls)
    BY DEF ConversationsInv
  <2> QED BY <1>1, <2>1, ExceptSeq DEF C!ServePoll
<1> QED BY <1>2, ListUnchanged DEF C!ServePoll, ConversationsInv

LEMMA PollEndsStep ==
    ASSUME ConversationsInv, NEW i \in DOMAIN polls, C!PollEnds(i)
    PROVE  ConversationsInv' /\ C!KeepsList
<1>1. polls' \in Seq(Answers) /\ Len(polls') <= MaxPolls
  <2>1. polls \in Seq(Answers) /\ Len(polls) <= MaxPolls /\ Len(polls) \in Nat /\ MaxPolls \in Nat
    BY PagesAssumption DEF ConversationsInv, C!ConversationsAssumption
  <2>2. polls' = C!RemoveAt(polls, i)
    BY DEF C!PollEnds
  <2>3. polls' \in Seq(Answers) /\ Len(polls') <= Len(polls)
    BY <2>1, <2>2, PollsLeft
  <2> QED BY <2>1, <2>3
<1>2. polls[i] \in Answers
  BY DEF ConversationsInv
<1>3. UNCHANGED <<order, more>>
  BY DEF C!PollEnds
<1>4. CASE /\ polls[i] # C!Unanswered
           /\ conversations' = IF conversations.status = "ready"
                THEN [conversations EXCEPT !.items = C!withFirstPage(@, polls[i].items),
                                           !.total = polls[i].total]
                ELSE [status |-> "ready", items |-> polls[i].items,
                      total |-> polls[i].total, pages |-> 1]
  <2> DEFINE p == polls[i]
  <2>1. p \in Listing /\ Listed(p.items)
    BY <1>2, <1>4 DEF Answers
  <2> HIDE DEF p
  <2>2. CASE conversations.status = "ready"
    <3> DEFINE merged == C!withFirstPage(conversations.items, p.items)
    <3>1. Listed(merged) /\ C!ToSet(conversations.items) \subseteq C!ToSet(merged)
      BY <2>1, PagesMerge DEF ConversationsInv
    <3> HIDE DEF merged
    <3>2. conversations' = [conversations EXCEPT !.items = merged, !.total = p.total]
      BY <1>4, <2>2 DEF p, merged
    <3>3. merged \in Seq(C!Conversations) /\ p.total \in 0 .. MaxConversations
      BY <2>1, <3>1 DEF Listed, Listing
    <3>4. /\ conversations'.items = merged /\ conversations'.status = "ready"
          /\ conversations' \in [status : {"loading", "error", "ready"}, items : Seq(C!Conversations),
                                 total : 0 .. MaxConversations, pages : Nat]
      BY <2>2, <3>2, <3>3 DEF ConversationsInv
    <3>5. C!KeepsList
      BY <3>1, <3>4, ListedIsList DEF C!KeepsList, C!IsList
    <3> QED BY <1>1, <1>3, <3>1, <3>4, <3>5 DEF ConversationsInv
  <2>3. CASE conversations.status # "ready"
    <3>1. conversations' = [status |-> "ready", items |-> p.items, total |-> p.total, pages |-> 1]
      BY <1>4, <2>3 DEF p
    <3>2. p.items \in Seq(C!Conversations) /\ p.total \in 0 .. MaxConversations
      BY <2>1 DEF Listing
    <3>3. C!ToSet(conversations.items) = {}
      BY <2>3 DEF ConversationsInv, C!ToSet
    <3>4. C!KeepsList
      BY <2>1, <3>1, <3>3, ListedIsList DEF C!KeepsList, C!IsList
    <3> QED BY <1>1, <1>3, <2>1, <3>1, <3>2, <3>4 DEF ConversationsInv
  <2> QED BY <2>2, <2>3
<1>5. CASE UNCHANGED conversations
  BY <1>1, <1>3, <1>5, ListUnchanged DEF ConversationsInv
<1>6. CASE /\ conversations.status # "ready"
           /\ conversations' = [C!loading EXCEPT !.status = "error"]
  <2>1. conversations' = [status |-> "error", items |-> <<>>, total |-> 0, pages |-> 0]
    BY <1>6 DEF C!loading
  <2>2. Listed(<<>>) /\ 0 \in 0 .. MaxConversations
    BY PagesAssumption DEF Listed, C!ConversationsAssumption
  <2>3. C!KeepsList
    <3>1. conversations.items = <<>> /\ conversations'.items = <<>>
      BY <1>6, <2>1 DEF ConversationsInv
    <3>2. C!IsInjective(<<>>)
      BY <2>2, ListedIsList DEF C!IsList
    <3>3. C!ToSet(conversations.items) \subseteq C!ToSet(conversations'.items)
      BY <3>1
    <3>4. C!IsInjective(conversations'.items)
      BY <3>1, <3>2
    <3> QED BY <3>3, <3>4 DEF C!KeepsList
  <2>4. more.phase # "loading"
    BY <1>6 DEF ConversationsInv
  <2>5. <<>> \in Seq(C!Conversations)
    OBVIOUS
  <2>6. /\ conversations' \in [status : {"loading", "error", "ready"}, items : Seq(C!Conversations),
                               total : 0 .. MaxConversations, pages : Nat]
        /\ conversations'.status = "error" /\ conversations'.items = <<>>
    BY <2>1, <2>2, <2>5
  <2> QED BY <1>1, <1>3, <2>2, <2>3, <2>4, <2>6 DEF ConversationsInv
<1> QED BY <1>4, <1>5, <1>6 DEF C!PollEnds

LEMMA MoreStep ==
    ASSUME ConversationsInv, C!loadMore \/ C!ServeMore \/ C!MoreArrives \/ C!MoreFails
    PROVE  ConversationsInv' /\ C!KeepsList
<1>1. C!Unanswered \in Answers
  BY DEF Answers
<1>2. CASE C!loadMore
  <2>1. conversations.pages \in Nat
    BY DEF ConversationsInv
  <2> QED BY <1>1, <1>2, <2>1, ListUnchanged DEF C!loadMore, ConversationsInv
<1>3. CASE C!ServeMore
  <2>1. C!listConversations(more.page) \in Answers
    BY <1>3, ServedPage DEF ConversationsInv, C!ServeMore
  <2> QED BY <1>3, <2>1, ListUnchanged DEF C!ServeMore, ConversationsInv
<1>4. CASE C!MoreFails
  BY <1>1, <1>4, ListUnchanged DEF C!MoreFails, C!Idle, ConversationsInv
<1>5. CASE C!MoreArrives
  <2> DEFINE p == more.answer
             merged == C!withNextPage(conversations.items, p.items)
  <2>1. p \in Listing /\ Listed(p.items)
    BY <1>5 DEF C!MoreArrives, ConversationsInv, Answers
  <2>2. Listed(merged) /\ C!ToSet(conversations.items) \subseteq C!ToSet(merged)
    <3> HIDE DEF p
    <3> QED BY <2>1, PagesMerge DEF ConversationsInv
  <2>3. p.total \in 0 .. MaxConversations
    BY <2>1 DEF Listing
  <2>4. /\ conversations' = [conversations EXCEPT !.items = merged, !.total = p.total, !.pages = @ + 1]
        /\ more' = C!Idle /\ UNCHANGED <<order, polls>> /\ conversations.status = "ready"
    BY <1>5 DEF C!MoreArrives, ConversationsInv
  <2> HIDE DEF p, merged
  <2>5. merged \in Seq(C!Conversations)
    BY <2>2 DEF Listed
  <2>6. /\ conversations'.items = merged /\ conversations'.status = "ready"
        /\ conversations' \in [status : {"loading", "error", "ready"}, items : Seq(C!Conversations),
                               total : 0 .. MaxConversations, pages : Nat]
    <3>1. /\ conversations \in [status : {"loading", "error", "ready"}, items : Seq(C!Conversations),
                                total : 0 .. MaxConversations, pages : Nat]
          /\ conversations.pages + 1 \in Nat
      BY DEF ConversationsInv
    <3> QED BY <2>3, <2>4, <2>5, <3>1
  <2>7. C!KeepsList
    BY <2>2, <2>6, ListedIsList DEF C!KeepsList, C!IsList
  <2> QED BY <1>1, <2>2, <2>4, <2>6, <2>7 DEF ConversationsInv, C!Idle
<1> QED BY <1>2, <1>3, <1>4, <1>5

LEMMA ConversationsStep ==
    ASSUME ConversationsInv, C!ConversationsNext
    PROVE  ConversationsInv' /\ C!KeepsList
BY ActivityStep, PollStep, ServePollStep, PollEndsStep, MoreStep DEF C!ConversationsNext

LEMMA ConversationsRest ==
    ASSUME ConversationsInv, UNCHANGED conversationVars
    PROVE  ConversationsInv' /\ C!KeepsList
BY ListUnchanged DEF conversationVars, ConversationsInv

LEMMA ConversationsInvHolds == Spec => [](screen = "conversations" => ConversationsInv)
<1> DEFINE Inv == screen = "conversations" => ConversationsInv
<1>1. Init => Inv
  BY ConversationsInitHolds DEF Init
<1>2. Inv /\ [Next]_vars => Inv'
  <2> SUFFICES ASSUME Inv, [Next]_vars, screen' = "conversations" PROVE ConversationsInv'
    OBVIOUS
  <2>1. CASE Next
    BY <2>1, StepOfPage, ConversationsStep
  <2>2. CASE UNCHANGED vars
    BY <2>2, ConversationsRest DEF vars
  <2> QED BY <2>1, <2>2
<1> QED BY <1>1, <1>2, PTL DEF Spec

\* Whichever order polls, later pages and failures come in while messages
\* reorder the conversations on the server, no step of the list drops a chat
\* that was listed or lists one twice.
THEOREM ListIsKeptHolds == Spec => ListIsKept
<1> DEFINE Inv == screen = "conversations" => ConversationsInv
           Keeps == screen = "conversations" => C!KeepsList
<1>1. Inv /\ [Next]_vars => [Keeps]_vars
  <2> SUFFICES ASSUME Inv, Next, screen = "conversations" PROVE C!KeepsList
    OBVIOUS
  <2>1. screen' = "conversations"
    <3>1. \A s : Only(s) => screen' = screen
      BY OnlyOnScreen
    <3> QED BY <3>1 DEF Next
  <2> QED BY <2>1, StepOfPage, ConversationsStep
<1>2. ListIsKept <=> [][Keeps]_vars
  BY DEF ListIsKept
<1> HIDE DEF Inv, Keeps
<1>3. Spec => []Inv
  BY ConversationsInvHolds DEF Inv
<1> QED BY <1>1, <1>2, <1>3, PTL DEF Spec

-----------------------------------------------------------------------------
(***************************************************************************)
(* The types of the pages.                                                 *)
(***************************************************************************)
\* The header has no more polls in flight than the bound allows.
LEMMA CounterPollsStep ==
    ASSUME NotificationsInv, Len(counters.polls) <= MaxPolls, N!NotificationsNext
    PROVE  Len(counters'.polls) <= MaxPolls
<1>1. /\ counters \in [shown : 0 .. MaxNotes, polls : Seq(Counted)] /\ Len(counters.polls) \in Nat
      /\ MaxPolls \in Nat \ {0}
  BY PagesAssumption DEF NotificationsInv, NotificationsTyped, C!ConversationsAssumption
<1>2. CASE UNCHANGED counters
  BY <1>2
<1>3. CASE counters'.polls = <<N!Nothing>>
  BY <1>1, <1>3
<1>4. CASE N!Poll
  <2>1. N!Nothing \in Counted /\ counters'.polls = Append(counters.polls, N!Nothing)
    BY <1>1, <1>4 DEF Counted, N!Poll
  <2>2. Len(counters'.polls) = Len(counters.polls) + 1
    BY <1>1, <2>1
  <2> QED BY <1>1, <1>4, <2>2 DEF N!Poll
<1>5. CASE N!ServePoll
  <2>1. PICK i \in DOMAIN counters.polls :
           counters' = [counters EXCEPT !.polls[i] = <<N!Cardinality(N!unreadNotifications)>>]
    BY <1>5 DEF N!ServePoll
  <2> DEFINE c == <<N!Cardinality(N!unreadNotifications)>>
             old == counters.polls
  <2>2. counters'.polls = [old EXCEPT ![i] = c]
    BY <1>1, <2>1
  <2> HIDE DEF c
  <2>3. old \in Seq(Counted \union {c}) /\ i \in 1 .. Len(old)
    BY <1>1
  <2> HIDE DEF old
  <2>4. Len([old EXCEPT ![i] = c]) = Len(old)
    BY <2>3, ExceptSeq
  <2> QED BY <2>2, <2>4 DEF old
<1>6. CASE N!PollEnds
  <2>1. PICK i \in DOMAIN counters.polls :
           \/ counters' = [shown |-> counters.polls[i][1], polls |-> N!RemoveAt(counters.polls, i)]
           \/ counters' = [counters EXCEPT !.polls = N!RemoveAt(counters.polls, i)]
    BY <1>6 DEF N!PollEnds
  <2>2. counters'.polls = N!RemoveAt(counters.polls, i)
    BY <1>1, <2>1
  <2>3. N!RemoveAt(counters.polls, i) = C!RemoveAt(counters.polls, i)
    BY DEF N!RemoveAt, C!RemoveAt
  <2>4. Len(C!RemoveAt(counters.polls, i)) \in Nat /\ Len(C!RemoveAt(counters.polls, i)) <= Len(counters.polls)
    BY <1>1, PollsLeft
  <2> QED BY <1>1, <2>2, <2>3, <2>4
<1>7. \/ UNCHANGED counters
      \/ counters'.polls = <<N!Nothing>>
      \/ N!Poll \/ N!ServePoll \/ N!PollEnds
  <2>1. CASE N!Visit \/ N!OpenEnds \/ \E answered \in BOOLEAN : N!ActEnds(answered)
    <3>1. \/ counters' = [shown |-> 0, polls |-> <<N!Nothing>>]
          \/ counters' = [counters EXCEPT !.polls = <<N!Nothing>>]
      BY <2>1 DEF N!Visit, N!OpenEnds, N!ActEnds, N!onChanged
    <3> QED BY <1>1, <3>1
  <2>2. CASE N!Arrives \/ N!ReadElsewhere \/ N!ServeAct \/ N!ListAnswers \/ N!ToggleBell
             \/ N!markAll \/ (\E key \in N!FeedKeys : N!ShowFilter(key))
             \/ (\E n \in N!Notes : N!markRead(n) \/ N!open(n))
    BY <2>2 DEF N!Arrives, N!ReadElsewhere, N!ServeAct, N!ListAnswers, N!ToggleBell, N!markAll,
                N!ShowFilter, N!markRead, N!open, N!run
  <2> QED BY <2>1, <2>2 DEF N!NotificationsNext
<1> QED BY <1>2, <1>3, <1>4, <1>5, <1>6, <1>7

LEMMA CounterInvHolds ==
    Spec => [](screen = "notifications" => Len(counters.polls) <= MaxPolls)
<1> DEFINE Inv == screen = "notifications" => NotificationsInv
           Bounded == screen = "notifications" => Len(counters.polls) <= MaxPolls
<1>1. Init => Bounded
  <2> SUFFICES ASSUME N!NotificationsInit PROVE Len(counters.polls) <= MaxPolls
    BY DEF Init
  <2>1. counters.polls = <<N!Nothing>> /\ Len(<<N!Nothing>>) = 1
    BY DEF N!NotificationsInit
  <2> QED BY <2>1, PagesAssumption DEF C!ConversationsAssumption
<1>2. Inv /\ Bounded /\ [Next]_vars => Bounded'
  <2> SUFFICES ASSUME Inv, Bounded, [Next]_vars, screen' = "notifications"
               PROVE  Len(counters'.polls) <= MaxPolls
    OBVIOUS
  <2>1. CASE Next
    BY <2>1, StepOfPage, CounterPollsStep
  <2>2. CASE UNCHANGED vars
    BY <2>2 DEF vars, notificationVars
  <2> QED BY <2>1, <2>2
<1>3. Spec => []Inv
  BY NotificationsInvHolds
<1> HIDE DEF Inv, Bounded
<1>4. Spec => []Bounded
  BY <1>1, <1>2, <1>3, PTL DEF Spec
<1> QED BY <1>4 DEF Bounded

LEMMA NotificationsTypes ==
    ASSUME NotificationsInv, Len(counters.polls) <= MaxPolls
    PROVE  N!NotificationsTypeOK
<1>1. NotificationsTyped
  BY DEF NotificationsInv
<1>2. counters.polls \in N!BoundedSeq(Counted, MaxPolls)
  <2> DEFINE l == counters.polls
  <2>1. l \in Seq(Counted) /\ MaxPolls \in Nat
    BY <1>1, PagesAssumption DEF NotificationsTyped, C!ConversationsAssumption
  <2> HIDE DEF l
  <2>2. Len(l) \in Nat /\ l \in [1 .. Len(l) -> Counted]
    BY <2>1, LenProperties
  <2>3. Len(l) <= MaxPolls
    BY DEF l
  <2>4. Len(l) \in 0 .. MaxPolls
    BY <2>1, <2>2, <2>3
  <2>5. l \in N!BoundedSeq(Counted, MaxPolls)
    BY <2>2, <2>4 DEF N!BoundedSeq, N!SeqOf
  <2> QED BY <2>5 DEF l
<1>3. counters \in [shown : 0 .. MaxNotes, polls : N!BoundedSeq({N!Nothing} \union N!BellKeys, MaxPolls)]
  BY <1>1, <1>2 DEF NotificationsTyped, Counted
<1> QED BY <1>1, <1>3
   DEF NotificationsTyped, ListTyped, FeedQueries, BellQueries, ListData, N!NotificationsTypeOK

LEMMA RequestsTypes ==
    ASSUME RequestsInv PROVE R!RequestsTypeOK
BY DEF RequestsInv, RequestsTyped

LEMMA ProposalTypes ==
    ASSUME ProposalInv PROVE P!ProposalTypeOK
BY DEF ProposalInv, ProposalQueried, DialogIsOver, ProposalPosts, P!ProposalTypeOK

LEMMA LessonTypes ==
    ASSUME LessonInv PROVE L!LessonTypeOK
BY DEF LessonInv, LessonTyped

LEMMA ExchangeTypes ==
    ASSUME ExchangeInv PROVE E!ExchangeTypeOK
BY DEF ExchangeInv, ExchangeTyped

LEMMA ProfileTypes ==
    ASSUME ProfileInv PROVE F!ProfileTypeOK
BY DEF ProfileInv, ProfileTyped, F!ProfileTypeOK

LEMMA SafetyTypes ==
    ASSUME SafetyInv PROVE S!SafetyTypeOK
BY DEF SafetyInv, SafetyTyped

LEMMA ReportTypes ==
    ASSUME ReportInv PROVE A!ReportTypeOK
BY DEF ReportInv, ReportTyped, ReportQueried, ReportKinds, A!Queries, A!ReportTypeOK

LEMMA ScreenHolds == Spec => [](screen \in Screens)
<1> DEFINE Inv == screen \in Screens
<1>1. Init => Inv
  BY DEF Init
<1>2. Inv /\ [Next]_vars => Inv'
  <2>1. \A s : Only(s) => screen' = screen
    BY OnlyOnScreen
  <2> QED BY <2>1 DEF Next, vars
<1> QED BY <1>1, <1>2, PTL DEF Spec

\* Every page keeps its part of the server, its queries, its forms and its
\* writes of their types, with any number of requests in any order.
THEOREM TypeOKHolds == Spec => []TypeOK
<1>1. /\ screen \in Screens
      /\ screen = "requests" => RequestsInv
      /\ screen = "proposal" => ProposalInv
      /\ screen = "lesson" => LessonInv
      /\ screen = "exchange" => ExchangeInv
      /\ screen = "onboarding" => OnboardingInv
      /\ screen = "profile" => ProfileInv
      /\ screen = "notifications" => NotificationsInv
      /\ screen = "notifications" => Len(counters.polls) <= MaxPolls
      /\ screen = "conversations" => ConversationsInv
      /\ screen = "safety" => SafetyInv
      /\ screen = "report" => ReportInv
      => TypeOK
  BY RequestsTypes, ProposalTypes, LessonTypes, ExchangeTypes, OnboardingIsTyped, ProfileTypes,
     NotificationsTypes, ConversationsTyped, SafetyTypes, ReportTypes
     DEF TypeOK
<1> QED
  BY <1>1, ScreenHolds, RequestsInvHolds, ProposalInvHolds, LessonInvHolds, ExchangeInvHolds,
     OnboardingInvHolds, ProfileInvHolds, NotificationsInvHolds, CounterInvHolds,
     ConversationsInvHolds, SafetyInvHolds, ReportInvHolds, PTL
=============================================================================
