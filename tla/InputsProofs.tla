---------------------------- MODULE InputsProofs -----------------------------
(***************************************************************************)
(* What holds of every spread, however wide, and every width of a binding  *)
(* shadow: the cut goes through the widest band.  And of every text: what   *)
(* is kept of it, how lines are joined, what becomes a note.  A loop over   *)
(* a sequence is a recursive function; an invariant of the loop is one of   *)
(* the set of the steps after which it holds (EachInTurn, LoopExists).      *)
(***************************************************************************)
EXTENDS Inputs, NumberLemmas, SequenceTheorems

Strips == Seq(Nat \X Nat)

(* The blank columns of a band. *)
On(b) == {i \in 0..(Len(b) - 1) : b[i + 1]}

LEMMA OnNat == ASSUME NEW b \in Seq(BOOLEAN) PROVE On(b) \in SUBSET Nat
  BY DEF On

(* One more column, one more run, by what each does to the list.            *)
LEMMA WithColumnIs ==
  ASSUME NEW runs \in Strips, NEW i \in Nat, NEW isBlank \in BOOLEAN
  PROVE  /\ WithColumn(runs, i, isBlank) \in Strips
         /\ ~isBlank => WithColumn(runs, i, isBlank) = runs
         /\ isBlank /\ runs # <<>> /\ runs[Len(runs)][2] = i =>
              /\ Len(WithColumn(runs, i, isBlank)) = Len(runs)
              /\ \A k \in 1..(Len(runs) - 1) : WithColumn(runs, i, isBlank)[k] = runs[k]
              /\ WithColumn(runs, i, isBlank)[Len(runs)][1] = runs[Len(runs)][1]
              /\ WithColumn(runs, i, isBlank)[Len(runs)][2] = i + 1
         /\ isBlank /\ (runs = <<>> \/ runs[Len(runs)][2] # i) =>
              /\ Len(WithColumn(runs, i, isBlank)) = Len(runs) + 1
              /\ \A k \in 1..Len(runs) : WithColumn(runs, i, isBlank)[k] = runs[k]
              /\ WithColumn(runs, i, isBlank)[Len(runs) + 1][1] = i
              /\ WithColumn(runs, i, isBlank)[Len(runs) + 1][2] = i + 1
<1> USE DEF Strips
<1>1. CASE ~isBlank
  BY <1>1 DEF WithColumn
<1>2. CASE isBlank /\ runs # <<>> /\ runs[Len(runs)][2] = i
  <2>1. Len(runs) \in 1..Len(runs) /\ runs[Len(runs)] \in Nat \X Nat
    BY <1>2, EmptySeq
  <2> DEFINE last == <<runs[Len(runs)][1], i + 1>>
  <2>2. last \in Nat \X Nat /\ last[1] = runs[Len(runs)][1] /\ last[2] = i + 1
    BY <2>1
  <2>3. WithColumn(runs, i, isBlank) = [runs EXCEPT ![Len(runs)] = last]
    BY <1>2 DEF WithColumn, Last
  <2> HIDE DEF last
  <2>4. /\ [runs EXCEPT ![Len(runs)] = last] \in Strips
        /\ Len([runs EXCEPT ![Len(runs)] = last]) = Len(runs)
        /\ \A k \in 1..Len(runs) : [runs EXCEPT ![Len(runs)] = last][k] =
             IF k = Len(runs) THEN last ELSE runs[k]
    BY <2>1, <2>2, ExceptSeq
  <2>5. \A k \in 1..(Len(runs) - 1) : k \in 1..Len(runs) /\ k # Len(runs)
    BY <2>1
  <2>6. /\ \A k \in 1..(Len(runs) - 1) : WithColumn(runs, i, isBlank)[k] = runs[k]
        /\ WithColumn(runs, i, isBlank)[Len(runs)] = last
    BY <2>1, <2>3, <2>4, <2>5
  <2> QED BY <1>2, <2>2, <2>3, <2>4, <2>6
<1>3. CASE isBlank /\ (runs = <<>> \/ runs[Len(runs)][2] # i)
  <2>1. WithColumn(runs, i, isBlank) = Append(runs, <<i, i + 1>>)
    BY <1>3 DEF WithColumn, Last
  <2> DEFINE new == <<i, i + 1>>
  <2>2. new \in Nat \X Nat /\ new[1] = i /\ new[2] = i + 1
    OBVIOUS
  <2> HIDE DEF new
  <2>3. /\ Append(runs, new) \in Strips /\ Len(Append(runs, new)) = Len(runs) + 1
        /\ \A k \in 1..Len(runs) : Append(runs, new)[k] = runs[k]
        /\ Append(runs, new)[Len(runs) + 1] = new
    BY <2>2, AppendProperties
  <2>4. WithColumn(runs, i, isBlank) = Append(runs, new)
    BY <2>1 DEF new
  <2> QED BY <1>3, <2>2, <2>3, <2>4
<1> QED BY <1>1, <1>2, <1>3

(* The loop over the columns, as the values its list goes through.          *)
LEMMA RunsLoop ==
  ASSUME NEW b \in Seq(BOOLEAN)
  PROVE  \E f \in [0..Len(b) -> Strips] :
           /\ f[0] = <<>>
           /\ \A n \in 1..Len(b) : f[n] = WithColumn(f[n - 1], n - 1, b[n])
           /\ BlankRuns(b) = f[Len(b)]
<1> DEFINE N == Len(b)
           step == [x \in (1..N) \X Strips |-> WithColumn(x[2], x[1] - 1, b[x[1]])]
           Loop(f) == f = [n \in 0..N |-> IF n = 0 THEN <<>>
                                          ELSE WithColumn(f[n - 1], n - 1, b[n])]
<1>1. N \in Nat /\ <<>> \in Strips
  BY EmptySeq, LenProperties DEF Strips
<1>0. \A n \in 1..N : b[n] \in BOOLEAN /\ n - 1 \in Nat
  BY ElementOfSeq
<1> HIDE DEF N
<1>2. step \in [(1..N) \X Strips -> Strips]
  <2>1. ASSUME NEW n \in 1..N, NEW runs \in Strips
        PROVE  WithColumn(runs, n - 1, b[n]) \in Strips
    BY <1>0, WithColumnIs
  <2> QED BY <2>1
<1>3. PICK g \in [0..N -> Strips] :
        g[0] = <<>> /\ \A n \in 1..N : g[n] = step[<<n, g[n - 1]>>]
  <2> DEFINE none == <<>>
  <2>1. none \in Strips
    BY <1>1
  <2> HIDE DEF step, none
  <2>2. Loops(Strips, none, N, step) # {}
    BY <1>1, <1>2, <2>1, LoopExists
  <2> QED BY <2>2 DEF none, Loops
<1>4. Loop(g)
  <2>1. ASSUME NEW n \in 1..N PROVE g[n] = WithColumn(g[n - 1], n - 1, b[n])
    <3>1. n - 1 \in 0..N /\ g[n - 1] \in Strips
      BY <1>1, <1>3
    <3> QED BY <1>3, <3>1
  <2> HIDE DEF step
  <2>2. g = [n \in 0..N |-> g[n]]
    BY <1>3
  <2>3. \A n \in 0..N : n # 0 => n \in 1..N
    BY <1>1
  <2> QED BY <1>3, <2>1, <2>2, <2>3
<1>5. BlankRuns(b) = (CHOOSE f : Loop(f))[N]
  BY DEF BlankRuns, N
<1> HIDE DEF Loop
<1>6. PICK f : Loop(f) /\ BlankRuns(b) = f[N]
  BY <1>4, <1>5
<1>7. f \in [0..N -> Strips]
  <2> DEFINE G == {n \in 0..N : f[n] \in Strips}
  <2>1. 0 \in G
    BY <1>1, <1>6 DEF Loop
  <2>2. ASSUME NEW n \in 1..N, n - 1 \in G PROVE n \in G
    <3>1. f[n] = WithColumn(f[n - 1], n - 1, b[n])
      BY <1>1, <1>6 DEF Loop
    <3> QED BY <1>0, <2>2, <3>1, WithColumnIs
  <2>3. 0..N \subseteq G
    <3> HIDE DEF G
    <3> QED BY <1>1, <2>1, <2>2, EachInTurn
  <2> QED BY <1>6, <2>3 DEF Loop
<1>8. f[0] = <<>> /\ \A n \in 1..N : f[n] = WithColumn(f[n - 1], n - 1, b[n])
  BY <1>1, <1>6 DEF Loop
<1> QED BY <1>6, <1>7, <1>8 DEF N

(* Among the first n columns: the runs are where the blank ones are, in     *)
(* their order, and apart.                                                  *)
RunsAre(on, n, runs) ==
  /\ runs \in Strips
  /\ \A k \in 1..Len(runs) : /\ runs[k][1] < runs[k][2] /\ runs[k][2] <= n
                            /\ runs[k][1]..(runs[k][2] - 1) \subseteq on
  /\ \A k, l \in 1..Len(runs) : k < l => runs[k][2] < runs[l][1]
  /\ \A i \in on : i < n => \E k \in 1..Len(runs) : runs[k][1] <= i /\ i < runs[k][2]

LEMMA StripType ==
  ASSUME NEW runs \in Strips
  PROVE  /\ Len(runs) \in Nat
         /\ \A k \in 1..Len(runs) : /\ runs[k][1] \in Nat /\ runs[k][2] \in Nat
                                   /\ runs[k] = <<runs[k][1], runs[k][2]>>
         /\ runs = <<>> <=> Len(runs) = 0
<1>1. Len(runs) \in Nat /\ (runs # <<>> => Len(runs) \in Nat \ {0}) /\ Len(<<>>) = 0
  BY LenProperties, EmptySeq DEF Strips
<1>2. \A k \in 1..Len(runs) : runs[k] \in Nat \X Nat
  BY ElementOfSeq DEF Strips
<1> QED BY <1>1, <1>2

LEMMA RunsAreStep ==
  ASSUME NEW on \in SUBSET Nat, NEW i \in Nat, NEW isBlank \in BOOLEAN,
         isBlank <=> i \in on,
         NEW runs, RunsAre(on, i, runs)
  PROVE  RunsAre(on, i + 1, WithColumn(runs, i, isBlank))
<1> DEFINE new == WithColumn(runs, i, isBlank)
<1> SUFFICES RunsAre(on, i + 1, new)
  OBVIOUS
<1>1. runs \in Strips
  BY DEF RunsAre
<1>2. /\ Len(runs) \in Nat
      /\ \A k \in 1..Len(runs) : runs[k][1] \in Nat /\ runs[k][2] \in Nat
      /\ runs = <<>> <=> Len(runs) = 0
  BY <1>1, StripType
<1>3. CASE ~isBlank
  <2>1. new = runs
    BY <1>1, <1>3, WithColumnIs
  <2>2. \A j \in on : j < i + 1 => j < i
    BY <1>3
  <2> HIDE DEF new
  <2> QED BY <1>2, <2>1, <2>2 DEF RunsAre
<1>4. CASE isBlank /\ runs # <<>> /\ runs[Len(runs)][2] = i
  <2>1. /\ new \in Strips /\ Len(new) = Len(runs)
        /\ \A k \in 1..(Len(runs) - 1) : new[k] = runs[k]
        /\ new[Len(runs)][1] = runs[Len(runs)][1] /\ new[Len(runs)][2] = i + 1
    BY <1>1, <1>4, WithColumnIs
  <2> HIDE DEF new
  <2>2. /\ \A k \in 1..Len(runs) : new[k][1] \in Nat /\ new[k][2] \in Nat
        /\ \A k \in 1..Len(runs) : new[k][1] = runs[k][1]
        /\ \A k \in 1..Len(runs) : k # Len(runs) => new[k][2] = runs[k][2]
        /\ new[Len(runs)][2] = i + 1
    <3>1. \A k \in 1..Len(runs) : new[k][1] \in Nat /\ new[k][2] \in Nat
      BY <2>1, StripType
    <3>2. \A k \in 1..Len(runs) : k = Len(runs) \/ k \in 1..(Len(runs) - 1)
      BY <1>2
    <3> QED BY <2>1, <3>1, <3>2
  <2>3. Len(runs) \in 1..Len(runs)
    BY <1>2, <1>4
  <2>4. ASSUME NEW k \in 1..Len(runs)
        PROVE  /\ new[k][1] < new[k][2] /\ new[k][2] <= i + 1
               /\ new[k][1]..(new[k][2] - 1) \subseteq on
    <3>1. CASE k = Len(runs)
      <4>1. runs[k][1]..i \subseteq (runs[k][1]..(i - 1)) \cup {i}
        BY <1>2
      <4>2. runs[k][1]..(i - 1) \subseteq on
        BY <1>4, <3>1 DEF RunsAre
      <4> QED BY <1>2, <1>4, <2>2, <3>1, <4>1, <4>2 DEF RunsAre
    <3>2. CASE k # Len(runs)
      <4>1. new[k][1] = runs[k][1] /\ new[k][2] = runs[k][2]
        BY <2>2, <3>2
      <4>2. /\ runs[k][1] < runs[k][2] /\ runs[k][2] <= i
            /\ runs[k][1]..(runs[k][2] - 1) \subseteq on
        BY DEF RunsAre
      <4> QED BY <1>2, <4>1, <4>2
    <3> QED BY <3>1, <3>2
  <2>5. ASSUME NEW k \in 1..Len(runs), NEW l \in 1..Len(runs), k < l
        PROVE  new[k][2] < new[l][1]
    BY <1>2, <2>2, <2>5 DEF RunsAre
  <2>6. ASSUME NEW j \in on, j < i + 1
        PROVE  \E k \in 1..Len(runs) : new[k][1] <= j /\ j < new[k][2]
    <3>1. CASE j < i
      <4>1. PICK k \in 1..Len(runs) : runs[k][1] <= j /\ j < runs[k][2]
        BY <3>1 DEF RunsAre
      <4> QED BY <1>2, <2>2, <2>6, <4>1
    <3>2. CASE j = i
      <4>1. runs[Len(runs)][1] < i
        BY <1>4, <2>3 DEF RunsAre
      <4> QED BY <1>2, <2>2, <2>3, <3>2, <4>1
    <3>3. j < i \/ j = i
      BY <2>6
    <3> QED BY <3>1, <3>2, <3>3
  <2> QED BY <2>1, <2>4, <2>5, <2>6 DEF RunsAre
<1>5. CASE isBlank /\ (runs = <<>> \/ runs[Len(runs)][2] # i)
  <2> DEFINE L == Len(runs) + 1
  <2>1. /\ new \in Strips /\ Len(new) = L
        /\ \A k \in 1..Len(runs) : new[k] = runs[k]
        /\ new[L][1] = i /\ new[L][2] = i + 1
    BY <1>1, <1>5, WithColumnIs
  <2> HIDE DEF new
  <2>2. \A k \in 1..L : k \in 1..Len(runs) \/ k = L
    BY <1>2
  <2>3. \A k \in 1..Len(runs) : runs[k][2] < i
    <3> SUFFICES ASSUME NEW k \in 1..Len(runs) PROVE runs[k][2] < i
      OBVIOUS
    <3>1. Len(runs) \in 1..Len(runs) /\ runs[Len(runs)][2] < i
      BY <1>2, <1>5 DEF RunsAre
    <3>2. CASE k = Len(runs)
      BY <3>1, <3>2
    <3>3. CASE k # Len(runs)
      <4>1. runs[k][2] < runs[Len(runs)][1] /\ runs[Len(runs)][1] < runs[Len(runs)][2]
        BY <1>2, <3>1, <3>3 DEF RunsAre
      <4> QED BY <1>2, <3>1, <4>1
    <3> QED BY <3>2, <3>3
  <2>4. ASSUME NEW k \in 1..L
        PROVE  /\ new[k][1] < new[k][2] /\ new[k][2] <= i + 1
               /\ new[k][1]..(new[k][2] - 1) \subseteq on
    <3>1. CASE k = L
      BY <1>5, <2>1, <3>1
    <3>2. CASE k \in 1..Len(runs)
      BY <1>2, <2>1, <2>3, <3>2 DEF RunsAre
    <3> QED BY <2>2, <3>1, <3>2
  <2>5. ASSUME NEW k \in 1..L, NEW l \in 1..L, k < l
        PROVE  new[k][2] < new[l][1]
    <3>1. k \in 1..Len(runs)
      BY <1>2, <2>5
    <3>2. CASE l = L
      BY <2>1, <2>3, <3>1, <3>2
    <3>3. CASE l \in 1..Len(runs)
      BY <2>1, <2>5, <3>1, <3>3 DEF RunsAre
    <3> QED BY <2>2, <3>2, <3>3
  <2>6. ASSUME NEW j \in on, j < i + 1
        PROVE  \E k \in 1..L : new[k][1] <= j /\ j < new[k][2]
    <3>1. CASE j < i
      <4>1. PICK k \in 1..Len(runs) : runs[k][1] <= j /\ j < runs[k][2]
        BY <3>1 DEF RunsAre
      <4> QED BY <1>2, <2>1, <4>1
    <3>2. CASE j = i
      BY <1>2, <2>1, <3>2
    <3> QED BY <2>6, <3>1, <3>2
  <2> QED BY <2>1, <2>4, <2>5, <2>6 DEF RunsAre
<1> QED BY <1>3, <1>4, <1>5

LEMMA BlankRunsAre ==
  ASSUME NEW b \in Seq(BOOLEAN)
  PROVE  RunsAre(On(b), Len(b), BlankRuns(b))
<1> DEFINE N == Len(b)
<1>1. N \in Nat /\ On(b) \in SUBSET Nat
  BY LenProperties, OnNat
<1>2. PICK f : /\ f[0] = <<>>
               /\ \A n \in 1..N : f[n] = WithColumn(f[n - 1], n - 1, b[n])
               /\ BlankRuns(b) = f[N]
  BY RunsLoop
<1> DEFINE G == {n \in 0..N : RunsAre(On(b), n, f[n])}
<1>3. 0 \in G
  <2>1. <<>> \in Strips /\ Len(<<>>) = 0
    BY EmptySeq DEF Strips
  <2>2. RunsAre(On(b), 0, <<>>)
    BY <1>1, <2>1 DEF RunsAre
  <2> QED BY <1>1, <1>2, <2>2
<1>4. ASSUME NEW n \in 1..N, n - 1 \in G PROVE n \in G
  <2>1. b[n] \in BOOLEAN /\ n \in Nat \ {0}
    BY ElementOfSeq
  <2>2. b[n] <=> n - 1 \in On(b)
    <3>1. n - 1 \in 0..(N - 1) /\ (n - 1) + 1 = n
      BY <1>1
    <3> QED BY <3>1 DEF On
  <2> DEFINE i == n - 1
  <2>3. i \in Nat /\ i + 1 = n /\ RunsAre(On(b), i, f[i]) /\ (b[n] <=> i \in On(b))
    BY <1>4, <2>2
  <2> HIDE DEF i
  <2>4. RunsAre(On(b), i + 1, WithColumn(f[i], i, b[n]))
    BY <1>1, <2>1, <2>3, RunsAreStep
  <2> QED BY <1>2, <2>3, <2>4 DEF i
<1>5. 0..N \subseteq G
  <2> HIDE DEF G, N
  <2> QED BY <1>1, <1>3, <1>4, EachInTurn
<1> QED BY <1>1, <1>2, <1>5
------------------------------------------------------------------------------
LEMMA WithRunIs ==
  ASSUME NEW merged \in Strips, NEW run \in Nat \X Nat
  PROVE  /\ WithRun(merged, run) \in Strips
         /\ merged # <<>> /\ Bridged(merged[Len(merged)], run) =>
              /\ Len(WithRun(merged, run)) = Len(merged)
              /\ \A k \in 1..(Len(merged) - 1) : WithRun(merged, run)[k] = merged[k]
              /\ WithRun(merged, run)[Len(merged)][1] = merged[Len(merged)][1]
              /\ WithRun(merged, run)[Len(merged)][2] = run[2]
         /\ merged = <<>> \/ ~Bridged(merged[Len(merged)], run) =>
              /\ Len(WithRun(merged, run)) = Len(merged) + 1
              /\ \A k \in 1..Len(merged) : WithRun(merged, run)[k] = merged[k]
              /\ WithRun(merged, run)[Len(merged) + 1] = run
<1> USE DEF Strips
<1>1. CASE merged # <<>> /\ Bridged(merged[Len(merged)], run)
  <2>1. Len(merged) \in 1..Len(merged) /\ merged[Len(merged)] \in Nat \X Nat
    BY <1>1, EmptySeq
  <2> DEFINE last == <<merged[Len(merged)][1], run[2]>>
  <2>2. last \in Nat \X Nat /\ last[1] = merged[Len(merged)][1] /\ last[2] = run[2]
    BY <2>1
  <2>3. WithRun(merged, run) = [merged EXCEPT ![Len(merged)] = last]
    BY <1>1 DEF WithRun, Last
  <2> HIDE DEF last
  <2>4. /\ [merged EXCEPT ![Len(merged)] = last] \in Strips
        /\ Len([merged EXCEPT ![Len(merged)] = last]) = Len(merged)
        /\ \A k \in 1..Len(merged) : [merged EXCEPT ![Len(merged)] = last][k] =
             IF k = Len(merged) THEN last ELSE merged[k]
    BY <2>1, <2>2, ExceptSeq
  <2>5. \A k \in 1..(Len(merged) - 1) : k \in 1..Len(merged) /\ k # Len(merged)
    BY <2>1
  <2>6. /\ \A k \in 1..(Len(merged) - 1) : WithRun(merged, run)[k] = merged[k]
        /\ WithRun(merged, run)[Len(merged)] = last
    BY <2>1, <2>3, <2>4, <2>5
  <2> QED BY <1>1, <2>2, <2>3, <2>4, <2>6
<1>2. CASE merged = <<>> \/ ~Bridged(merged[Len(merged)], run)
  <2>1. WithRun(merged, run) = Append(merged, run)
    BY <1>2 DEF WithRun, Last
  <2>2. /\ Append(merged, run) \in Strips /\ Len(Append(merged, run)) = Len(merged) + 1
        /\ \A k \in 1..Len(merged) : Append(merged, run)[k] = merged[k]
        /\ Append(merged, run)[Len(merged) + 1] = run
    BY AppendProperties
  <2> QED BY <1>2, <2>1, <2>2
<1> QED BY <1>1, <1>2

(* The loop over the runs. *)
LEMMA MergeLoop ==
  ASSUME NEW runs \in Strips
  PROVE  \E f \in [0..Len(runs) -> Strips] :
           /\ f[0] = <<>>
           /\ \A n \in 1..Len(runs) : f[n] = WithRun(f[n - 1], runs[n])
           /\ MergeFolds(runs) = f[Len(runs)]
<1> DEFINE N == Len(runs)
           step == [x \in (1..N) \X Strips |-> WithRun(x[2], runs[x[1]])]
           Loop(f) == f = [n \in 0..N |-> IF n = 0 THEN <<>>
                                          ELSE WithRun(f[n - 1], runs[n])]
<1>1. N \in Nat /\ <<>> \in Strips
  BY EmptySeq, LenProperties DEF Strips
<1>0. \A n \in 1..N : runs[n] \in Nat \X Nat
  BY ElementOfSeq DEF Strips
<1> HIDE DEF N
<1>2. step \in [(1..N) \X Strips -> Strips]
  <2>1. ASSUME NEW n \in 1..N, NEW merged \in Strips
        PROVE  WithRun(merged, runs[n]) \in Strips
    BY <1>0, WithRunIs
  <2> QED BY <2>1
<1>3. PICK g \in [0..N -> Strips] :
        g[0] = <<>> /\ \A n \in 1..N : g[n] = step[<<n, g[n - 1]>>]
  <2> DEFINE none == <<>>
  <2>1. none \in Strips
    BY <1>1
  <2> HIDE DEF step, none
  <2>2. Loops(Strips, none, N, step) # {}
    BY <1>1, <1>2, <2>1, LoopExists
  <2> QED BY <2>2 DEF none, Loops
<1>4. Loop(g)
  <2>1. ASSUME NEW n \in 1..N PROVE g[n] = WithRun(g[n - 1], runs[n])
    <3>1. n - 1 \in 0..N /\ g[n - 1] \in Strips
      BY <1>1, <1>3
    <3> QED BY <1>3, <3>1
  <2> HIDE DEF step
  <2>2. g = [n \in 0..N |-> g[n]]
    BY <1>3
  <2>3. \A n \in 0..N : n # 0 => n \in 1..N
    BY <1>1
  <2> QED BY <1>3, <2>1, <2>2, <2>3
<1>5. MergeFolds(runs) = (CHOOSE f : Loop(f))[N]
  BY DEF MergeFolds, N
<1> HIDE DEF Loop
<1>6. PICK f : Loop(f) /\ MergeFolds(runs) = f[N]
  BY <1>4, <1>5
<1>7. f \in [0..N -> Strips]
  <2> DEFINE G == {n \in 0..N : f[n] \in Strips}
  <2>1. 0 \in G
    BY <1>1, <1>6 DEF Loop
  <2>2. ASSUME NEW n \in 1..N, n - 1 \in G PROVE n \in G
    <3>1. f[n] = WithRun(f[n - 1], runs[n])
      BY <1>1, <1>6 DEF Loop
    <3> QED BY <1>0, <2>2, <3>1, WithRunIs
  <2>3. 0..N \subseteq G
    <3> HIDE DEF G
    <3> QED BY <1>1, <2>1, <2>2, EachInTurn
  <2> QED BY <1>6, <2>3 DEF Loop
<1>8. f[0] = <<>> /\ \A n \in 1..N : f[n] = WithRun(f[n - 1], runs[n])
  BY <1>1, <1>6 DEF Loop
<1> QED BY <1>6, <1>7, <1>8 DEF N

(* The loop over the merged runs. *)
LEMMA WiderType ==
  ASSUME NEW best \in Nat \X Nat, NEW run \in Nat \X Nat
  PROVE  Wider(best, run) \in Nat \X Nat
  BY DEF Wider

LEMMA WidestLoop ==
  ASSUME NEW merged \in Strips
  PROVE  \E f \in [0..Len(merged) -> Nat \X Nat] :
           /\ f[0] = <<0, 0>>
           /\ \A n \in 1..Len(merged) : f[n] = Wider(f[n - 1], merged[n])
           /\ Widest(merged) = f[Len(merged)]
<1> DEFINE none == <<0, 0>>
           S == Nat \X Nat
           N == Len(merged)
           step == [x \in (1..N) \X S |-> Wider(x[2], merged[x[1]])]
           Loop(f) == f = [n \in 0..N |-> IF n = 0 THEN none
                                          ELSE Wider(f[n - 1], merged[n])]
<1>1. N \in Nat /\ none \in S /\ <<0, 0>> \in S
  BY LenProperties DEF Strips
<1>0. \A n \in 1..N : merged[n] \in S
  BY ElementOfSeq DEF Strips
<1> HIDE DEF N, none
<1>2. step \in [(1..N) \X S -> S]
  <2>1. ASSUME NEW n \in 1..N, NEW best \in S
        PROVE  Wider(best, merged[n]) \in S
    BY <1>0, WiderType
  <2> QED BY <2>1
<1> HIDE DEF S
<1>3. PICK g \in [0..N -> S] :
        g[0] = none /\ \A n \in 1..N : g[n] = step[<<n, g[n - 1]>>]
  <2>1. none \in S
    BY <1>1
  <2> HIDE DEF step
  <2>2. Loops(S, none, N, step) # {}
    BY <1>1, <1>2, <2>1, LoopExists
  <2> QED BY <2>2 DEF Loops
<1>4. Loop(g)
  <2>1. ASSUME NEW n \in 1..N PROVE g[n] = Wider(g[n - 1], merged[n])
    <3>1. n - 1 \in 0..N /\ g[n - 1] \in S
      BY <1>1, <1>3
    <3> QED BY <1>3, <3>1
  <2> HIDE DEF step
  <2>2. g = [n \in 0..N |-> g[n]]
    BY <1>3
  <2>3. \A n \in 0..N : n # 0 => n \in 1..N
    BY <1>1
  <2> QED BY <1>3, <2>1, <2>2, <2>3
<1>5. Widest(merged) = (CHOOSE f : Loop(f))[N]
  BY DEF Widest, N, none
<1> HIDE DEF Loop
<1>6. PICK f : Loop(f) /\ Widest(merged) = f[N]
  BY <1>4, <1>5
<1>7. f \in [0..N -> S]
  <2> DEFINE G == {n \in 0..N : f[n] \in S}
  <2>1. 0 \in G
    BY <1>1, <1>6 DEF Loop
  <2>2. ASSUME NEW n \in 1..N, n - 1 \in G PROVE n \in G
    <3>1. f[n] = Wider(f[n - 1], merged[n])
      BY <1>1, <1>6 DEF Loop
    <3> QED BY <1>0, <2>2, <3>1, WiderType DEF S
  <2>3. 0..N \subseteq G
    <3> HIDE DEF G
    <3> QED BY <1>1, <2>1, <2>2, EachInTurn
  <2> QED BY <1>6, <2>3 DEF Loop
<1>8. f[0] = none /\ \A n \in 1..N : f[n] = Wider(f[n - 1], merged[n])
  BY <1>1, <1>6 DEF Loop
<1> QED BY <1>6, <1>7, <1>8 DEF N, S, none

------------------------------------------------------------------------------
(* A band: it begins and ends on a blank column, and no dark strip inside   *)
(* it is wider than a fold.                                                 *)
IsBand(on, s) ==
  /\ s[1] < s[2] /\ s[1] \in on /\ s[2] - 1 \in on
  /\ \A x \in s[1]..(s[2] - 1) : \E y \in x..(x + Fold) : y \in on

(* The runs that end at c or before it, merged: bands, in their order, more *)
(* than a fold apart, that take in every blank column before c.             *)
MergedAre(on, c, merged) ==
  /\ merged \in Strips
  /\ \A k \in 1..Len(merged) : IsBand(on, merged[k])
  /\ merged # <<>> => merged[Len(merged)][2] = c
  /\ \A k, l \in 1..Len(merged) : k < l => merged[k][2] + Fold < merged[l][1]
  /\ \A i \in on : i < c => \E k \in 1..Len(merged) : merged[k][1] <= i /\ i < merged[k][2]

LEMMA FoldNat == Fold \in Nat \ {0}
  BY InputsAssumption

(* A run after a gap of at most a fold makes the last band longer.          *)
LEMMA BandGrows ==
  ASSUME NEW on \in SUBSET Nat, NEW a \in Nat, NEW c \in Nat, NEW b \in Nat, NEW e \in Nat,
         IsBand(on, <<a, c>>), b - c <= Fold, c <= b, b < e, b..(e - 1) \subseteq on
  PROVE  IsBand(on, <<a, e>>)
<1>1. a < e /\ a \in on /\ e - 1 \in on
  BY DEF IsBand
<1>2. ASSUME NEW x \in a..(e - 1) PROVE \E y \in x..(x + Fold) : y \in on
  <2>1. x \in Nat /\ Fold \in Nat
    BY FoldNat
  <2>2. CASE x < c
    <3>1. x \in a..(c - 1)
      BY <2>1, <2>2
    <3> QED BY <3>1 DEF IsBand
  <2>3. CASE c <= x /\ x < b
    <3>1. b \in x..(x + Fold) /\ b \in on
      BY <2>1, <2>3
    <3> QED BY <3>1
  <2>4. CASE b <= x
    <3>1. x \in x..(x + Fold) /\ x \in on
      BY <2>1, <2>4
    <3> QED BY <3>1
  <2> QED BY <2>1, <2>2, <2>3, <2>4
<1> QED BY <1>1, <1>2 DEF IsBand

LEMMA RunIsBand ==
  ASSUME NEW on \in SUBSET Nat, NEW run \in Nat \X Nat,
         run[1] < run[2], run[1]..(run[2] - 1) \subseteq on
  PROVE  IsBand(on, run)
<1>1. \A x \in run[1]..(run[2] - 1) : x \in x..(x + Fold)
  BY FoldNat
<1> QED BY <1>1 DEF IsBand

LEMMA MergedAreStep ==
  ASSUME NEW on \in SUBSET Nat, NEW c \in Nat, NEW merged, MergedAre(on, c, merged),
         NEW run \in Nat \X Nat, c <= run[1], run[1] < run[2],
         run[1]..(run[2] - 1) \subseteq on,
         \A i \in on : i < run[1] => i < c
  PROVE  MergedAre(on, run[2], WithRun(merged, run))
<1> DEFINE new == WithRun(merged, run)
           L == Len(merged)
<1> SUFFICES MergedAre(on, run[2], new)
  OBVIOUS
<1>1. merged \in Strips
  BY DEF MergedAre
<1>2. /\ L \in Nat
      /\ \A k \in 1..L : /\ merged[k][1] \in Nat /\ merged[k][2] \in Nat
                        /\ merged[k] = <<merged[k][1], merged[k][2]>>
      /\ merged = <<>> <=> L = 0
      /\ run[1] \in Nat /\ run[2] \in Nat /\ Fold \in Nat
  BY <1>1, StripType, FoldNat
<1>3. CASE merged # <<>> /\ Bridged(merged[L], run)
  <2>1. /\ new \in Strips /\ Len(new) = L
        /\ \A k \in 1..(L - 1) : new[k] = merged[k]
        /\ new[L][1] = merged[L][1] /\ new[L][2] = run[2]
    BY <1>1, <1>3, WithRunIs
  <2> HIDE DEF new
  <2>2. L \in 1..L /\ merged[L][2] = c /\ run[1] - c <= Fold
    BY <1>2, <1>3 DEF MergedAre, Bridged
  <2>3. /\ \A k \in 1..L : new[k][1] \in Nat /\ new[k][2] \in Nat
        /\ \A k \in 1..L : new[k][1] = merged[k][1]
        /\ \A k \in 1..L : k # L => new[k] = merged[k]
        /\ new[L] = <<merged[L][1], run[2]>>
    <3>1. \A k \in 1..L : k = L \/ k \in 1..(L - 1)
      BY <1>2
    <3>2. \A k \in 1..L : /\ new[k][1] \in Nat /\ new[k][2] \in Nat
                         /\ new[k] = <<new[k][1], new[k][2]>>
      BY <2>1, StripType
    <3> QED BY <2>1, <2>2, <3>1, <3>2
  <2>4. ASSUME NEW k \in 1..L PROVE IsBand(on, new[k])
    <3>1. CASE k = L
      <4>1. IsBand(on, <<merged[L][1], c>>)
        BY <1>2, <2>2 DEF MergedAre
      <4>2. IsBand(on, <<merged[L][1], run[2]>>)
        BY <1>2, <2>2, <4>1, BandGrows
      <4> QED BY <2>3, <3>1, <4>2
    <3>2. CASE k # L
      BY <2>3, <3>2 DEF MergedAre
    <3> QED BY <3>1, <3>2
  <2>5. ASSUME NEW k \in 1..L, NEW l \in 1..L, k < l
        PROVE  new[k][2] + Fold < new[l][1]
    <3>1. k # L
      BY <1>2, <2>5
    <3> QED BY <2>3, <2>5, <3>1 DEF MergedAre
  <2>6. ASSUME NEW i \in on, i < run[2]
        PROVE  \E k \in 1..L : new[k][1] <= i /\ i < new[k][2]
    <3>1. CASE i < c
      <4>1. PICK k \in 1..L : merged[k][1] <= i /\ i < merged[k][2]
        BY <3>1 DEF MergedAre
      <4>2. CASE k = L
        <5>1. new[L][1] <= i /\ i < new[L][2]
          BY <2>1, <2>6, <4>1, <4>2
        <5> QED BY <2>2, <5>1
      <4>3. CASE k # L
        BY <2>3, <4>1, <4>3
      <4> QED BY <4>2, <4>3
    <3>2. CASE ~(i < c)
      <4>1. merged[L][1] < c
        BY <2>2 DEF MergedAre, IsBand
      <4>2. new[L][1] <= i /\ i < new[L][2]
        BY <1>2, <2>1, <2>2, <2>6, <3>2, <4>1
      <4> QED BY <2>2, <4>2
    <3> QED BY <3>1, <3>2
  <2> QED BY <2>1, <2>4, <2>5, <2>6 DEF MergedAre
<1>4. CASE merged = <<>> \/ ~Bridged(merged[L], run)
  <2>1. /\ new \in Strips /\ Len(new) = L + 1
        /\ \A k \in 1..L : new[k] = merged[k]
        /\ new[L + 1] = run
    BY <1>1, <1>4, WithRunIs
  <2> HIDE DEF new
  <2>2. /\ \A k \in 1..(L + 1) : k \in 1..L \/ k = L + 1
        /\ L + 1 \in 1..(L + 1) /\ \A k \in 1..L : k \in 1..(L + 1)
    BY <1>2
  <2>3. ASSUME NEW k \in 1..(L + 1) PROVE IsBand(on, new[k])
    <3>1. CASE k = L + 1
      BY <2>1, <3>1, RunIsBand
    <3>2. CASE k \in 1..L
      BY <2>1, <3>2 DEF MergedAre
    <3> QED BY <2>2, <3>1, <3>2
  <2>4. ASSUME NEW k \in 1..L PROVE merged[k][2] + Fold < run[1]
    <3>1. L \in 1..L /\ merged[L][2] + Fold < run[1]
      BY <1>2, <1>4 DEF Bridged
    <3>2. CASE k = L
      BY <3>1, <3>2
    <3>3. CASE k # L
      <4>1. merged[k][2] + Fold < merged[L][1] /\ merged[L][1] < merged[L][2]
        BY <1>2, <3>1, <3>3 DEF MergedAre, IsBand
      <4> QED BY <1>2, <3>1, <4>1
    <3> QED BY <3>2, <3>3
  <2>5. ASSUME NEW k \in 1..(L + 1), NEW l \in 1..(L + 1), k < l
        PROVE  new[k][2] + Fold < new[l][1]
    <3>1. k \in 1..L
      BY <1>2, <2>5
    <3>2. CASE l = L + 1
      BY <2>1, <2>4, <3>1, <3>2
    <3>3. CASE l \in 1..L
      BY <2>1, <2>5, <3>1, <3>3 DEF MergedAre
    <3> QED BY <2>2, <3>2, <3>3
  <2>6. ASSUME NEW i \in on, i < run[2]
        PROVE  \E k \in 1..(L + 1) : new[k][1] <= i /\ i < new[k][2]
    <3>1. CASE i < c
      <4>1. PICK k \in 1..L : merged[k][1] <= i /\ i < merged[k][2]
        BY <3>1 DEF MergedAre
      <4> QED BY <2>1, <2>2, <4>1
    <3>2. CASE ~(i < c)
      <4>1. new[L + 1][1] <= i /\ i < new[L + 1][2]
        BY <1>2, <2>1, <2>6, <3>2
      <4> QED BY <2>2, <4>1
    <3> QED BY <3>1, <3>2
  <2>7. new # <<>> => new[Len(new)][2] = run[2]
    BY <2>1
  <2> QED BY <2>1, <2>3, <2>5, <2>6, <2>7 DEF MergedAre
<1> QED BY <1>3, <1>4

LEMMA MergeFoldsAre ==
  ASSUME NEW on \in SUBSET Nat, NEW N \in Nat, NEW runs, RunsAre(on, N, runs),
         \A i \in on : i < N
  PROVE  \E c \in Nat : MergedAre(on, c, MergeFolds(runs)) /\ \A i \in on : i < c
<1> DEFINE L == Len(runs)
           End(n) == IF n = 0 THEN 0 ELSE runs[n][2]
<1>1. runs \in Strips
  BY DEF RunsAre
<1>2. /\ L \in Nat
      /\ \A k \in 1..L : runs[k][1] \in Nat /\ runs[k][2] \in Nat /\ runs[k] \in Nat \X Nat
  <2>1. \A k \in 1..L : runs[k] \in Nat \X Nat
    BY <1>1, ElementOfSeq DEF Strips
  <2> QED BY <1>1, <2>1, StripType
<1>3. PICK f : /\ f[0] = <<>>
               /\ \A n \in 1..L : f[n] = WithRun(f[n - 1], runs[n])
               /\ MergeFolds(runs) = f[L]
  BY <1>1, MergeLoop
<1>4. ASSUME NEW k \in 1..L, NEW l \in 1..L, k <= l
      PROVE  runs[k][2] <= runs[l][2]
  <2>1. runs[l][1] < runs[l][2] /\ (k < l => runs[k][2] < runs[l][1])
    BY <1>4 DEF RunsAre
  <2>2. CASE k < l
    BY <1>2, <2>1, <2>2
  <2>3. CASE k = l
    BY <1>2, <2>3
  <2> QED BY <1>2, <1>4, <2>2, <2>3
<1>5. ASSUME NEW i \in on, NEW n \in 1..(L + 1), n = L + 1 \/ i < runs[n][1]
      PROVE  n > 1 /\ i < runs[n - 1][2]
  <2>1. PICK k \in 1..L : runs[k][1] <= i /\ i < runs[k][2]
    BY DEF RunsAre
  <2>2. k < n
    <3>1. CASE n = L + 1
      BY <1>2, <3>1
    <3>2. CASE n \in 1..L /\ i < runs[n][1]
      <4>1. n < k => runs[n][2] < runs[k][1]
        BY <3>2 DEF RunsAre
      <4>2. runs[n][1] < runs[n][2]
        BY <3>2 DEF RunsAre
      <4>3. n # k /\ ~(n < k)
        BY <1>2, <2>1, <3>2, <4>1, <4>2
      <4> QED BY <3>2, <4>3
    <3> QED BY <1>2, <1>5, <3>1, <3>2
  <2>3. n - 1 \in 1..L /\ k <= n - 1 /\ n > 1
    BY <1>2, <2>2
  <2>4. runs[k][2] <= runs[n - 1][2]
    BY <1>4, <2>3
  <2> QED BY <1>2, <2>1, <2>3, <2>4
<1> DEFINE G == {n \in 0..L : MergedAre(on, End(n), f[n])}
<1>6. 0 \in G
  <2>1. <<>> \in Strips /\ Len(<<>>) = 0
    BY EmptySeq DEF Strips
  <2>2. MergedAre(on, 0, <<>>)
    BY <2>1 DEF MergedAre
  <2> QED BY <1>2, <1>3, <2>2
<1>7. ASSUME NEW n \in 1..L, n - 1 \in G PROVE n \in G
  <2> DEFINE c == End(n - 1)
             run == runs[n]
  <2>1. /\ c \in Nat /\ MergedAre(on, c, f[n - 1])
        /\ run \in Nat \X Nat /\ f[n] = WithRun(f[n - 1], run) /\ End(n) = run[2]
    BY <1>2, <1>3, <1>7
  <2>2. run[1] < run[2] /\ run[1]..(run[2] - 1) \subseteq on
    BY DEF RunsAre
  <2>3. c <= run[1]
    <3>1. CASE n = 1
      BY <1>2, <3>1
    <3>2. CASE n # 1
      <4>1. n - 1 \in 1..L /\ n - 1 < n
        BY <1>2, <3>2
      <4>2. runs[n - 1][2] < runs[n][1]
        BY <4>1 DEF RunsAre
      <4> QED BY <1>2, <4>1, <4>2
    <3> QED BY <3>1, <3>2
  <2>4. \A i \in on : i < run[1] => i < c
    <3> SUFFICES ASSUME NEW i \in on, i < run[1] PROVE i < c
      OBVIOUS
    <3>1. n \in 1..(L + 1)
      BY <1>2
    <3>2. n > 1 /\ i < runs[n - 1][2]
      BY <1>5, <3>1
    <3> QED BY <3>2
  <2> HIDE DEF c, run, End
  <2>5. MergedAre(on, run[2], WithRun(f[n - 1], run))
    BY <2>1, <2>2, <2>3, <2>4, MergedAreStep
  <2> QED BY <2>1, <2>5
<1>8. L \in G
  <2> HIDE DEF G, L
  <2>1. 0..L \subseteq G
    BY <1>2, <1>6, <1>7, EachInTurn
  <2> QED BY <1>2, <2>1
<1>9. ASSUME NEW i \in on PROVE i < End(L)
  BY <1>2, <1>5
<1>10. End(L) \in Nat
  BY <1>2
<1> QED BY <1>3, <1>8, <1>9, <1>10

(* Of the first n bands the widest and, of several, the first.              *)
Leads(merged, k, n) ==
  \A l \in 1..n : /\ Width(merged[l]) <= Width(merged[k])
                  /\ l < k => Width(merged[l]) < Width(merged[k])

LEMMA WidestIs ==
  ASSUME NEW merged \in Strips, \A k \in 1..Len(merged) : merged[k][1] < merged[k][2]
  PROVE  IF merged = <<>> THEN Widest(merged) = <<0, 0>>
         ELSE \E k \in 1..Len(merged) :
                Widest(merged) = merged[k] /\ Leads(merged, k, Len(merged))
<1> DEFINE L == Len(merged)
<1>1. /\ L \in Nat
      /\ \A k \in 1..L : merged[k][1] \in Nat /\ merged[k][2] \in Nat
      /\ merged = <<>> <=> L = 0
  BY StripType
<1>2. PICK f : /\ f[0] = <<0, 0>>
               /\ \A n \in 1..L : f[n] = Wider(f[n - 1], merged[n])
               /\ Widest(merged) = f[L]
  BY WidestLoop
<1> DEFINE First(n) == \E k \in 1..n : f[n] = merged[k] /\ Leads(merged, k, n)
           G == {n \in 0..L : n = 0 \/ First(n)}
<1>3. \A k \in 1..L : Width(merged[k]) \in Nat /\ Width(merged[k]) > 0
  BY <1>1 DEF Width
<1>4. Width(<<0, 0>>) = 0
  BY DEF Width
<1>5. ASSUME NEW n \in 1..L, n - 1 \in G PROVE n \in G
  <2> SUFFICES First(n)
    BY <1>1
  <2>1. f[n] = IF Width(merged[n]) > Width(f[n - 1]) THEN merged[n] ELSE f[n - 1]
    BY <1>2 DEF Wider
  <2>2. CASE n = 1
    <3>1. f[n] = merged[n]
      <4>1. f[n - 1] = <<0, 0>>
        BY <1>2, <2>2
      <4>2. Width(merged[n]) > Width(f[n - 1])
        BY <1>3, <1>4, <4>1
      <4> QED BY <2>1, <4>2
    <3>2. \A l \in 1..n : l = n /\ ~(l < n)
      BY <1>1, <2>2
    <3>3. Leads(merged, n, n) /\ n \in 1..n
      BY <1>3, <3>2 DEF Leads
    <3> QED BY <3>1, <3>3
  <2>3. CASE n # 1
    <3>1. PICK k \in 1..(n - 1) :
            f[n - 1] = merged[k] /\ Leads(merged, k, n - 1)
      BY <1>5, <2>3
    <3>2. /\ \A l \in 1..n : l \in 1..(n - 1) \/ l = n
          /\ \A l \in 1..n : l \in 1..L
          /\ k \in 1..n /\ k < n /\ n \in 1..n
      BY <1>1
    <3>3. CASE Width(merged[n]) > Width(merged[k])
      <4>1. Leads(merged, n, n)
        BY <1>3, <3>1, <3>2, <3>3 DEF Leads
      <4>2. f[n] = merged[n]
        BY <2>1, <3>1, <3>3
      <4> QED BY <3>2, <4>1, <4>2
    <3>4. CASE ~(Width(merged[n]) > Width(merged[k]))
      <4>1. Leads(merged, k, n)
        BY <1>3, <3>1, <3>2, <3>4 DEF Leads
      <4>2. f[n] = merged[k]
        BY <2>1, <3>1, <3>4
      <4> QED BY <3>2, <4>1, <4>2
    <3> QED BY <3>3, <3>4
  <2> QED BY <2>2, <2>3
<1>6. L \in G
  <2>1. 0 \in G
    BY <1>1
  <2> HIDE DEF G, L
  <2>2. 0..L \subseteq G
    BY <1>1, <1>5, <2>1, EachInTurn
  <2> QED BY <1>1, <2>2
<1> QED BY <1>1, <1>2, <1>6

------------------------------------------------------------------------------
(* A band lies inside one of the merged runs: where it left it, it would    *)
(* cross a gap wider than a fold.                                           *)
LEMMA BandInside ==
  ASSUME NEW on \in SUBSET Nat, NEW c \in Nat, NEW merged, MergedAre(on, c, merged),
         \A i \in on : i < c,
         NEW s \in Nat \X Nat, IsBand(on, s)
  PROVE  \E k \in 1..Len(merged) : merged[k][1] <= s[1] /\ s[2] <= merged[k][2]
<1>1. /\ s[1] \in Nat /\ s[2] \in Nat /\ Fold \in Nat
      /\ \A k \in 1..Len(merged) : merged[k][1] \in Nat /\ merged[k][2] \in Nat
      /\ Len(merged) \in Nat
  BY StripType, FoldNat DEF MergedAre
<1>2. PICK k \in 1..Len(merged) : merged[k][1] <= s[1] /\ s[1] < merged[k][2]
  BY DEF MergedAre, IsBand
<1>3. ASSUME merged[k][2] < s[2] PROVE FALSE
  <2>1. merged[k][2] \in s[1]..(s[2] - 1)
    BY <1>1, <1>2, <1>3
  <2>2. PICK y \in merged[k][2]..(merged[k][2] + Fold) : y \in on
    BY <2>1 DEF IsBand
  <2>3. PICK l \in 1..Len(merged) : merged[l][1] <= y /\ y < merged[l][2]
    BY <2>2 DEF MergedAre
  <2>4. ~(k < l)
    <3>1. k < l => merged[k][2] + Fold < merged[l][1]
      BY DEF MergedAre
    <3> QED BY <1>1, <2>2, <2>3, <3>1
  <2>5. ~(l < k)
    <3>1. l < k => merged[l][2] + Fold < merged[k][1]
      BY DEF MergedAre
    <3> QED BY <1>1, <1>2, <2>2, <2>3, <3>1
  <2>6. k # l
    BY <1>1, <2>2, <2>3
  <2> QED BY <1>1, <2>4, <2>5, <2>6
<1> QED BY <1>1, <1>2, <1>3

(* The bands of a spread in terms of its blank columns. *)
LEMMA BandsAre ==
  ASSUME blank \in Seq(BOOLEAN)
  PROVE  /\ Bands = {s \in Nat \X Nat : IsBand(On(blank), s)}
<1> DEFINE N == Len(blank)
<1>1. N \in Nat /\ Fold \in Nat /\ On(blank) \in SUBSET Nat
  BY LenProperties, FoldNat, OnNat
<1>2. \A j \in Nat : j \in On(blank) <=> j < N /\ blank[j + 1]
  BY <1>1 DEF On
<1>3. ASSUME NEW s \in Bands PROVE s \in Nat \X Nat /\ IsBand(On(blank), s)
  <2>1. /\ s \in (0..N) \X (1..N) /\ s[1] < s[2] /\ blank[s[1] + 1] /\ blank[s[2]]
        /\ \A i \in s[1]..(s[2] - 1) : \E j \in i..(i + Fold) : j < N /\ blank[j + 1]
    BY DEF Bands
  <2>2. s \in Nat \X Nat /\ s[1] < N /\ s[2] - 1 \in Nat /\ s[2] - 1 < N /\ (s[2] - 1) + 1 = s[2]
    BY <1>1, <2>1
  <2>3. s[1] \in On(blank) /\ s[2] - 1 \in On(blank)
    <3> DEFINE e == s[2] - 1
    <3>1. e \in Nat /\ e < N /\ blank[e + 1]
      BY <2>1, <2>2
    <3> HIDE DEF e
    <3>2. e \in On(blank)
      BY <1>2, <3>1
    <3> QED BY <1>2, <2>1, <2>2, <3>2 DEF e
  <2>4. ASSUME NEW i \in s[1]..(s[2] - 1)
        PROVE  \E j \in i..(i + Fold) : j \in On(blank)
    <3>1. PICK j \in i..(i + Fold) : j < N /\ blank[j + 1]
      BY <2>1
    <3>2. j \in Nat
      BY <1>1, <2>2
    <3> QED BY <1>2, <3>1, <3>2
  <2> QED BY <2>1, <2>2, <2>3, <2>4 DEF IsBand
<1>4. ASSUME NEW s \in Nat \X Nat, IsBand(On(blank), s) PROVE s \in Bands
  <2>1. /\ s[1] \in Nat /\ s[2] \in Nat /\ s[1] < s[2]
        /\ s[1] \in On(blank) /\ s[2] - 1 \in On(blank)
        /\ \A i \in s[1]..(s[2] - 1) : \E j \in i..(i + Fold) : j \in On(blank)
    BY <1>4 DEF IsBand
  <2>2. blank[s[1] + 1] /\ blank[s[2]] /\ s[2] <= N
    <3> DEFINE e == s[2] - 1
    <3>1. e \in On(blank) /\ e + 1 = s[2] /\ e \in Nat
      BY <2>1
    <3> HIDE DEF e
    <3>2. blank[e + 1] /\ e < N
      BY <1>2, <3>1
    <3>3. blank[s[1] + 1]
      BY <1>2, <2>1
    <3> QED BY <1>1, <2>1, <3>1, <3>2, <3>3
  <2>3. s \in (0..N) \X (1..N)
    BY <1>1, <2>1, <2>2
  <2>4. ASSUME NEW i \in s[1]..(s[2] - 1)
        PROVE  \E j \in i..(i + Fold) : j < N /\ blank[j + 1]
    <3>1. PICK j \in i..(i + Fold) : j \in On(blank)
      BY <2>1
    <3>2. j \in Nat
      BY <1>1, <3>1
    <3> QED BY <1>2, <3>1, <3>2
  <2> QED BY <2>1, <2>2, <2>3, <2>4 DEF Bands
<1> QED BY <1>3, <1>4

BlankType == blank \in Seq(BOOLEAN)

LEMMA WiderInside ==
  ASSUME NEW a \in Nat, NEW b \in Nat, NEW p \in Nat, NEW q \in Nat,
         NEW u \in Nat, NEW v \in Nat,
         u <= a, b <= v, v - u <= q - p, v - u < q - p \/ p <= u
  PROVE  b - a < q - p \/ (b - a = q - p /\ p <= a)
  OBVIOUS

LEMMA CutIsWidest == BlankType => GutterIsWidest
<1> SUFFICES ASSUME blank \in Seq(BOOLEAN) PROVE GutterIsWidest
  BY DEF BlankType
<1> DEFINE on == On(blank)
           M == MergeFolds(BlankRuns(blank))
           cut == FindGutter(blank)
<1>1. on \in SUBSET Nat /\ Len(blank) \in Nat /\ \A i \in on : i < Len(blank)
  BY OnNat, LenProperties DEF On
<1>2. PICK c \in Nat : MergedAre(on, c, M) /\ \A i \in on : i < c
  <2>1. RunsAre(on, Len(blank), BlankRuns(blank))
    BY BlankRunsAre
  <2> HIDE DEF on
  <2> QED BY <1>1, <2>1, MergeFoldsAre
<1>3. Bands = {s \in Nat \X Nat : IsBand(on, s)}
  BY BandsAre
<1>4. cut = Widest(M)
  BY DEF FindGutter
<1> HIDE DEF on, M, cut
<1>5. /\ M \in Strips /\ Len(M) \in Nat
      /\ \A k \in 1..Len(M) : /\ M[k][1] \in Nat /\ M[k][2] \in Nat
                             /\ M[k] = <<M[k][1], M[k][2]>> /\ M[k] \in Bands
                             /\ M[k][1] < M[k][2]
  <2>1. M \in Strips
    BY <1>2 DEF MergedAre
  <2>2. \A k \in 1..Len(M) : M[k] \in Nat \X Nat
    BY <2>1, ElementOfSeq DEF Strips
  <2> QED BY <1>2, <1>3, <2>1, <2>2, StripType DEF MergedAre, IsBand
<1>6. ASSUME NEW s \in Bands
      PROVE  \E k \in 1..Len(M) : M[k][1] <= s[1] /\ s[2] <= M[k][2]
  BY <1>1, <1>2, <1>3, BandInside
<1>7. CASE M = <<>>
  <2>1. Len(M) = 0
    BY <1>7, EmptySeq
  <2>2. Bands = {}
    BY <1>6, <2>1
  <2>3. cut = <<0, 0>>
    BY <1>4, <1>5, <1>7, WidestIs
  <2> QED BY <2>2, <2>3 DEF GutterIsWidest, cut
<1>8. CASE M # <<>>
  <2>1. PICK k \in 1..Len(M) : cut = M[k] /\ Leads(M, k, Len(M))
    BY <1>4, <1>5, <1>8, WidestIs
  <2>2. cut \in Bands
    BY <1>5, <2>1
  <2>3. ASSUME NEW s \in Bands
        PROVE  Width(s) < Width(cut) \/ (Width(s) = Width(cut) /\ cut[1] <= s[1])
    <3>1. PICK l \in 1..Len(M) : M[l][1] <= s[1] /\ s[2] <= M[l][2]
      BY <1>6
    <3>2. s[1] \in Nat /\ s[2] \in Nat
      BY <1>3
    <3>3. /\ M[l][2] - M[l][1] <= M[k][2] - M[k][1]
          /\ l < k => M[l][2] - M[l][1] < M[k][2] - M[k][1]
      BY <2>1 DEF Leads, Width
    <3>4. k < l => M[k][2] + Fold < M[l][1]
      BY <1>2 DEF MergedAre
    <3>5. \/ s[2] - s[1] < M[k][2] - M[k][1]
          \/ s[2] - s[1] = M[k][2] - M[k][1] /\ M[k][1] <= s[1]
      <4>1. /\ M[k][1] \in Nat /\ M[k][2] \in Nat /\ M[l][1] \in Nat /\ M[l][2] \in Nat
            /\ M[k][1] < M[k][2] /\ Fold \in Nat /\ (l = k \/ l < k \/ k < l)
        BY <1>5, FoldNat
      <4>2. k < l => M[k][1] <= M[l][1]
        BY <3>4, <4>1
      <4>3. M[l][2] - M[l][1] < M[k][2] - M[k][1] \/ M[k][1] <= M[l][1]
        BY <3>3, <4>1, <4>2
      <4> DEFINE p == M[k][1]
                 q == M[k][2]
                 u == M[l][1]
                 v == M[l][2]
      <4>4. /\ p \in Nat /\ q \in Nat /\ u \in Nat /\ v \in Nat
            /\ u <= s[1] /\ s[2] <= v /\ v - u <= q - p
            /\ v - u < q - p \/ p <= u
        BY <3>1, <3>3, <4>1, <4>3
      <4>5. ASSUME NEW a \in Nat, NEW b \in Nat, u <= a, b <= v
            PROVE  b - a < q - p \/ (b - a = q - p /\ p <= a)
        <5> HIDE DEF p, q, u, v
        <5> QED BY <4>4, <4>5, WiderInside
      <4>6. s[2] - s[1] < q - p \/ (s[2] - s[1] = q - p /\ p <= s[1])
        <5> HIDE DEF p, q, u, v
        <5> QED BY <3>2, <4>4, <4>5
      <4> QED BY <4>6
    <3> QED BY <2>1, <3>5 DEF Width
  <2> QED BY <2>2, <2>3 DEF GutterIsWidest, cut
<1> QED BY <1>7, <1>8

(* Of every spread of any width, and with a binding shadow of any width, the *)
(* cut goes through the widest band that no dark strip wider than a fold     *)
(* divides, the first if there are several, and there is none only if no     *)
(* column is blank (split_spreads.py:78-123).                                *)
THEOREM WidestGutter == Spec => []GutterIsWidest
<1>1. Init => BlankType
  BY EmptySeq DEF Init, BlankType
<1>2. BlankType /\ [Next]_vars => BlankType'
  <2> SUFFICES ASSUME blank \in Seq(BOOLEAN), [Next]_vars PROVE blank' \in Seq(BOOLEAN)
    BY DEF BlankType
  <2>1. CASE NextLine
    BY <2>1 DEF NextLine
  <2>2. CASE NextColumn
    <3>1. PICK b \in BOOLEAN : blank' = Append(blank, b)
      BY <2>2 DEF NextColumn
    <3> QED BY <3>1, AppendProperties
  <2>3. CASE UNCHANGED vars
    BY <2>3 DEF vars
  <2> QED BY <2>1, <2>2, <2>3 DEF Next
<1> QED BY <1>1, <1>2, CutIsWidest, PTL DEF Spec
------------------------------------------------------------------------------
(* The text.  What is kept of a sequence. *)
LEMMA WithItemType ==
  ASSUME NEW T, NEW kept \in Seq(T), NEW x \in T, NEW S
  PROVE  WithItem(kept, x, S) \in Seq(T)
  BY AppendProperties DEF WithItem

LEMMA KeptLoop ==
  ASSUME NEW T, NEW s \in Seq(T), NEW S
  PROVE  \E f \in [0..Len(s) -> Seq(T)] :
           /\ f[0] = <<>>
           /\ \A n \in 1..Len(s) :
                f[n] = WithItem(f[n - 1], s[n], S)
           /\ Kept(s, S) = f[Len(s)]
<1> DEFINE N == Len(s)
           step == [x \in (1..N) \X Seq(T) |-> WithItem(x[2], s[x[1]], S)]
           Loop(f) == f = [n \in 0..N |-> IF n = 0 THEN <<>>
                                          ELSE WithItem(f[n - 1], s[n], S)]
<1>1. N \in Nat /\ <<>> \in Seq(T)
  BY EmptySeq, LenProperties
<1>0. \A n \in 1..N : s[n] \in T
  BY ElementOfSeq
<1> HIDE DEF N
<1>2. step \in [(1..N) \X Seq(T) -> Seq(T)]
  <2>1. ASSUME NEW n \in 1..N, NEW kept \in Seq(T)
        PROVE  WithItem(kept, s[n], S) \in Seq(T)
    BY <1>0, WithItemType
  <2> QED BY <2>1
<1>3. PICK g \in [0..N -> Seq(T)] :
        g[0] = <<>> /\ \A n \in 1..N : g[n] = step[<<n, g[n - 1]>>]
  <2> DEFINE none == <<>>
  <2>1. none \in Seq(T)
    BY <1>1
  <2> HIDE DEF step, none
  <2>2. Loops(Seq(T), none, N, step) # {}
    BY <1>1, <1>2, <2>1, LoopExists
  <2> QED BY <2>2 DEF none, Loops
<1>4. Loop(g)
  <2>1. ASSUME NEW n \in 1..N PROVE g[n] = WithItem(g[n - 1], s[n], S)
    <3>1. n - 1 \in 0..N /\ g[n - 1] \in Seq(T)
      BY <1>1, <1>3
    <3> QED BY <1>3, <3>1
  <2> HIDE DEF step
  <2>2. g = [n \in 0..N |-> g[n]]
    BY <1>3
  <2>3. \A n \in 0..N : n # 0 => n \in 1..N
    BY <1>1
  <2> QED BY <1>3, <2>1, <2>2, <2>3
<1>5. Kept(s, S) = (CHOOSE f : Loop(f))[N]
  BY DEF Kept, N
<1> HIDE DEF Loop
<1>6. PICK f : Loop(f) /\ Kept(s, S) = f[N]
  BY <1>4, <1>5
<1>7. f \in [0..N -> Seq(T)]
  <2> DEFINE G == {n \in 0..N : f[n] \in Seq(T)}
  <2>1. 0 \in G
    BY <1>1, <1>6 DEF Loop
  <2>2. ASSUME NEW n \in 1..N, n - 1 \in G PROVE n \in G
    <3>1. f[n] = WithItem(f[n - 1], s[n], S)
      BY <1>1, <1>6 DEF Loop
    <3> QED BY <1>0, <2>2, <3>1, WithItemType
  <2>3. 0..N \subseteq G
    <3> HIDE DEF G
    <3> QED BY <1>1, <2>1, <2>2, EachInTurn
  <2> QED BY <1>6, <2>3 DEF Loop
<1>8. f[0] = <<>> /\ \A n \in 1..N : f[n] = WithItem(f[n - 1], s[n], S)
  BY <1>1, <1>6 DEF Loop
<1> QED BY <1>6, <1>7, <1>8 DEF N

Increasing(s) == \A k, l \in 1..Len(s) : k < l => s[k] < s[l]

LEMMA KeptIs ==
  ASSUME NEW T, NEW s \in Seq(T), NEW S
  PROVE  /\ Kept(s, S) \in Seq(T)
         /\ \A k \in 1..Len(Kept(s, S)) :
              Kept(s, S)[k] \in S /\ \E n \in 1..Len(s) : Kept(s, S)[k] = s[n]
         /\ \A n \in 1..Len(s) : s[n] \in S =>
              \E k \in 1..Len(Kept(s, S)) : Kept(s, S)[k] = s[n]
<1> DEFINE N == Len(s)
<1>1. N \in Nat /\ \A n \in 1..N : s[n] \in T
  BY LenProperties, ElementOfSeq
<1>2. PICK f \in [0..N -> Seq(T)] :
        /\ f[0] = <<>>
        /\ \A n \in 1..N : f[n] = WithItem(f[n - 1], s[n], S)
        /\ Kept(s, S) = f[N]
  BY KeptLoop
<1> DEFINE Right(m) ==
             /\ \A k \in 1..Len(f[m]) : f[m][k] \in S /\ \E n \in 1..m : f[m][k] = s[n]
             /\ \A n \in 1..m : s[n] \in S => \E k \in 1..Len(f[m]) : f[m][k] = s[n]
           G == {m \in 0..N : Right(m)}
<1>3. 0 \in G
  <2>1. Len(f[0]) = 0
    BY <1>2, EmptySeq
  <2> QED BY <1>1, <2>1
<1>4. ASSUME NEW m \in 1..N, m - 1 \in G PROVE m \in G
  <2> DEFINE old == f[m - 1]
             new == f[m]
  <2>1. /\ m - 1 \in 0..N /\ old \in Seq(T) /\ Len(old) \in Nat /\ s[m] \in T
        /\ new = IF s[m] \in S THEN Append(old, s[m]) ELSE old
        /\ \A n \in 1..m : n \in 1..(m - 1) \/ n = m
        /\ \A n \in 1..(m - 1) : n \in 1..m
        /\ m \in 1..m
    BY <1>1, <1>2, LenProperties DEF WithItem
  <2>2. /\ \A k \in 1..Len(old) : old[k] \in S /\ \E n \in 1..(m - 1) : old[k] = s[n]
        /\ \A n \in 1..(m - 1) : s[n] \in S => \E k \in 1..Len(old) : old[k] = s[n]
    BY <1>4
  <2> HIDE DEF old, new
  <2>3. CASE s[m] \in S
    <3>1. /\ Len(new) = Len(old) + 1
          /\ \A k \in 1..Len(old) : new[k] = old[k]
          /\ new[Len(old) + 1] = s[m]
      BY <2>1, <2>3, AppendProperties
    <3>2. \A k \in 1..Len(new) : k \in 1..Len(old) \/ k = Len(old) + 1
      BY <2>1, <3>1
    <3>3. ASSUME NEW k \in 1..Len(new)
          PROVE  new[k] \in S /\ \E n \in 1..m : new[k] = s[n]
      BY <2>1, <2>2, <2>3, <3>1, <3>2
    <3>4. ASSUME NEW n \in 1..m, s[n] \in S
          PROVE  \E k \in 1..Len(new) : new[k] = s[n]
      <4>1. CASE n = m
        <5>1. Len(old) + 1 \in 1..Len(new)
          BY <2>1, <3>1
        <5> QED BY <3>1, <4>1, <5>1
      <4>2. CASE n \in 1..(m - 1)
        <5>1. PICK k \in 1..Len(old) : old[k] = s[n]
          BY <2>2, <3>4, <4>2
        <5>2. k \in 1..Len(new)
          BY <2>1, <3>1
        <5> QED BY <3>1, <5>1, <5>2
      <4> QED BY <2>1, <4>1, <4>2
    <3> QED BY <3>3, <3>4 DEF new
  <2>4. CASE s[m] \notin S
    <3>1. new = old
      BY <2>1, <2>4
    <3>2. \A k \in 1..Len(new) : new[k] \in S /\ \E n \in 1..m : new[k] = s[n]
      BY <2>1, <2>2, <3>1
    <3>3. \A n \in 1..m : s[n] \in S => \E k \in 1..Len(new) : new[k] = s[n]
      BY <2>1, <2>2, <2>4, <3>1
    <3> QED BY <3>2, <3>3 DEF new
  <2> QED BY <2>3, <2>4
<1>5. N \in G
  <2> HIDE DEF G, N
  <2>1. 0..N \subseteq G
    BY <1>1, <1>3, <1>4, EachInTurn
  <2> QED BY <1>1, <2>1
<1> QED BY <1>1, <1>2, <1>5

LEMMA KeptInOrder ==
  ASSUME NEW s \in Seq(Nat), NEW S, Increasing(s)
  PROVE  Increasing(Kept(s, S))
<1> DEFINE N == Len(s)
<1>1. N \in Nat /\ \A n \in 1..N : s[n] \in Nat
  BY LenProperties, ElementOfSeq
<1>2. PICK f \in [0..N -> Seq(Nat)] :
        /\ f[0] = <<>>
        /\ \A n \in 1..N : f[n] = WithItem(f[n - 1], s[n], S)
        /\ Kept(s, S) = f[N]
  BY KeptLoop
<1> DEFINE Right(m) ==
             /\ Increasing(f[m])
             /\ \A k \in 1..Len(f[m]) : \E n \in 1..m : f[m][k] = s[n]
           G == {m \in 0..N : Right(m)}
<1>3. 0 \in G
  <2>1. Len(f[0]) = 0
    BY <1>2, EmptySeq
  <2> QED BY <1>1, <2>1 DEF Increasing
<1>4. ASSUME NEW m \in 1..N, m - 1 \in G PROVE m \in G
  <2> DEFINE old == f[m - 1]
             new == f[m]
  <2>1. m - 1 \in 0..N /\ old \in Seq(Nat) /\ Len(old) \in Nat /\ s[m] \in Nat
    BY <1>1, <1>2, LenProperties
  <2>5. new = IF s[m] \in S THEN Append(old, s[m]) ELSE old
    BY <1>2 DEF WithItem
  <2>6. /\ \A n \in 1..(m - 1) : n \in 1..m /\ n \in 1..N /\ n < m
        /\ m \in 1..m
    BY <1>1
  <2>2. Increasing(old) /\ \A k \in 1..Len(old) : \E n \in 1..(m - 1) : old[k] = s[n]
    BY <1>4
  <2> HIDE DEF old, new
  <2>3. CASE s[m] \in S
    <3>1. /\ Len(new) = Len(old) + 1
          /\ \A k \in 1..Len(old) : new[k] = old[k]
          /\ new[Len(old) + 1] = s[m]
      BY <2>1, <2>3, <2>5, AppendProperties
    <3>2. \A k \in 1..Len(new) : k \in 1..Len(old) \/ k = Len(old) + 1
      BY <2>1, <3>1
    <3>3. \A k \in 1..Len(old) : old[k] < s[m]
      BY <2>1, <2>2, <2>6 DEF Increasing
    <3>4. ASSUME NEW k \in 1..Len(new), NEW l \in 1..Len(new), k < l
          PROVE  new[k] < new[l]
      <4>1. k \in 1..Len(old)
        BY <2>1, <3>1, <3>4
      <4>2. CASE l = Len(old) + 1
        BY <3>1, <3>3, <4>1, <4>2
      <4>3. CASE l \in 1..Len(old)
        BY <2>2, <3>1, <3>4, <4>1, <4>3 DEF Increasing
      <4> QED BY <3>2, <4>2, <4>3
    <3>5. ASSUME NEW k \in 1..Len(new) PROVE \E n \in 1..m : new[k] = s[n]
      BY <2>1, <2>2, <2>6, <3>1, <3>2
    <3> QED BY <3>4, <3>5 DEF new, Increasing
  <2>4. CASE s[m] \notin S
    <3>1. new = old
      BY <2>4, <2>5
    <3>2. Increasing(new) /\ \A k \in 1..Len(new) : \E n \in 1..m : new[k] = s[n]
      BY <2>2, <2>6, <3>1
    <3> QED BY <3>2 DEF new
  <2> QED BY <2>3, <2>4
<1>5. N \in G
  <2> HIDE DEF G, N
  <2>1. 0..N \subseteq G
    BY <1>1, <1>3, <1>4, EachInTurn
  <2> QED BY <1>1, <2>1
<1> QED BY <1>2, <1>5

------------------------------------------------------------------------------
(* The pages: what follows a mark, up to the next. *)
Places(t) == 1..Len(t)
PageSet(t) == [number : Nat, lines : Seq(Places(t))]

LEMMA LinesFromIs ==
  ASSUME NEW K, NEW t \in Seq(K), NEW i \in 0..Len(t)
  PROVE  /\ LinesFrom(t, i) \in Seq(Places(t))
         /\ Increasing(LinesFrom(t, i))
         /\ \A j \in Places(t) : i < j /\ (\A m \in (i + 1)..j : t[m] # "mark") =>
              \E k \in 1..Len(LinesFrom(t, i)) : LinesFrom(t, i)[k] = j
<1> DEFINE N == Len(t)
           ends == {m \in DOMAIN t : t[m] = "mark" /\ m > i} \cup {N + 1}
           end == CHOOSE e \in ends : \A f \in ends : e <= f
           lines == [k \in 1..(end - i - 1) |-> i + k]
<1>1. N \in Nat /\ DOMAIN t = 1..N /\ i \in Nat
  BY LenProperties
<1>2. /\ ends \in SUBSET Nat /\ N + 1 \in ends
      /\ \A e \in ends : i < e /\ (e = N + 1 \/ (e \in 1..N /\ t[e] = "mark"))
  BY <1>1
<1> HIDE DEF ends
<1>3. \E e \in ends : \A f \in ends : e <= f
  BY <1>2, LeastExists
<1>4. end \in ends /\ \A f \in ends : end <= f
  BY <1>3
<1>5. end \in Nat /\ i < end /\ end <= N + 1
  BY <1>2, <1>4
<1>6. LinesFrom(t, i) = lines
  BY DEF LinesFrom, ends
<1> HIDE DEF end
<1>7. /\ lines \in [1..(end - i - 1) -> 1..N] /\ end - i - 1 \in Nat
  BY <1>1, <1>5
<1>8. lines \in Seq(1..N) /\ Len(lines) = end - i - 1
  <2> DEFINE c == end - i - 1
  <2>1. lines \in [1..c -> 1..N] /\ c \in Nat
    BY <1>7
  <2> HIDE DEF c, lines, N
  <2>2. lines \in Seq(1..N)
    <3> DEFINE T == 1..N
    <3>1. lines \in [1..c -> T]
      BY <2>1
    <3> HIDE DEF T
    <3>2. lines \in UNION {[1..n -> T] : n \in Nat}
      BY <2>1, <3>1
    <3>3. lines \in Seq(T)
      BY <3>2, SeqDef, Zenon
    <3> QED BY <3>3 DEF T
  <2>3. Len(lines) \in Nat /\ 1..Len(lines) = 1..c
    BY <2>1, <2>2, LenProperties
  <2>4. Len(lines) = c
    <3>1. \A x \in Nat : x \in 1..Len(lines) <=> x \in 1..c
      BY <2>3
    <3>2. c \in 1..Len(lines) \/ c = 0
      BY <2>1, <3>1
    <3>3. Len(lines) \in 1..c \/ Len(lines) = 0
      BY <2>3, <3>1
    <3> QED BY <2>1, <2>3, <3>2, <3>3
  <2> QED BY <2>2, <2>4 DEF c
<1>9. Increasing(lines)
  BY <1>1, <1>5, <1>8 DEF Increasing
<1>10. ASSUME NEW j \in 1..N, i < j, \A m \in (i + 1)..j : t[m] # "mark"
       PROVE  \E k \in 1..Len(lines) : lines[k] = j
  <2>1. end \notin (i + 1)..j
    BY <1>1, <1>2, <1>4, <1>10
  <2>2. j < end
    BY <1>1, <1>5, <1>10, <2>1
  <2>3. j - i \in 1..(end - i - 1)
    BY <1>1, <1>5, <1>10, <2>2
  <2>4. lines[j - i] = j
    BY <1>1, <2>3
  <2> QED BY <1>8, <2>3, <2>4
<1> HIDE DEF lines
<1> QED BY <1>6, <1>8, <1>9, <1>10 DEF Places

LEMMA SplitIs ==
  ASSUME NEW K, NEW t \in Seq(K)
  PROVE  /\ SplitPages(t) \in Seq(PageSet(t))
         /\ \A n \in 1..Len(SplitPages(t)) : Increasing(SplitPages(t)[n].lines)
         /\ \A i \in Places(t) : t[i] \notin {"mark", "blank"} =>
              \E n \in 1..Len(SplitPages(t)) : \E k \in 1..Len(SplitPages(t)[n].lines) :
                SplitPages(t)[n].lines[k] = i
<1> DEFINE N == Len(t)
           all == [i \in DOMAIN t |-> i]
           marks == {i \in DOMAIN t : t[i] = "mark"}
           starts == Kept(all, marks)
           first == [number |-> 0, lines |-> LinesFrom(t, 0)]
           marked == [n \in DOMAIN starts |->
                        [number |-> n - 1, lines |-> LinesFrom(t, starts[n])]]
           pages == SplitPages(t)
           Good(ps) == /\ ps \in Seq(PageSet(t))
                       /\ \A n \in 1..Len(ps) : Increasing(ps[n].lines)
<1>1. N \in Nat /\ DOMAIN t = 1..N /\ 0 \in 0..N
  BY LenProperties
<1>2. all \in Seq(1..N) /\ Len(all) = N /\ \A i \in 1..N : all[i] = i
  BY <1>1
<1>3. /\ starts \in Seq(1..N)
      /\ \A i \in 1..N : t[i] = "mark" => \E k \in 1..Len(starts) : starts[k] = i
  <2>1. \A i \in 1..N : t[i] = "mark" => i \in marks
    BY <1>1
  <2> HIDE DEF all, marks
  <2>2. /\ starts \in Seq(1..N)
        /\ \A n \in 1..Len(all) : all[n] \in marks =>
             \E k \in 1..Len(starts) : starts[k] = all[n]
    BY <1>2, KeptIs
  <2> HIDE DEF starts
  <2> QED BY <1>2, <2>1, <2>2
<1> HIDE DEF starts
<1>4. /\ Len(starts) \in Nat /\ DOMAIN starts = 1..Len(starts)
      /\ \A n \in 1..Len(starts) : starts[n] \in 1..N /\ starts[n] \in 0..N
  BY <1>1, <1>3, LenProperties, ElementOfSeq
<1>5. /\ first \in PageSet(t) /\ first.lines = LinesFrom(t, 0) /\ Increasing(first.lines)
  BY <1>1, LinesFromIs DEF PageSet
<1>6. /\ marked \in Seq(PageSet(t)) /\ Len(marked) = Len(starts)
      /\ \A n \in 1..Len(starts) : /\ marked[n].lines = LinesFrom(t, starts[n])
                                  /\ Increasing(marked[n].lines)
  <2>1. \A n \in 1..Len(starts) :
          LinesFrom(t, starts[n]) \in Seq(Places(t)) /\ Increasing(LinesFrom(t, starts[n]))
    BY <1>4, LinesFromIs
  <2>2. \A n \in 1..Len(starts) :
          [number |-> n - 1, lines |-> LinesFrom(t, starts[n])] \in PageSet(t)
    BY <1>4, <2>1 DEF PageSet
  <2>3. marked \in [1..Len(starts) -> PageSet(t)]
    BY <1>4, <2>2
  <2>4. \A n \in 1..Len(starts) : marked[n].lines = LinesFrom(t, starts[n])
    BY <1>4
  <2> HIDE DEF marked
  <2> QED BY <1>4, <2>1, <2>3, <2>4
<1> DEFINE both == <<first>> \o marked
<1>7. pages = IF IsBlank(t, LinesFrom(t, 0)) /\ starts # <<>> THEN marked ELSE both
  BY DEF SplitPages, starts
<1> HIDE DEF first, marked, pages
<1>8. /\ both \in Seq(PageSet(t)) /\ Len(both) = Len(starts) + 1
      /\ both[1] = first
      /\ \A n \in 1..Len(starts) : both[n + 1] = marked[n]
  <2>1. <<first>> \in Seq(PageSet(t)) /\ Len(<<first>>) = 1 /\ <<first>>[1] = first
    BY <1>5
  <2> DEFINE one == <<first>>
  <2> HIDE DEF one
  <2>2. one \in Seq(PageSet(t)) /\ Len(one) = 1 /\ one[1] = first
    BY <2>1 DEF one
  <2>7. /\ one \o marked \in Seq(PageSet(t))
        /\ Len(one \o marked) = Len(one) + Len(marked)
        /\ \A i \in 1..(Len(one) + Len(marked)) :
             (one \o marked)[i] = IF i <= Len(one) THEN one[i] ELSE marked[i - Len(one)]
    BY <1>6, <2>2, ConcatProperties
  <2>3. /\ one \o marked \in Seq(PageSet(t))
        /\ Len(one \o marked) = 1 + Len(starts)
        /\ \A i \in 1..(1 + Len(starts)) :
             (one \o marked)[i] = IF i <= 1 THEN one[i] ELSE marked[i - 1]
    BY <1>6, <2>2, <2>7
  <2>4. \A n \in 1..Len(starts) : n + 1 \in 1..(1 + Len(starts)) /\ ~(n + 1 <= 1) /\ (n + 1) - 1 = n
    BY <1>4
  <2>5. 1 \in 1..(1 + Len(starts))
    BY <1>4
  <2>6. both = one \o marked
    BY DEF one
  <2> HIDE DEF both
  <2> QED BY <1>4, <2>2, <2>3, <2>4, <2>5, <2>6
<1> HIDE DEF both
<1>9. Good(pages)
  <2>1. Good(marked)
    BY <1>6
  <2>2. Good(both)
    <3>1. ASSUME NEW n \in 1..Len(both) PROVE Increasing(both[n].lines)
      <4>1. n = 1 \/ n - 1 \in 1..Len(starts)
        BY <1>4, <1>8
      <4>2. n - 1 \in 1..Len(starts) => both[n] = marked[n - 1]
        <5>1. ASSUME n - 1 \in 1..Len(starts) PROVE both[n] = marked[n - 1]
          <6>1. both[(n - 1) + 1] = marked[n - 1]
            BY <1>8, <5>1
          <6>2. (n - 1) + 1 = n
            BY <1>4, <1>8
          <6> QED BY <6>1, <6>2
        <5> QED BY <5>1
      <4> QED BY <1>5, <1>6, <1>8, <4>1, <4>2
    <3> QED BY <1>8, <3>1
  <2> QED BY <1>7, <2>1, <2>2
<1>10. ASSUME NEW i \in 1..N, t[i] \notin {"mark", "blank"}
       PROVE  \E n \in 1..Len(pages) : \E k \in 1..Len(pages[n].lines) : pages[n].lines[k] = i
  <2> DEFINE before == {m \in 1..i : t[m] = "mark"}
  <2>1. CASE before = {}
    <3>1. \A m \in (0 + 1)..i : t[m] # "mark"
      BY <2>1
    <3>2. PICK k \in 1..Len(LinesFrom(t, 0)) : LinesFrom(t, 0)[k] = i
      BY <1>1, <3>1, LinesFromIs DEF Places
    <3>3. ~IsBlank(t, LinesFrom(t, 0))
      <4>1. DOMAIN LinesFrom(t, 0) = 1..Len(LinesFrom(t, 0))
        BY <1>1, LinesFromIs, LenProperties
      <4> QED BY <1>10, <3>2, <4>1 DEF IsBlank
    <3>4. pages[1] = first /\ 1 \in 1..Len(pages)
      BY <1>4, <1>7, <1>8, <3>3
    <3> QED BY <1>5, <3>2, <3>4
  <2>2. CASE before # {}
    <3>1. PICK m \in before : \A l \in before : l <= m
      <4>1. before \in SUBSET (0..N)
        BY <1>1
      <4> HIDE DEF before
      <4> QED BY <1>1, <2>2, <4>1, GreatestExists
    <3>2. m \in 1..N /\ m < i /\ t[m] = "mark" /\ \A l \in (m + 1)..i : t[l] # "mark"
      BY <1>1, <1>10, <3>1
    <3>3. PICK q \in 1..Len(starts) : starts[q] = m
      BY <1>3, <3>2
    <3>4. PICK k \in 1..Len(LinesFrom(t, m)) : LinesFrom(t, m)[k] = i
      BY <1>1, <3>2, LinesFromIs DEF Places
    <3>5. \E n \in 1..Len(pages) : pages[n] = marked[q]
      <4>1. q \in 1..Len(marked) /\ q + 1 \in 1..Len(both) /\ both[q + 1] = marked[q]
        BY <1>4, <1>6, <1>8
      <4> QED BY <1>7, <4>1
    <3>6. marked[q].lines = LinesFrom(t, m)
      BY <1>6, <3>3
    <3> QED BY <3>4, <3>5, <3>6
  <2> QED BY <2>1, <2>2
<1> QED BY <1>1, <1>9, <1>10 DEF pages, Places

------------------------------------------------------------------------------
(* Lines of output, and the two ways a list of them changes: by a line      *)
(* more, or by a line that continues the p-th, what came after it dropped.  *)
LineSet(K) == [of : Seq(Nat), opens : K, ends : K]

FollowedBy(a, b, c) ==
  /\ Len(c.of) = Len(a.of) + Len(b.of)
  /\ \A x \in 1..Len(a.of) : c.of[x] = a.of[x]
  /\ \A y \in 1..Len(b.of) : c.of[Len(a.of) + y] = b.of[y]
  /\ c.opens = a.opens

Grows(out, line, new) ==
  /\ Len(new) = Len(out) + 1
  /\ \A k \in 1..Len(out) : new[k] = out[k]
  /\ new[Len(out) + 1] = line

Extends(out, p, line, new) ==
  /\ p \in 1..Len(out) /\ Len(new) = p
  /\ \A k \in 1..(p - 1) : new[k] = out[k]
  /\ FollowedBy(out[p], line, new[p])

LEMMA LineIs ==
  ASSUME NEW K, NEW a \in LineSet(K)
  PROVE  /\ a.of \in Seq(Nat) /\ a.opens \in K /\ a.ends \in K
         /\ Len(a.of) \in Nat /\ \A x \in 1..Len(a.of) : a.of[x] \in Nat
<1>1. a.of \in Seq(Nat) /\ a.opens \in K /\ a.ends \in K
  BY DEF LineSet
<1> QED BY <1>1, LenProperties, ElementOfSeq

LEMMA LinesAre ==
  ASSUME NEW K, NEW out \in Seq(LineSet(K))
  PROVE  /\ Len(out) \in Nat /\ DOMAIN out = 1..Len(out)
         /\ \A k \in 1..Len(out) :
              /\ out[k] \in LineSet(K) /\ out[k].of \in Seq(Nat)
              /\ Len(out[k].of) \in Nat /\ DOMAIN out[k].of = 1..Len(out[k].of)
              /\ \A x \in 1..Len(out[k].of) : out[k].of[x] \in Nat
<1>1. \A k \in 1..Len(out) : out[k] \in LineSet(K)
  BY ElementOfSeq
<1>2. \A k \in 1..Len(out) : out[k].of \in Seq(Nat)
  BY <1>1, LineIs
<1>3. \A k \in 1..Len(out) : DOMAIN out[k].of = 1..Len(out[k].of)
  BY <1>2, LenProperties
<1> QED BY <1>1, <1>2, <1>3, LineIs, LenProperties

LEMMA PlainIs ==
  ASSUME NEW K, NEW t \in Seq(K), NEW i \in Places(t)
  PROVE  /\ Plain(t, i) \in LineSet(K)
         /\ Len(Plain(t, i).of) = 1 /\ Plain(t, i).of[1] = i
         /\ Plain(t, i).opens = t[i] /\ Plain(t, i).ends = t[i]
<1>1. t[i] \in K /\ i \in Nat
  BY ElementOfSeq, LenProperties DEF Places
<1>2. <<i>> \in Seq(Nat) /\ Len(<<i>>) = 1 /\ <<i>>[1] = i
  BY <1>1
<1> QED BY <1>1, <1>2 DEF Plain, LineSet

LEMMA JoinedIs ==
  ASSUME NEW K, NEW a \in LineSet(K), NEW b \in LineSet(K)
  PROVE  /\ Joined(a, b) \in LineSet(K)
         /\ FollowedBy(a, b, Joined(a, b))
         /\ Joined(a, b).ends = b.ends
<1> DEFINE u == a.of
           v == b.of
<1>1. /\ u \in Seq(Nat) /\ v \in Seq(Nat) /\ Len(u) \in Nat /\ Len(v) \in Nat
      /\ a.opens \in K /\ b.ends \in K
  BY LineIs
<1>2. Joined(a, b) = [of |-> u \o v, opens |-> a.opens, ends |-> b.ends]
  BY DEF Joined
<1> HIDE DEF u, v
<1>3. /\ u \o v \in Seq(Nat) /\ Len(u \o v) = Len(u) + Len(v)
      /\ \A i \in 1..(Len(u) + Len(v)) :
           (u \o v)[i] = IF i <= Len(u) THEN u[i] ELSE v[i - Len(u)]
  BY <1>1, ConcatProperties
<1>4. /\ \A x \in 1..Len(u) : (u \o v)[x] = u[x]
      /\ \A y \in 1..Len(v) : (u \o v)[Len(u) + y] = v[y]
  BY <1>1, <1>3
<1> QED BY <1>1, <1>2, <1>3, <1>4 DEF FollowedBy, LineSet, u, v

LEMMA ContinuedIs ==
  ASSUME NEW K, "prose" \in K, NEW a \in LineSet(K), NEW b \in LineSet(K)
  PROVE  /\ Continued(a, b) \in LineSet(K)
         /\ FollowedBy(a, b, Continued(a, b))
         /\ Continued(a, b).ends = IF b.ends = "hard" THEN "prose" ELSE b.ends
<1> DEFINE c == Joined(a, b)
<1>1. c \in LineSet(K) /\ FollowedBy(a, b, c) /\ c.ends = b.ends /\ b.ends \in K
  BY JoinedIs, LineIs
<1>2. Continued(a, b) = [c EXCEPT !.ends = IF @ = "hard" THEN "prose" ELSE @]
  BY DEF Continued
<1> HIDE DEF c
<1>3. /\ Continued(a, b) \in LineSet(K)
      /\ Continued(a, b).of = c.of /\ Continued(a, b).opens = c.opens
      /\ Continued(a, b).ends = IF b.ends = "hard" THEN "prose" ELSE b.ends
  BY <1>1, <1>2 DEF LineSet
<1> QED BY <1>1, <1>3 DEF FollowedBy

LEMMA AppendGrows ==
  ASSUME NEW K, NEW out \in Seq(LineSet(K)), NEW line \in LineSet(K)
  PROVE  Append(out, line) \in Seq(LineSet(K)) /\ Grows(out, line, Append(out, line))
  BY AppendProperties DEF Grows

(* Lines joined at a hyphen.                                                *)
WithLineTo(t, out, i, new) ==
  \/ Grows(out, Plain(t, i), new)
  \/ /\ t[i] \in OpensWithWord
     /\ \E p \in 1..Len(out) :
          /\ Extends(out, p, Plain(t, i), new)
          /\ out[p].ends = "hyphen" /\ new[p].ends = t[i]
          /\ \A q \in (p + 1)..Len(out) : out[q].opens = "blank"

LEMMA WithLineIs ==
  ASSUME NEW K, NEW t \in Seq(K), NEW out \in Seq(LineSet(K)), NEW i \in Places(t)
  PROVE  /\ WithLine(t, out, i) \in Seq(LineSet(K))
         /\ WithLineTo(t, out, i, WithLine(t, out, i))
<1> DEFINE p == LastSaid(out)
           said == {k \in DOMAIN out : out[k].opens # "blank"}
           line == Plain(t, i)
           new == WithLine(t, out, i)
<1>1. /\ Len(out) \in Nat /\ DOMAIN out = 1..Len(out)
      /\ \A k \in 1..Len(out) : out[k] \in LineSet(K)
      /\ line \in LineSet(K) /\ line.ends = t[i]
  BY LinesAre, PlainIs
<1>2. p = 0 \/ (p \in said /\ \A l \in said : l <= p)
  <2>1. CASE said = {}
    BY <2>1 DEF LastSaid
  <2>2. CASE said # {}
    <3>1. said \in SUBSET (0..Len(out))
      BY <1>1
    <3>2. p = CHOOSE k \in said : \A l \in said : l <= k
      BY <2>2 DEF LastSaid
    <3> HIDE DEF said, p
    <3>3. \E k \in said : \A l \in said : l <= k
      BY <1>1, <2>2, <3>1, GreatestExists
    <3> QED BY <3>2, <3>3
  <2> QED BY <2>1, <2>2
<1>3. CASE t[i] \in OpensWithWord /\ p > 0 /\ out[p].ends = "hyphen"
  <2>1. /\ p \in 1..Len(out) /\ p - 1 \in Nat
        /\ \A q \in (p + 1)..Len(out) : out[q].opens = "blank"
    BY <1>1, <1>2, <1>3
  <2> DEFINE head == SubSeq(out, 1, p - 1)
             last == Joined(out[p], line)
  <2>2. new = Append(head, last)
    BY <1>3 DEF WithLine
  <2> HIDE DEF p, line, new
  <2>3. \A k \in 1..(p - 1) : out[k] \in LineSet(K)
    BY <1>1, <2>1
  <2>4. /\ head \in Seq(LineSet(K))
        /\ Len(head) = IF 1 <= p - 1 THEN (p - 1) - 1 + 1 ELSE 0
        /\ \A k \in 1..((p - 1) - 1 + 1) : head[k] = out[1 + k - 1]
    BY <2>1, <2>3, SubSeqProperties
  <2>5. Len(head) = p - 1 /\ \A k \in 1..(p - 1) : head[k] = out[k]
    BY <2>1, <2>4
  <2>6. last \in LineSet(K) /\ FollowedBy(out[p], line, last) /\ last.ends = t[i]
    BY <1>1, <2>1, JoinedIs
  <2> HIDE DEF head, last
  <2>7. /\ new \in Seq(LineSet(K)) /\ Len(new) = (p - 1) + 1
        /\ \A k \in 1..(p - 1) : new[k] = head[k]
        /\ new[(p - 1) + 1] = last
    BY <2>2, <2>4, <2>5, <2>6, AppendProperties
  <2>8. /\ Len(new) = p /\ new[p] = last /\ \A k \in 1..(p - 1) : new[k] = out[k]
    BY <2>1, <2>5, <2>7
  <2>9. Extends(out, p, line, new)
    BY <2>1, <2>6, <2>8 DEF Extends
  <2> QED BY <1>3, <2>1, <2>6, <2>7, <2>8, <2>9 DEF WithLineTo, line, new
<1>4. CASE ~(t[i] \in OpensWithWord /\ p > 0 /\ out[p].ends = "hyphen")
  <2>1. new = Append(out, line)
    BY <1>4 DEF WithLine
  <2> QED BY <1>1, <2>1, AppendGrows DEF WithLineTo
<1> QED BY <1>3, <1>4

------------------------------------------------------------------------------
(* What the lines of output are made of, and in which order.                *)
InLine(line, i) == \E x \in 1..Len(line.of) : line.of[x] = i
InLines(out, i) == \E k \in 1..Len(out) : InLine(out[k], i)
Ascending(line) == \A x, y \in 1..Len(line.of) : x < y => line.of[x] < line.of[y]
AllBefore(a, b) ==
  \A x \in 1..Len(a.of), y \in 1..Len(b.of) : a.of[x] < b.of[y]
InOrderOf(out) ==
  /\ \A k \in 1..Len(out) : Ascending(out[k])
  /\ \A k, l \in 1..Len(out) : k < l => AllBefore(out[k], out[l])
AllLinesBefore(out, line) == \A k \in 1..Len(out) : AllBefore(out[k], line)

LEMMA GrowsHas ==
  ASSUME NEW K, NEW out \in Seq(LineSet(K)), NEW line \in LineSet(K),
         NEW new \in Seq(LineSet(K)), Grows(out, line, new)
  PROVE  \A i : InLines(new, i) <=> InLines(out, i) \/ InLine(line, i)
<1>1. /\ Len(out) \in Nat /\ Len(new) = Len(out) + 1
      /\ \A k \in 1..Len(out) : new[k] = out[k] /\ k \in 1..Len(new)
      /\ new[Len(out) + 1] = line /\ Len(out) + 1 \in 1..Len(new)
      /\ \A k \in 1..Len(new) : k \in 1..Len(out) \/ k = Len(out) + 1
  BY LenProperties DEF Grows
<1> QED BY <1>1 DEF InLines

LEMMA FollowedByHas ==
  ASSUME NEW K, NEW a \in LineSet(K), NEW b \in LineSet(K), NEW c \in LineSet(K),
         FollowedBy(a, b, c)
  PROVE  /\ \A i : InLine(c, i) <=> InLine(a, i) \/ InLine(b, i)
         /\ Ascending(a) /\ Ascending(b) /\ AllBefore(a, b) => Ascending(c)
<1> DEFINE m == Len(a.of)
           n == Len(b.of)
<1>0. /\ m \in Nat /\ n \in Nat /\ Len(c.of) = m + n
      /\ \A x \in 1..m : c.of[x] = a.of[x]
      /\ \A y \in 1..n : c.of[m + y] = b.of[y]
  BY LineIs DEF FollowedBy
<1> HIDE DEF m, n
<1>1. /\ m \in Nat /\ n \in Nat /\ Len(c.of) = m + n
      /\ \A x \in 1..m : c.of[x] = a.of[x] /\ x \in 1..(m + n)
      /\ \A y \in 1..n : c.of[m + y] = b.of[y] /\ m + y \in 1..(m + n)
      /\ \A z \in 1..(m + n) : z \in 1..m \/ (z - m \in 1..n /\ z = m + (z - m))
  BY <1>0
<1>2. \A z \in 1..(m + n) : z \in 1..m \/ \E y \in 1..n : z = m + y
  BY <1>1
<1>3. ASSUME NEW i PROVE InLine(c, i) <=> InLine(a, i) \/ InLine(b, i)
  <2>1. ASSUME InLine(c, i) PROVE InLine(a, i) \/ InLine(b, i)
    <3>1. PICK z \in 1..(m + n) : c.of[z] = i
      BY <1>1, <2>1 DEF InLine
    <3>2. CASE z \in 1..m
      BY <1>1, <3>1, <3>2 DEF InLine, m
    <3>3. ASSUME NEW y \in 1..n, z = m + y PROVE InLine(b, i)
      BY <1>1, <3>1, <3>3 DEF InLine, n
    <3> QED BY <1>2, <3>2, <3>3
  <2>2. ASSUME InLine(a, i) PROVE InLine(c, i)
    BY <1>1, <2>2 DEF InLine, m
  <2>3. ASSUME InLine(b, i) PROVE InLine(c, i)
    BY <1>1, <2>3 DEF InLine, n
  <2> QED BY <2>1, <2>2, <2>3
<1>4. ASSUME Ascending(a), Ascending(b), AllBefore(a, b),
             NEW x \in 1..(m + n), NEW y \in 1..(m + n), x < y
      PROVE  c.of[x] < c.of[y]
  <2>1. CASE y \in 1..m
    <3>1. x \in 1..m
      BY <1>1, <1>4, <2>1
    <3> QED BY <1>1, <1>4, <2>1, <3>1 DEF Ascending, m
  <2>2. ASSUME NEW w \in 1..n, y = m + w PROVE c.of[x] < c.of[y]
    <3>1. CASE x \in 1..m
      BY <1>1, <1>4, <2>2, <3>1 DEF AllBefore, m, n
    <3>2. ASSUME NEW v \in 1..n, x = m + v PROVE c.of[x] < c.of[y]
      <4>1. v < w
        BY <1>1, <1>4, <2>2, <3>2
      <4> QED BY <1>1, <1>4, <2>2, <3>2, <4>1 DEF Ascending, n
    <3> QED BY <1>2, <3>1, <3>2
  <2> QED BY <1>2, <2>1, <2>2
<1> QED BY <1>1, <1>3, <1>4 DEF Ascending

LEMMA ExtendsHas ==
  ASSUME NEW K, NEW out \in Seq(LineSet(K)), NEW line \in LineSet(K), NEW p,
         NEW new \in Seq(LineSet(K)), Extends(out, p, line, new)
  PROVE  \A i :
           /\ InLines(new, i) => InLines(out, i) \/ InLine(line, i)
           /\ InLine(line, i) => InLines(new, i)
           /\ InLines(out, i) =>
                InLines(new, i) \/ \E q \in (p + 1)..Len(out) : InLine(out[q], i)
<1>1. /\ Len(out) \in Nat /\ p \in 1..Len(out) /\ Len(new) = p
      /\ \A k \in 1..(p - 1) : new[k] = out[k]
      /\ FollowedBy(out[p], line, new[p])
      /\ \A k \in 1..Len(new) : (k \in 1..(p - 1) \/ k = p) /\ k \in 1..Len(out)
      /\ \A k \in 1..Len(out) : k \in 1..(p - 1) \/ k = p \/ k \in (p + 1)..Len(out)
      /\ \A k \in 1..(p - 1) : k \in 1..Len(new)
      /\ p \in 1..Len(new)
      /\ out[p] \in LineSet(K) /\ new[p] \in LineSet(K)
  BY LinesAre DEF Extends
<1>2. \A i : InLine(new[p], i) <=> InLine(out[p], i) \/ InLine(line, i)
  BY <1>1, FollowedByHas
<1>3. ASSUME NEW i, InLines(new, i) PROVE InLines(out, i) \/ InLine(line, i)
  BY <1>1, <1>2, <1>3 DEF InLines
<1>4. ASSUME NEW i, InLine(line, i) PROVE InLines(new, i)
  BY <1>1, <1>2, <1>4 DEF InLines
<1>5. ASSUME NEW i, InLines(out, i)
      PROVE  InLines(new, i) \/ \E q \in (p + 1)..Len(out) : InLine(out[q], i)
  BY <1>1, <1>2, <1>5 DEF InLines
<1> QED BY <1>3, <1>4, <1>5

LEMMA GrowsOrdered ==
  ASSUME NEW K, NEW out \in Seq(LineSet(K)), NEW line \in LineSet(K),
         NEW new \in Seq(LineSet(K)), Grows(out, line, new),
         InOrderOf(out), Ascending(line), AllLinesBefore(out, line)
  PROVE  InOrderOf(new)
<1>1. /\ Len(out) \in Nat /\ Len(new) = Len(out) + 1
      /\ \A k \in 1..Len(out) : new[k] = out[k]
      /\ new[Len(out) + 1] = line
      /\ \A k \in 1..Len(new) : k \in 1..Len(out) \/ k = Len(out) + 1
  BY LenProperties DEF Grows
<1>2. \A k \in 1..Len(new) : Ascending(new[k])
  BY <1>1 DEF InOrderOf
<1>3. ASSUME NEW k \in 1..Len(new), NEW l \in 1..Len(new), k < l
      PROVE  AllBefore(new[k], new[l])
  <2>1. k \in 1..Len(out)
    BY <1>1, <1>3
  <2>2. CASE l \in 1..Len(out)
    BY <1>1, <1>3, <2>1, <2>2 DEF InOrderOf
  <2>3. CASE l = Len(out) + 1
    BY <1>1, <2>1, <2>3 DEF AllLinesBefore
  <2> QED BY <1>1, <2>2, <2>3
<1> QED BY <1>2, <1>3 DEF InOrderOf

LEMMA ExtendsOrdered ==
  ASSUME NEW K, NEW out \in Seq(LineSet(K)), NEW line \in LineSet(K), NEW p,
         NEW new \in Seq(LineSet(K)), Extends(out, p, line, new),
         InOrderOf(out), Ascending(line), AllLinesBefore(out, line)
  PROVE  InOrderOf(new)
<1>1. /\ Len(out) \in Nat /\ p \in 1..Len(out) /\ Len(new) = p
      /\ \A k \in 1..(p - 1) : new[k] = out[k] /\ k \in 1..Len(out)
      /\ FollowedBy(out[p], line, new[p])
      /\ \A k \in 1..Len(new) : k \in 1..(p - 1) \/ k = p
      /\ out[p] \in LineSet(K) /\ new[p] \in LineSet(K)
  BY LinesAre DEF Extends
<1>2. /\ \A i : InLine(new[p], i) <=> InLine(out[p], i) \/ InLine(line, i)
      /\ Ascending(new[p])
  BY <1>1, FollowedByHas DEF InOrderOf, AllLinesBefore
<1>3. \A k \in 1..Len(new) : Ascending(new[k])
  BY <1>1, <1>2 DEF InOrderOf
<1>4. ASSUME NEW k \in 1..Len(new), NEW l \in 1..Len(new), k < l
      PROVE  AllBefore(new[k], new[l])
  <2>1. k \in 1..(p - 1) /\ k < p /\ k \in 1..Len(out)
    BY <1>1, <1>4
  <2>2. CASE l \in 1..(p - 1)
    BY <1>1, <1>4, <2>1, <2>2 DEF InOrderOf
  <2>3. CASE l = p
    <3>1. AllBefore(out[k], out[p]) /\ AllBefore(out[k], line)
      BY <1>1, <2>1 DEF InOrderOf, AllLinesBefore
    <3>2. ASSUME NEW x \in 1..Len(out[k].of), NEW y \in 1..Len(new[p].of)
          PROVE  out[k].of[x] < new[p].of[y]
      <4>1. InLine(new[p], new[p].of[y])
        BY DEF InLine
      <4>2. InLine(out[p], new[p].of[y]) \/ InLine(line, new[p].of[y])
        BY <1>2, <4>1
      <4> QED BY <3>1, <4>2 DEF InLine, AllBefore
    <3> QED BY <1>1, <2>1, <2>3, <3>2 DEF AllBefore
  <2> QED BY <1>1, <2>2, <2>3
<1> QED BY <1>3, <1>4 DEF InOrderOf

------------------------------------------------------------------------------
LEMMA JoinLoop ==
  ASSUME NEW K, NEW t \in Seq(K), NEW lines \in Seq(Places(t))
  PROVE  \E f \in [0..Len(lines) -> Seq(LineSet(K))] :
           /\ f[0] = <<>>
           /\ \A n \in 1..Len(lines) :
                f[n] = WithLine(t, f[n - 1], lines[n])
           /\ JoinHyphens(t, lines) = f[Len(lines)]
<1> DEFINE N == Len(lines)
           step == [x \in (1..N) \X Seq(LineSet(K)) |-> WithLine(t, x[2], lines[x[1]])]
           Loop(f) == f = [n \in 0..N |-> IF n = 0 THEN <<>>
                                          ELSE WithLine(t, f[n - 1], lines[n])]
<1>1. N \in Nat /\ <<>> \in Seq(LineSet(K))
  BY EmptySeq, LenProperties
<1>0. \A n \in 1..N : lines[n] \in Places(t)
  BY ElementOfSeq
<1> HIDE DEF N
<1>2. step \in [(1..N) \X Seq(LineSet(K)) -> Seq(LineSet(K))]
  <2>1. ASSUME NEW n \in 1..N, NEW out \in Seq(LineSet(K))
        PROVE  WithLine(t, out, lines[n]) \in Seq(LineSet(K))
    BY <1>0, WithLineIs
  <2> QED BY <2>1
<1>3. PICK g \in [0..N -> Seq(LineSet(K))] :
        g[0] = <<>> /\ \A n \in 1..N : g[n] = step[<<n, g[n - 1]>>]
  <2> DEFINE none == <<>>
  <2>1. none \in Seq(LineSet(K))
    BY <1>1
  <2> HIDE DEF step, none
  <2>2. Loops(Seq(LineSet(K)), none, N, step) # {}
    BY <1>1, <1>2, <2>1, LoopExists
  <2> QED BY <2>2 DEF none, Loops
<1>4. Loop(g)
  <2>1. ASSUME NEW n \in 1..N PROVE g[n] = WithLine(t, g[n - 1], lines[n])
    <3>1. n - 1 \in 0..N /\ g[n - 1] \in Seq(LineSet(K))
      BY <1>1, <1>3
    <3> QED BY <1>3, <3>1
  <2> HIDE DEF step
  <2>2. g = [n \in 0..N |-> g[n]]
    BY <1>3
  <2>3. \A n \in 0..N : n # 0 => n \in 1..N
    BY <1>1
  <2> QED BY <1>3, <2>1, <2>2, <2>3
<1>5. JoinHyphens(t, lines) = (CHOOSE f : Loop(f))[N]
  BY DEF JoinHyphens, N
<1> HIDE DEF Loop
<1>6. PICK f : Loop(f) /\ JoinHyphens(t, lines) = f[N]
  BY <1>4, <1>5
<1>7. f \in [0..N -> Seq(LineSet(K))]
  <2> DEFINE G == {n \in 0..N : f[n] \in Seq(LineSet(K))}
  <2>1. 0 \in G
    BY <1>1, <1>6 DEF Loop
  <2>2. ASSUME NEW n \in 1..N, n - 1 \in G PROVE n \in G
    <3>1. f[n] = WithLine(t, f[n - 1], lines[n])
      BY <1>1, <1>6 DEF Loop
    <3>2. f[n - 1] \in Seq(LineSet(K)) /\ lines[n] \in Places(t)
      BY <1>0, <2>2
    <3>3. f[n] \in Seq(LineSet(K))
      BY <3>1, <3>2, WithLineIs
    <3> QED BY <1>1, <3>3
  <2>3. 0..N \subseteq G
    <3> HIDE DEF G
    <3> QED BY <1>1, <2>1, <2>2, EachInTurn
  <2> QED BY <1>6, <2>3 DEF Loop
<1>8. f[0] = <<>> /\ \A n \in 1..N : f[n] = WithLine(t, f[n - 1], lines[n])
  BY <1>1, <1>6 DEF Loop
<1> QED BY <1>6, <1>7, <1>8 DEF N

(* A joined line is made of lines that end in a hyphen and one more, and    *)
(* each that follows one opens with a word.                                 *)
JoinedLine(t, line) ==
  LET m == Len(line.of)
  IN /\ m >= 1 /\ line.opens = t[line.of[1]] /\ line.ends = t[line.of[m]]
     /\ \A j \in 2..m : t[line.of[j - 1]] = "hyphen" /\ t[line.of[j]] \in OpensWithWord

JoinedTo(t, lines, n, out) ==
  /\ \A k \in 1..Len(out) : JoinedLine(t, out[k])
  /\ InOrderOf(out)
  /\ \A i : InLines(out, i) => \E m \in 1..n : lines[m] = i
  /\ \A m \in 1..n : t[lines[m]] # "blank" => InLines(out, lines[m])

LEMMA PlainJoined ==
  ASSUME NEW K, NEW t \in Seq(K), NEW i \in Places(t)
  PROVE  /\ JoinedLine(t, Plain(t, i)) /\ Ascending(Plain(t, i))
         /\ \A j : InLine(Plain(t, i), j) <=> j = i
<1> DEFINE line == Plain(t, i)
<1>1. /\ Len(line.of) = 1 /\ line.of[1] = i
      /\ line.opens = t[i] /\ line.ends = t[i]
  BY PlainIs
<1> HIDE DEF line
<1> QED BY <1>1 DEF JoinedLine, Ascending, InLine, line

LEMMA FollowedByJoined ==
  ASSUME NEW K, NEW t \in Seq(K), NEW i \in Places(t), NEW a \in LineSet(K),
         NEW c \in LineSet(K), FollowedBy(a, Plain(t, i), c),
         JoinedLine(t, a), a.ends = "hyphen", c.ends = t[i], t[i] \in OpensWithWord
  PROVE  JoinedLine(t, c)
<1> DEFINE m == Len(a.of)
           b == Plain(t, i)
<1>1. /\ Len(b.of) = 1 /\ b.of[1] = i
  BY PlainIs
<1>2. /\ m \in Nat /\ Len(c.of) = m + 1 /\ c.of[m + 1] = i /\ c.opens = a.opens
      /\ \A x \in 1..m : c.of[x] = a.of[x]
  <2> HIDE DEF b
  <2>1. \A y \in 1..1 : c.of[m + y] = b.of[y]
    BY <1>1 DEF FollowedBy, b
  <2> QED BY <1>1, <2>1, LineIs DEF FollowedBy, b
<1>3. /\ m >= 1 /\ a.opens = t[a.of[1]] /\ a.ends = t[a.of[m]]
      /\ \A j \in 2..m : t[a.of[j - 1]] = "hyphen" /\ t[a.of[j]] \in OpensWithWord
  BY DEF JoinedLine
<1> HIDE DEF m, b
<1>4. ASSUME NEW j \in 2..(m + 1)
      PROVE  t[c.of[j - 1]] = "hyphen" /\ t[c.of[j]] \in OpensWithWord
  <2>1. j - 1 \in 1..m /\ (j \in 2..m \/ (j = m + 1 /\ j - 1 = m))
    BY <1>2
  <2>2. CASE j \in 2..m
    <3>1. j \in 1..m
      BY <1>2, <2>2
    <3> QED BY <1>2, <1>3, <2>1, <2>2, <3>1
  <2>3. CASE j = m + 1
    BY <1>2, <1>3, <2>1, <2>3
  <2> QED BY <2>1, <2>2, <2>3
<1>5. 1 \in 1..m
  BY <1>2, <1>3
<1> QED BY <1>2, <1>3, <1>4, <1>5 DEF JoinedLine

LEMMA JoinedStep ==
  ASSUME NEW K, NEW t \in Seq(K), NEW lines \in Seq(Places(t)), Increasing(lines),
         NEW n \in 1..Len(lines), NEW out \in Seq(LineSet(K)),
         JoinedTo(t, lines, n - 1, out)
  PROVE  JoinedTo(t, lines, n, WithLine(t, out, lines[n]))
<1> DEFINE i == lines[n]
           line == Plain(t, i)
           new == WithLine(t, out, i)
<1>1. /\ i \in Places(t) /\ line \in LineSet(K) /\ new \in Seq(LineSet(K))
      /\ WithLineTo(t, out, i, new) /\ Len(lines) \in Nat
      /\ \A m \in 1..n : m \in 1..(n - 1) \/ m = n
      /\ \A m \in 1..(n - 1) : m \in 1..n /\ m \in 1..Len(lines) /\ m < n
      /\ n \in 1..n
  BY ElementOfSeq, LenProperties, PlainIs, WithLineIs
<1>2. /\ JoinedLine(t, line) /\ Ascending(line)
      /\ \A j : InLine(line, j) <=> j = i
  BY <1>1, PlainJoined
<1>3. /\ \A k \in 1..Len(out) : JoinedLine(t, out[k])
      /\ InOrderOf(out)
      /\ \A j : InLines(out, j) => \E m \in 1..(n - 1) : lines[m] = j
      /\ \A m \in 1..(n - 1) : t[lines[m]] # "blank" => InLines(out, lines[m])
  BY DEF JoinedTo
<1>4. \A m \in 1..(n - 1) : lines[m] < i
  BY <1>1 DEF Increasing
<1> HIDE DEF new, line
<1>5. AllLinesBefore(out, line)
  <2>1. ASSUME NEW k \in 1..Len(out), NEW x \in 1..Len(out[k].of),
               NEW y \in 1..Len(line.of)
        PROVE  out[k].of[x] < line.of[y]
    <3>1. InLines(out, out[k].of[x])
      BY DEF InLines, InLine
    <3>2. line.of[y] = i
      BY <1>2 DEF InLine
    <3>3. PICK m \in 1..(n - 1) : lines[m] = out[k].of[x]
      BY <1>3, <3>1
    <3> HIDE DEF i
    <3> QED BY <1>4, <3>2, <3>3
  <2> QED BY <2>1 DEF AllLinesBefore, AllBefore
<1>6. CASE Grows(out, line, new)
  <2>1. \A j : InLines(new, j) <=> InLines(out, j) \/ InLine(line, j)
    BY <1>1, <1>6, GrowsHas
  <2>2. InOrderOf(new)
    BY <1>1, <1>2, <1>3, <1>5, <1>6, GrowsOrdered
  <2>3. \A k \in 1..Len(new) : JoinedLine(t, new[k])
    <3>1. \A k \in 1..Len(new) : k \in 1..Len(out) \/ k = Len(out) + 1
      BY <1>6, LenProperties DEF Grows
    <3> QED BY <1>2, <1>3, <1>6, <3>1 DEF Grows
  <2>4. ASSUME NEW j, InLines(new, j) PROVE \E m \in 1..n : lines[m] = j
    BY <1>1, <1>2, <1>3, <2>1, <2>4
  <2>5. ASSUME NEW m \in 1..n, t[lines[m]] # "blank" PROVE InLines(new, lines[m])
    <3>1. CASE m = n
      BY <1>2, <2>1, <3>1
    <3>2. CASE m \in 1..(n - 1)
      BY <1>3, <2>1, <2>5, <3>2
    <3> QED BY <1>1, <3>1, <3>2
  <2> QED BY <2>2, <2>3, <2>4, <2>5 DEF JoinedTo, new
<1>7. ASSUME t[i] \in OpensWithWord, NEW p \in 1..Len(out),
             Extends(out, p, line, new), out[p].ends = "hyphen", new[p].ends = t[i],
             \A q \in (p + 1)..Len(out) : out[q].opens = "blank"
      PROVE  JoinedTo(t, lines, n, new)
  <2>1. \A j :
           /\ InLines(new, j) => InLines(out, j) \/ InLine(line, j)
           /\ InLine(line, j) => InLines(new, j)
           /\ InLines(out, j) =>
                InLines(new, j) \/ \E q \in (p + 1)..Len(out) : InLine(out[q], j)
    BY <1>1, <1>7, ExtendsHas
  <2>2. InOrderOf(new)
    BY <1>1, <1>2, <1>3, <1>5, <1>7, ExtendsOrdered
  <2>3. \A k \in 1..Len(new) : JoinedLine(t, new[k])
    <3>1. /\ \A k \in 1..Len(new) : (k \in 1..(p - 1) /\ k \in 1..Len(out)) \/ k = p
          /\ Len(new) = p /\ p \in 1..Len(new)
          /\ \A k \in 1..(p - 1) : new[k] = out[k]
          /\ FollowedBy(out[p], line, new[p])
      BY <1>1, <1>7, LinesAre DEF Extends
    <3>2. out[p] \in LineSet(K) /\ new[p] \in LineSet(K)
      BY <1>1, <1>7, <3>1, LinesAre
    <3>3. JoinedLine(t, new[p])
      <4>1. FollowedBy(out[p], Plain(t, i), new[p])
        BY <3>1 DEF line
      <4> HIDE DEF i
      <4> QED BY <1>1, <1>3, <1>7, <3>2, <4>1, FollowedByJoined
    <3> QED BY <1>3, <3>1, <3>3
  <2>4. ASSUME NEW j, InLines(new, j) PROVE \E m \in 1..n : lines[m] = j
    BY <1>1, <1>2, <1>3, <2>1, <2>4
  <2>5. ASSUME NEW m \in 1..n, t[lines[m]] # "blank" PROVE InLines(new, lines[m])
    <3>1. CASE m = n
      BY <1>2, <2>1, <3>1
    <3>2. CASE m \in 1..(n - 1)
      <4>1. InLines(out, lines[m])
        BY <1>3, <2>5, <3>2
      <4>2. ASSUME NEW q \in (p + 1)..Len(out), InLine(out[q], lines[m]) PROVE FALSE
        <5>1. q \in 1..Len(out) /\ Len(out[q].of) \in Nat
          BY <1>7, LinesAre
        <5> DEFINE w == Len(out[q].of)
        <5>2. /\ w \in Nat /\ w >= 1 /\ t[out[q].of[1]] = "blank"
              /\ \A j \in 2..w : t[out[q].of[j - 1]] = "hyphen"
          BY <1>3, <1>7, <5>1 DEF JoinedLine
        <5>3. PICK x \in 1..w : out[q].of[x] = lines[m]
          BY <4>2 DEF InLine
        <5> HIDE DEF w
        <5>4. w < 2
          <6>1. CASE w >= 2
            <7>1. 2 \in 2..w
              BY <5>2, <6>1
            <7>2. t[out[q].of[2 - 1]] = "hyphen"
              BY <5>2, <7>1
            <7> QED BY <5>2, <7>2
          <6> QED BY <5>2, <6>1
        <5>5. x = 1
          BY <5>2, <5>4
        <5> QED BY <2>5, <5>2, <5>3, <5>5
      <4> QED BY <2>1, <4>1, <4>2
    <3> QED BY <1>1, <3>1, <3>2
  <2> QED BY <2>2, <2>3, <2>4, <2>5 DEF JoinedTo
<1>8. Grows(out, line, new) \/
      (t[i] \in OpensWithWord /\ \E p \in 1..Len(out) :
          /\ Extends(out, p, line, new)
          /\ out[p].ends = "hyphen" /\ new[p].ends = t[i]
          /\ \A q \in (p + 1)..Len(out) : out[q].opens = "blank")
  BY <1>1 DEF WithLineTo, line
<1> QED BY <1>6, <1>7, <1>8 DEF new

(* A page loses no line that says anything, and keeps their order.          *)
LEMMA JoinedIsWhole ==
  ASSUME NEW K, NEW t \in Seq(K), NEW lines \in Seq(Places(t)), Increasing(lines)
  PROVE  /\ JoinHyphens(t, lines) \in Seq(LineSet(K))
         /\ JoinedTo(t, lines, Len(lines), JoinHyphens(t, lines))
<1> DEFINE N == Len(lines)
<1>1. N \in Nat
  BY LenProperties
<1>2. PICK f \in [0..N -> Seq(LineSet(K))] :
        /\ f[0] = <<>>
        /\ \A n \in 1..N : f[n] = WithLine(t, f[n - 1], lines[n])
        /\ JoinHyphens(t, lines) = f[N]
  BY JoinLoop
<1> DEFINE G == {n \in 0..N : JoinedTo(t, lines, n, f[n])}
<1>3. 0 \in G
  <2>1. Len(f[0]) = 0
    BY <1>2, EmptySeq
  <2>2. JoinedTo(t, lines, 0, f[0])
    BY <2>1 DEF JoinedTo, InOrderOf, InLines
  <2> QED BY <1>1, <2>2
<1>4. ASSUME NEW n \in 1..N, n - 1 \in G PROVE n \in G
  <2>1. f[n - 1] \in Seq(LineSet(K)) /\ JoinedTo(t, lines, n - 1, f[n - 1])
    BY <1>1, <1>2, <1>4
  <2>2. JoinedTo(t, lines, n, WithLine(t, f[n - 1], lines[n]))
    BY <2>1, JoinedStep
  <2> QED BY <1>1, <1>2, <2>2
<1>5. N \in G
  <2> HIDE DEF G, N
  <2>1. 0..N \subseteq G
    BY <1>1, <1>3, <1>4, EachInTurn
  <2> QED BY <1>1, <2>1
<1> QED BY <1>1, <1>2, <1>5

------------------------------------------------------------------------------
(* What reflow remembers, said of the lines it has written.                 *)
FenceAt(out, k) == OpenFence(out)[k]
AtStart(out) ==
  LET m == Len(out) IN m = 0 \/ (out[m].opens = "blank" /\ ~InCode(out, m))
Remembered(st) ==
  /\ st.fence = FenceAt(st.out, Len(st.out))
  /\ st.start <=> AtStart(st.out)
  /\ ~st.start => /\ Opener(st.out, Len(st.out)) = "note" => st.notes
                  /\ st.notes => Opener(st.out, Len(st.out)) \in {"note"} \cup Fences

(* And what is right about line k of them.                                  *)
Stripped(line, j) == \E l \in 2..j : text[line.of[l - 1]] # "hyphen"
Made(line) ==
  LET m == Len(line.of)
  IN /\ m >= 1 /\ line.opens = text[line.of[1]]
     /\ \/ line.ends = text[line.of[m]]
        \/ line.ends = "prose" /\ text[line.of[m]] = "hard" /\ Stripped(line, m)
Junctions(out, k) ==
  \A j \in 2..Len(out[k].of) :
    LET before == text[out[k].of[j - 1]]
        after == text[out[k].of[j]]
    IN /\ out[k].opens # "blank" /\ after \notin {"item", "whole", "blank"} \cup Fences
       /\ before = "hyphen" => after \in OpensWithWord
       /\ before # "hyphen" => /\ after # "number"
                               /\ ~InCode(out, k) /\ out[k].opens \notin {"whole", "formula"}
                               /\ before = "hard" => Stripped(out[k], j - 1)
       /\ after = "note" => ~(Opener(out, k) = "note" /\ ~InCode(out, k))
Apart(out, k) ==
  k > 1 /\ ~InCode(out, k) /\ out[k - 1].opens # "blank"
        /\ out[k].opens \notin {"blank", "item", "number", "whole", "note"} =>
    EndsLine(out[k - 1])
ANote(out, k) ==
  out[k].opens = "note" =>
    InCode(out, k) \/ Opener(out, k) \in {"note"} \cup Fences
      \/ (k > 1 /\ EndsLine(out[k - 1]))
LineRight(out, k) ==
  Made(out[k]) /\ Junctions(out, k) /\ Apart(out, k) /\ ANote(out, k)

------------------------------------------------------------------------------
ReflowStates(K) ==
  {st \in [out : Seq(LineSet(K)), fence : Fences \cup {"none"}, start : BOOLEAN,
           notes : BOOLEAN] :
     st.start \/ Len(st.out) >= 1}

SameFlags(st, new) ==
  /\ new.fence = st.fence
  /\ new.start <=> st.start
  /\ new.notes <=> st.notes

(* The line stays a line of its own, for one of five reasons.               *)
Own(st, line, new) ==
  /\ Grows(st.out, line, new.out)
  /\ new.fence = After(st.fence, line.opens)
  /\ \/ /\ st.fence # "none"
        /\ new.start <=> st.start
        /\ new.notes <=> st.notes
     \/ /\ st.fence = "none" /\ line.opens \in Fences
        /\ ~new.start
        /\ new.notes <=> st.notes
     \/ /\ st.fence = "none" /\ line.opens = "blank"
        /\ new.start
     \/ /\ st.fence = "none" /\ line.opens \notin Fences \cup {"blank"} /\ st.start
        /\ ~new.start
        /\ new.notes <=> line.opens = "note"
     \/ /\ st.fence = "none" /\ line.opens \notin Fences \cup {"blank"} /\ ~st.start
        /\ SameFlags(st, new)
        /\ StartsBlock(line, st.notes) \/ ~AcceptsContinuation(st.out[Len(st.out)])

(* Or it continues the last one.                                            *)
Continues(st, line, new) ==
  LET m == Len(st.out)
  IN /\ Extends(st.out, m, line, new.out)
     /\ new.out[m].ends = IF line.ends = "hard" THEN "prose" ELSE line.ends
     /\ st.fence = "none" /\ line.opens \notin Fences \cup {"blank"} /\ ~st.start
     /\ SameFlags(st, new)
     /\ ~StartsBlock(line, st.notes) /\ AcceptsContinuation(st.out[m])

LEMMA ReflowLineIs ==
  ASSUME NEW K, "prose" \in K, NEW st \in ReflowStates(K), NEW line \in LineSet(K)
  PROVE  /\ ReflowLine(st, line) \in ReflowStates(K)
         /\ Own(st, line, ReflowLine(st, line)) \/ Continues(st, line, ReflowLine(st, line))
<1> DEFINE new == ReflowLine(st, line)
           kept == [st EXCEPT !.out = Append(@, line)]
           m == Len(st.out)
<1> SUFFICES new \in ReflowStates(K) /\ (Own(st, line, new) \/ Continues(st, line, new))
  OBVIOUS
<1>1. /\ st.out \in Seq(LineSet(K)) /\ m \in Nat
      /\ st = [out |-> st.out, fence |-> st.fence, start |-> st.start, notes |-> st.notes]
      /\ st.fence \in Fences \cup {"none"} /\ st.start \in BOOLEAN /\ st.notes \in BOOLEAN
      /\ st.start \/ m >= 1
  BY LenProperties DEF ReflowStates
<1>2. /\ kept \in ReflowStates(K) /\ Grows(st.out, line, kept.out)
      /\ kept.fence = st.fence /\ kept.start = st.start /\ kept.notes = st.notes
      /\ Len(kept.out) >= 1
  <2>1. /\ Append(st.out, line) \in Seq(LineSet(K))
        /\ Grows(st.out, line, Append(st.out, line))
    BY <1>1, AppendGrows
  <2>2. kept = [out |-> Append(st.out, line), fence |-> st.fence, start |-> st.start,
                notes |-> st.notes]
    BY <1>1
  <2>3. Len(Append(st.out, line)) >= 1
    BY <1>1, <2>1 DEF Grows
  <2> QED BY <1>1, <2>1, <2>2, <2>3 DEF ReflowStates
<1> HIDE DEF kept
<1>0. "none" \notin Fences /\ "blank" \notin Fences
  BY DEF Fences
<1>3. CASE st.fence # "none"
  <2>1. new = [kept EXCEPT !.fence = IF line.opens = @ THEN "none" ELSE @]
    BY <1>3 DEF ReflowLine, kept
  <2> HIDE DEF new
  <2>2. /\ new.fence = After(st.fence, line.opens) /\ new.fence \in Fences \cup {"none"}
        /\ new.out = kept.out /\ new.start = st.start /\ new.notes = st.notes
    BY <1>1, <1>2, <1>3, <2>1 DEF ReflowStates, After
  <2>3. new \in ReflowStates(K)
    <3>1. new = [kept EXCEPT !.fence = new.fence]
      BY <1>2, <2>1 DEF ReflowStates
    <3> QED BY <1>2, <2>2, <3>1 DEF ReflowStates
  <2>4. Grows(st.out, line, new.out)
    BY <1>2, <2>2
  <2>5. (new.start <=> st.start) /\ (new.notes <=> st.notes)
    BY <2>2
  <2>6. Own(st, line, new)
    BY <1>3, <2>2, <2>4, <2>5 DEF Own
  <2> QED BY <2>3, <2>6
<1>4. CASE st.fence = "none" /\ line.opens \in Fences
  <2>1. new = [kept EXCEPT !.fence = line.opens, !.start = FALSE]
    BY <1>0, <1>4 DEF ReflowLine, kept
  <2> HIDE DEF new
  <2> QED BY <1>2, <1>4, <2>1 DEF ReflowStates, Own, After
<1>5. CASE st.fence = "none" /\ line.opens = "blank"
  <2>1. new = [kept EXCEPT !.start = TRUE]
    BY <1>0, <1>5 DEF ReflowLine, kept
  <2> HIDE DEF new
  <2> QED BY <1>0, <1>2, <1>5, <2>1 DEF ReflowStates, Own, After
<1>6. CASE st.fence = "none" /\ line.opens \notin Fences \cup {"blank"} /\ st.start
  <2>1. new = [kept EXCEPT !.start = FALSE, !.notes = line.opens = "note"]
    BY <1>6 DEF ReflowLine, kept
  <2> HIDE DEF new
  <2> QED BY <1>2, <1>6, <2>1 DEF ReflowStates, Own, After
<1>7. CASE st.fence = "none" /\ line.opens \notin Fences \cup {"blank"} /\ ~st.start
  <2>1. new = IF ~StartsBlock(line, st.notes) /\ AcceptsContinuation(Last(st.out))
              THEN [st EXCEPT !.out[Len(st.out)] = Continued(@, line)]
              ELSE kept
    BY <1>7 DEF ReflowLine, kept
  <2>2. Last(st.out) = st.out[m]
    BY DEF Last
  <2>3. CASE ~(~StartsBlock(line, st.notes) /\ AcceptsContinuation(st.out[m]))
    <3>1. new = kept
      BY <2>1, <2>2, <2>3
    <3> HIDE DEF new
    <3> QED BY <1>2, <1>7, <2>3, <3>1 DEF Own, SameFlags, After
  <2>4. CASE ~StartsBlock(line, st.notes) /\ AcceptsContinuation(st.out[m])
    <3> DEFINE last == Continued(st.out[m], line)
               rows == [st.out EXCEPT ![m] = last]
    <3>1. new = [st EXCEPT !.out = rows]
      BY <1>1, <2>1, <2>2, <2>4
    <3>2. m \in 1..m /\ st.out[m] \in LineSet(K)
      BY <1>1, <1>7, LinesAre
    <3>3. /\ last \in LineSet(K) /\ FollowedBy(st.out[m], line, last)
          /\ last.ends = IF line.ends = "hard" THEN "prose" ELSE line.ends
      BY <3>2, ContinuedIs
    <3> HIDE DEF last
    <3>4. /\ rows \in Seq(LineSet(K)) /\ Len(rows) = m
          /\ rows[m] = last /\ \A k \in 1..(m - 1) : rows[k] = st.out[k]
      <4> DEFINE out == st.out
      <4>1. /\ out \in Seq(LineSet(K)) /\ Len(out) = m /\ m \in 1..Len(out)
            /\ rows = [out EXCEPT ![m] = last]
        BY <1>1, <3>2
      <4> HIDE DEF out, rows, m
      <4>2. /\ rows \in Seq(LineSet(K)) /\ Len(rows) = Len(out)
            /\ \A k \in 1..Len(out) : rows[k] = IF k = m THEN last ELSE out[k]
        BY <3>3, <4>1, ExceptSeq
      <4> QED BY <4>1, <4>2 DEF out
    <3> HIDE DEF rows
    <3>5. /\ new.out = rows /\ new.fence = st.fence /\ new.start = st.start
          /\ new.notes = st.notes /\ new \in ReflowStates(K)
      <4> HIDE DEF new
      <4> QED BY <1>1, <1>7, <3>1, <3>4 DEF ReflowStates
    <3> HIDE DEF new
    <3>6. Extends(st.out, m, line, new.out)
      BY <3>2, <3>3, <3>4, <3>5 DEF Extends
    <3> QED BY <1>7, <2>4, <3>3, <3>4, <3>5, <3>6 DEF Continues, SameFlags
  <2> QED BY <2>3, <2>4
<1> QED BY <1>3, <1>4, <1>5, <1>6, <1>7

------------------------------------------------------------------------------
LEMMA ReflowStartIs ==
  ASSUME NEW K
  PROVE  ReflowStart \in ReflowStates(K) /\ Len(ReflowStart.out) = 0
<1> DEFINE none == <<>>
<1>1. none \in Seq(LineSet(K)) /\ Len(none) = 0
  BY EmptySeq
<1>2. ReflowStart = [out |-> none, fence |-> "none", start |-> TRUE, notes |-> FALSE]
  BY DEF ReflowStart
<1> HIDE DEF none
<1> QED BY <1>1, <1>2 DEF ReflowStates

LEMMA ReflowLoop ==
  ASSUME NEW K, "prose" \in K, NEW lines \in Seq(LineSet(K))
  PROVE  \E f \in [0..Len(lines) -> ReflowStates(K)] :
           /\ f[0] = ReflowStart
           /\ \A n \in 1..Len(lines) :
                f[n] = ReflowLine(f[n - 1], lines[n])
           /\ ReflowLines(lines) = f[Len(lines)].out
<1> DEFINE N == Len(lines)
           step == [x \in (1..N) \X ReflowStates(K) |-> ReflowLine(x[2], lines[x[1]])]
           Loop(f) == f = [n \in 0..N |-> IF n = 0 THEN ReflowStart
                                          ELSE ReflowLine(f[n - 1], lines[n])]
<1>1. N \in Nat /\ ReflowStart \in ReflowStates(K)
  BY ReflowStartIs, LenProperties
<1>0. \A n \in 1..N : lines[n] \in LineSet(K)
  BY ElementOfSeq
<1> HIDE DEF N
<1>2. step \in [(1..N) \X ReflowStates(K) -> ReflowStates(K)]
  <2>1. ASSUME NEW n \in 1..N, NEW st \in ReflowStates(K)
        PROVE  ReflowLine(st, lines[n]) \in ReflowStates(K)
    BY <1>0, ReflowLineIs
  <2> QED BY <2>1
<1>3. PICK g \in [0..N -> ReflowStates(K)] :
        g[0] = ReflowStart /\ \A n \in 1..N : g[n] = step[<<n, g[n - 1]>>]
  <2> DEFINE none == ReflowStart
  <2>1. none \in ReflowStates(K)
    BY <1>1
  <2> HIDE DEF step, none
  <2>2. Loops(ReflowStates(K), none, N, step) # {}
    BY <1>1, <1>2, <2>1, LoopExists
  <2> QED BY <2>2 DEF none, Loops
<1>4. Loop(g)
  <2>1. ASSUME NEW n \in 1..N PROVE g[n] = ReflowLine(g[n - 1], lines[n])
    <3>1. n - 1 \in 0..N /\ g[n - 1] \in ReflowStates(K)
      BY <1>1, <1>3
    <3> QED BY <1>3, <3>1
  <2> HIDE DEF step
  <2>2. g = [n \in 0..N |-> g[n]]
    BY <1>3
  <2>3. \A n \in 0..N : n # 0 => n \in 1..N
    BY <1>1
  <2> QED BY <1>3, <2>1, <2>2, <2>3
<1>5. ReflowLines(lines) = (CHOOSE f : Loop(f))[N].out
  BY DEF ReflowLines, N
<1> HIDE DEF Loop
<1>6. PICK f : Loop(f) /\ ReflowLines(lines) = f[N].out
  BY <1>4, <1>5
<1>7. f \in [0..N -> ReflowStates(K)]
  <2> DEFINE G == {n \in 0..N : f[n] \in ReflowStates(K)}
  <2>1. 0 \in G
    BY <1>1, <1>6 DEF Loop
  <2>2. ASSUME NEW n \in 1..N, n - 1 \in G PROVE n \in G
    <3>1. f[n] = ReflowLine(f[n - 1], lines[n])
      BY <1>1, <1>6 DEF Loop
    <3> QED BY <1>0, <2>2, <3>1, ReflowLineIs
  <2>3. 0..N \subseteq G
    <3> HIDE DEF G
    <3> QED BY <1>1, <2>1, <2>2, EachInTurn
  <2> QED BY <1>6, <2>3 DEF Loop
<1>8. f[0] = ReflowStart /\ \A n \in 1..N : f[n] = ReflowLine(f[n - 1], lines[n])
  BY <1>1, <1>6 DEF Loop
<1> QED BY <1>6, <1>7, <1>8 DEF N

(* What n lines come to: all they are made of, in the same order.           *)
ReflowedTo(lines, n, out) ==
  /\ InOrderOf(out)
  /\ \A i : InLines(out, i) <=> \E m \in 1..n : InLine(lines[m], i)

LEMMA ReflowedStep ==
  ASSUME NEW K, "prose" \in K, NEW lines \in Seq(LineSet(K)), InOrderOf(lines),
         NEW n \in 1..Len(lines), NEW st \in ReflowStates(K),
         ReflowedTo(lines, n - 1, st.out)
  PROVE  ReflowedTo(lines, n, ReflowLine(st, lines[n]).out)
<1> DEFINE line == lines[n]
           new == ReflowLine(st, line)
           out == st.out
           rows == new.out
<1>1. /\ line \in LineSet(K) /\ new \in ReflowStates(K) /\ Len(lines) \in Nat
      /\ Own(st, line, new) \/ Continues(st, line, new)
  BY ElementOfSeq, LenProperties, ReflowLineIs
<1>2. /\ out \in Seq(LineSet(K)) /\ rows \in Seq(LineSet(K))
      /\ \A m \in 1..n : m \in 1..(n - 1) \/ m = n
      /\ \A m \in 1..(n - 1) : m \in 1..n /\ m \in 1..Len(lines) /\ m < n
      /\ n \in 1..n /\ Len(out) \in Nat
  BY <1>1, LenProperties DEF ReflowStates
<1>3. /\ InOrderOf(out)
      /\ \A i : InLines(out, i) <=> \E m \in 1..(n - 1) : InLine(lines[m], i)
  BY DEF ReflowedTo
<1>4. Ascending(line) /\ \A m \in 1..(n - 1) : AllBefore(lines[m], line)
  BY <1>2 DEF InOrderOf
<1>5. Grows(out, line, rows) \/ Extends(out, Len(out), line, rows)
  BY <1>1 DEF Own, Continues
<1> HIDE DEF new, out, rows
<1>6. AllLinesBefore(out, line)
  <2>1. ASSUME NEW k \in 1..Len(out), NEW x \in 1..Len(out[k].of),
               NEW y \in 1..Len(line.of)
        PROVE  out[k].of[x] < line.of[y]
    <3>1. InLines(out, out[k].of[x])
      BY DEF InLines, InLine
    <3>2. PICK m \in 1..(n - 1) : InLine(lines[m], out[k].of[x])
      BY <1>3, <3>1
    <3>3. AllBefore(lines[m], line)
      BY <1>4
    <3> HIDE DEF line
    <3> QED BY <3>2, <3>3 DEF AllBefore, InLine
  <2> QED BY <2>1 DEF AllLinesBefore, AllBefore
<1>7. \A i : InLines(rows, i) <=> InLines(out, i) \/ InLine(line, i)
  <2>1. CASE Grows(out, line, rows)
    BY <1>1, <1>2, <2>1, GrowsHas
  <2>2. CASE Extends(out, Len(out), line, rows)
    <3>1. \A q : q \notin (Len(out) + 1)..Len(out)
      BY <1>2
    <3>2. \A i :
           /\ InLines(rows, i) => InLines(out, i) \/ InLine(line, i)
           /\ InLine(line, i) => InLines(rows, i)
           /\ InLines(out, i) =>
                InLines(rows, i) \/ \E q \in (Len(out) + 1)..Len(out) : InLine(out[q], i)
      BY <1>1, <1>2, <2>2, ExtendsHas
    <3> QED BY <3>1, <3>2
  <2> QED BY <1>5, <2>1, <2>2
<1>8. InOrderOf(rows)
  <2>1. CASE Grows(out, line, rows)
    BY <1>1, <1>2, <1>3, <1>4, <1>6, <2>1, GrowsOrdered
  <2>2. CASE Extends(out, Len(out), line, rows)
    BY <1>1, <1>2, <1>3, <1>4, <1>6, <2>2, ExtendsOrdered
  <2> QED BY <1>5, <2>1, <2>2
<1>9. \A i : InLines(rows, i) <=> \E m \in 1..n : InLine(lines[m], i)
  BY <1>2, <1>3, <1>7
<1> QED BY <1>8, <1>9 DEF ReflowedTo, rows, new

LEMMA ReflowedIsWhole ==
  ASSUME NEW K, "prose" \in K, NEW lines \in Seq(LineSet(K)), InOrderOf(lines)
  PROVE  /\ ReflowLines(lines) \in Seq(LineSet(K))
         /\ InOrderOf(ReflowLines(lines))
         /\ \A i : InLines(ReflowLines(lines), i) <=> InLines(lines, i)
<1> DEFINE N == Len(lines)
<1>1. N \in Nat
  BY LenProperties
<1>2. PICK f \in [0..N -> ReflowStates(K)] :
        /\ f[0] = ReflowStart
        /\ \A n \in 1..N : f[n] = ReflowLine(f[n - 1], lines[n])
        /\ ReflowLines(lines) = f[N].out
  BY ReflowLoop
<1> DEFINE G == {n \in 0..N : ReflowedTo(lines, n, f[n].out)}
<1>3. 0 \in G
  <2>1. Len(f[0].out) = 0
    BY <1>2, ReflowStartIs
  <2>2. ReflowedTo(lines, 0, f[0].out)
    BY <2>1 DEF ReflowedTo, InOrderOf, InLines
  <2> QED BY <1>1, <2>2
<1>4. ASSUME NEW n \in 1..N, n - 1 \in G PROVE n \in G
  <2>1. f[n - 1] \in ReflowStates(K) /\ ReflowedTo(lines, n - 1, f[n - 1].out)
    BY <1>1, <1>2, <1>4
  <2>2. ReflowedTo(lines, n, ReflowLine(f[n - 1], lines[n]).out)
    BY <2>1, ReflowedStep
  <2> QED BY <1>1, <1>2, <2>2
<1>5. N \in G
  <2> HIDE DEF G, N
  <2>1. 0..N \subseteq G
    BY <1>1, <1>3, <1>4, EachInTurn
  <2> QED BY <1>1, <2>1
<1>6. f[N] \in ReflowStates(K)
  BY <1>1, <1>2
<1>7. f[N].out \in Seq(LineSet(K))
  BY <1>6 DEF ReflowStates
<1> QED BY <1>2, <1>5, <1>7 DEF ReflowedTo, InLines

------------------------------------------------------------------------------
(* What the flags depend on: how the lines up to the k-th open.             *)
OpenAlike(out, new, k) == \A j \in 1..k : new[j].opens = out[j].opens
StartsTo(out, k) ==
  {j \in 1..k : j = 1 \/ (out[j - 1].opens = "blank" /\ ~InCode(out, j - 1))}

LEMMA OpenFenceIs ==
  ASSUME NEW out, Len(out) \in Nat
  PROVE  /\ FenceAt(out, 0) = "none"
         /\ \A k \in 1..Len(out) :
              /\ FenceAt(out, k - 1) \in Fences \cup {"none"}
              /\ FenceAt(out, k) = After(FenceAt(out, k - 1), out[k].opens)
<1> DEFINE N == Len(out)
           S == Fences \cup {"none"}
           base == "none"
           step == [x \in (1..N) \X S |-> After(x[2], out[x[1]].opens)]
           Loop(f) == f = [k \in 0..N |-> IF k = 0 THEN base
                                          ELSE After(f[k - 1], out[k].opens)]
<1>1. N \in Nat /\ base \in S
  OBVIOUS
<1>2. step \in [(1..N) \X S -> S]
  <2>1. \A open \in S : \A kind : After(open, kind) \in S
    BY DEF After
  <2> QED BY <2>1
<1>3. OpenFence(out) = CHOOSE f : Loop(f)
  BY DEF OpenFence
<1> HIDE DEF N, base, step
<1>4. PICK g \in [0..N -> S] :
        g[0] = base /\ \A n \in 1..N : g[n] = step[<<n, g[n - 1]>>]
  <2> HIDE DEF S
  <2>1. Loops(S, base, N, step) # {}
    BY <1>1, <1>2, LoopExists
  <2> QED BY <2>1 DEF Loops
<1>5. Loop(g)
  <2>1. ASSUME NEW n \in 1..N PROVE g[n] = After(g[n - 1], out[n].opens)
    <3>1. n - 1 \in 0..N /\ g[n - 1] \in S
      BY <1>1, <1>4
    <3> QED BY <1>4, <3>1 DEF step
  <2>2. g = [n \in 0..N |-> g[n]]
    BY <1>4
  <2>3. \A n \in 0..N : n # 0 => n \in 1..N
    BY <1>1
  <2> QED BY <1>4, <2>1, <2>2, <2>3
<1> HIDE DEF Loop
<1>6. Loop(OpenFence(out))
  BY <1>3, <1>5
<1>7. /\ OpenFence(out)[0] = base
      /\ \A k \in 1..N : OpenFence(out)[k] = After(OpenFence(out)[k - 1], out[k].opens)
  BY <1>1, <1>6 DEF Loop
<1> DEFINE G == {k \in 0..N : OpenFence(out)[k] \in S}
<1>8. 0..N \subseteq G
  <2>1. 0 \in G
    BY <1>1, <1>7
  <2>2. ASSUME NEW k \in 1..N, k - 1 \in G PROVE k \in G
    BY <1>7, <2>2 DEF After
  <2> HIDE DEF G
  <2> QED BY <1>1, <2>1, <2>2, EachInTurn
<1>9. \A k \in 1..N : OpenFence(out)[k - 1] \in S
  <2>1. \A k \in 1..N : k - 1 \in 0..N
    BY <1>1
  <2> QED BY <1>8, <2>1
<1> QED BY <1>7, <1>9 DEF FenceAt, N, base

LEMMA InCodeIs ==
  ASSUME NEW out, NEW k
  PROVE  InCode(out, k) <=> out[k].opens \in Fences \/ FenceAt(out, k - 1) # "none"
  BY DEF InCode, FenceAt

LEMMA AlikeFences ==
  ASSUME NEW out, NEW new, Len(out) \in Nat, Len(new) \in Nat, NEW k \in Nat,
         k <= Len(out), k <= Len(new), OpenAlike(out, new, k)
  PROVE  \A j \in 0..k : FenceAt(new, j) = FenceAt(out, j)
<1> DEFINE G == {j \in 0..k : FenceAt(new, j) = FenceAt(out, j)}
<1>1. 0 \in G
  BY OpenFenceIs
<1>2. ASSUME NEW j \in 1..k, j - 1 \in G PROVE j \in G
  <2>1. j \in 1..Len(out) /\ j \in 1..Len(new) /\ new[j].opens = out[j].opens
    BY DEF OpenAlike
  <2> QED BY <1>2, <2>1, OpenFenceIs
<1> HIDE DEF G
<1>3. 0..k \subseteq G
  BY <1>1, <1>2, EachInTurn
<1> QED BY <1>3 DEF G

LEMMA AlikeCode ==
  ASSUME NEW out, NEW new, Len(out) \in Nat, Len(new) \in Nat, NEW k \in Nat,
         k <= Len(out), k <= Len(new), OpenAlike(out, new, k)
  PROVE  \A j \in 1..k : InCode(new, j) <=> InCode(out, j)
<1>1. ASSUME NEW j \in 1..k PROVE InCode(new, j) <=> InCode(out, j)
  <2>1. j - 1 \in 0..k /\ new[j].opens = out[j].opens
    BY DEF OpenAlike
  <2>2. FenceAt(new, j - 1) = FenceAt(out, j - 1)
    BY <2>1, AlikeFences
  <2> QED BY <2>1, <2>2, InCodeIs
<1> QED BY <1>1

LEMMA OpenerIs ==
  ASSUME NEW out, NEW k \in Nat \ {0}
  PROVE  /\ 1 \in StartsTo(out, k)
         /\ \E j \in StartsTo(out, k) :
              /\ Opener(out, k) = out[j].opens
              /\ \A l \in StartsTo(out, k) : l <= j
<1> DEFINE S == StartsTo(out, k)
           top == CHOOSE j \in S : \A l \in S : l <= j
<1>1. 1 \in S /\ S \in SUBSET (0..k)
  BY DEF StartsTo
<1>2. Opener(out, k) = out[top].opens
  BY DEF Opener, StartsTo
<1> HIDE DEF S
<1>3. \E j \in S : \A l \in S : l <= j
  BY <1>1, GreatestExists
<1>4. top \in S /\ \A l \in S : l <= top
  BY <1>3
<1> QED BY <1>1, <1>2, <1>4 DEF S

LEMMA AlikeOpener ==
  ASSUME NEW out, NEW new, Len(out) \in Nat, Len(new) \in Nat, NEW k \in Nat \ {0},
         k <= Len(out), k <= Len(new), OpenAlike(out, new, k)
  PROVE  Opener(new, k) = Opener(out, k)
<1>1. \A j \in 1..k : (InCode(new, j) <=> InCode(out, j)) /\ new[j].opens = out[j].opens
  BY AlikeCode DEF OpenAlike
<1>2. StartsTo(new, k) = StartsTo(out, k)
  <2>1. ASSUME NEW j \in 1..k PROVE j \in StartsTo(new, k) <=> j \in StartsTo(out, k)
    <3>1. CASE j = 1
      BY <3>1 DEF StartsTo
    <3>2. CASE j # 1
      <4>1. j - 1 \in 1..k
        BY <3>2
      <4> QED BY <1>1, <4>1 DEF StartsTo
    <3> QED BY <3>1, <3>2
  <2>2. StartsTo(new, k) \subseteq 1..k /\ StartsTo(out, k) \subseteq 1..k
    BY DEF StartsTo
  <2> QED BY <2>1, <2>2
<1>3. PICK i \in StartsTo(out, k) :
        Opener(out, k) = out[i].opens /\ \A l \in StartsTo(out, k) : l <= i
  BY OpenerIs
<1>4. PICK j \in StartsTo(new, k) :
        Opener(new, k) = new[j].opens /\ \A l \in StartsTo(new, k) : l <= j
  BY OpenerIs
<1>5. i \in 1..k /\ j \in 1..k
  BY <1>3, <1>4 DEF StartsTo
<1>6. i = j
  BY <1>2, <1>3, <1>4, <1>5
<1> QED BY <1>1, <1>3, <1>4, <1>5, <1>6

LEMMA OpenerStep ==
  ASSUME NEW K, NEW out \in Seq(LineSet(K)), NEW line \in LineSet(K),
         NEW new, Grows(out, line, new)
  PROVE  LET m == Len(out)
         IN /\ AtStart(out) => Opener(new, m + 1) = line.opens
            /\ ~AtStart(out) => Opener(new, m + 1) = Opener(out, m)
<1> DEFINE m == Len(out)
<1>1. /\ m \in Nat /\ OpenAlike(out, new, m) /\ new[m + 1] = line
      /\ Len(out) \in Nat /\ Len(new) \in Nat /\ m <= Len(out) /\ m <= Len(new)
  BY LenProperties DEF Grows, OpenAlike
<1>2. m # 0 => (InCode(new, m) <=> InCode(out, m)) /\ new[m].opens = out[m].opens
  <2>1. m # 0 => m \in 1..m
    BY <1>1
  <2> QED BY <1>1, <2>1, AlikeCode DEF OpenAlike
<1>3. AtStart(out) <=> m = 0 \/ (new[m].opens = "blank" /\ ~InCode(new, m))
  BY <1>2 DEF AtStart
<1> HIDE DEF m
<1>4. m + 1 \in StartsTo(new, m + 1) <=> AtStart(out)
  <2>1. (m + 1) - 1 = m /\ m + 1 \in 1..(m + 1) /\ (m + 1 = 1 <=> m = 0)
    BY <1>1
  <2> QED BY <1>3, <2>1 DEF StartsTo
<1>5. PICK i \in StartsTo(new, m + 1) :
        /\ Opener(new, m + 1) = new[i].opens
        /\ \A l \in StartsTo(new, m + 1) : l <= i
  BY <1>1, OpenerIs
<1>6. CASE AtStart(out)
  <2>1. i \in 1..(m + 1) /\ m + 1 <= i
    BY <1>4, <1>5, <1>6 DEF StartsTo
  <2>2. i = m + 1
    BY <1>1, <2>1
  <2> QED BY <1>1, <1>5, <1>6, <2>2 DEF m
<1>7. CASE ~AtStart(out)
  <2>1. m # 0
    BY <1>7 DEF AtStart, m
  <2>2. \A j : j \in StartsTo(new, m + 1) <=> j \in StartsTo(new, m)
    <3>1. \A j \in 1..(m + 1) : j \in 1..m \/ j = m + 1
      BY <1>1
    <3>2. \A j \in 1..m : j \in 1..(m + 1)
      BY <1>1
    <3>3. m + 1 \notin 1..m
      BY <1>1
    <3> QED BY <1>4, <1>7, <3>1, <3>2, <3>3 DEF StartsTo
  <2>3. PICK j \in StartsTo(new, m) :
        /\ Opener(new, m) = new[j].opens
        /\ \A l \in StartsTo(new, m) : l <= j
    BY <1>1, <2>1, OpenerIs
  <2>4. i \in 1..m /\ j \in 1..m
    BY <1>5, <2>2, <2>3 DEF StartsTo
  <2>5. i = j
    BY <1>1, <1>5, <2>2, <2>3, <2>4
  <2>6. Opener(new, m) = Opener(out, m)
    BY <1>1, <2>1, AlikeOpener
  <2> QED BY <1>5, <1>7, <2>3, <2>5, <2>6 DEF m
<1> QED BY <1>6, <1>7 DEF m

------------------------------------------------------------------------------
Good(st) ==
  /\ Remembered(st)
  /\ \A k \in 1..Len(st.out) : LineRight(st.out, k)

LEMMA RightStays ==
  ASSUME NEW out, NEW new, Len(out) \in Nat, Len(new) \in Nat, NEW k \in Nat \ {0},
         k <= Len(out), k <= Len(new), OpenAlike(out, new, k),
         new[k] = out[k], k > 1 => new[k - 1] = out[k - 1], LineRight(out, k)
  PROVE  LineRight(new, k)
<1>1. (InCode(new, k) <=> InCode(out, k)) /\ Opener(new, k) = Opener(out, k)
  <2>1. k \in 1..k
    OBVIOUS
  <2> QED BY <2>1, AlikeCode, AlikeOpener
<1>2. Made(new[k])
  BY DEF LineRight
<1>3. Junctions(new, k)
  BY <1>1 DEF LineRight, Junctions
<1>4. Apart(new, k)
  BY <1>1 DEF LineRight, Apart
<1>5. ANote(new, k)
  BY <1>1 DEF LineRight, ANote
<1> QED BY <1>2, <1>3, <1>4, <1>5 DEF LineRight

LEMMA MadeEnds ==
  ASSUME NEW line, Made(line), line.ends \in {"hyphen", "hard"}
  PROVE  EndsLine(line)
<1>1. text[line.of[Len(line.of)]] \in {"hyphen", "hard"}
  BY DEF Made
<1>2. Last(line.of) = line.of[Len(line.of)]
  BY DEF Last
<1> QED BY <1>1, <1>2 DEF EndsLine

LEMMA JoinedMade ==
  ASSUME NEW K, NEW line \in LineSet(K), JoinedLine(text, line)
  PROVE  /\ Made(line)
         /\ \A j \in 2..Len(line.of) :
              /\ line.opens = "hyphen" /\ text[line.of[j - 1]] = "hyphen"
              /\ text[line.of[j]] \in OpensWithWord
<1>1. /\ Len(line.of) \in Nat /\ Len(line.of) >= 1
      /\ line.opens = text[line.of[1]] /\ line.ends = text[line.of[Len(line.of)]]
      /\ \A j \in 2..Len(line.of) :
           text[line.of[j - 1]] = "hyphen" /\ text[line.of[j]] \in OpensWithWord
  BY LineIs DEF JoinedLine
<1>2. ASSUME NEW j \in 2..Len(line.of) PROVE line.opens = "hyphen"
  <2>1. 2 \in 2..Len(line.of) /\ 2 - 1 = 1
    BY <1>1
  <2>2. text[line.of[2 - 1]] = "hyphen"
    BY <1>1, <2>1
  <2> QED BY <1>1, <2>1, <2>2
<1> QED BY <1>1, <1>2 DEF Made

LEMMA WordIsNot ==
  ASSUME NEW kind \in OpensWithWord
  PROVE  kind \notin {"item", "whole", "blank", "note"} \cup Fences
  BY DEF OpensWithWord, Labels, Fences

LEMMA FenceIsNoStart ==
  ASSUME NEW K, NEW st \in ReflowStates(K), Remembered(st), st.fence # "none"
  PROVE  ~st.start
<1> DEFINE m == Len(st.out)
<1>1. m \in Nat /\ FenceAt(st.out, m) # "none"
  BY LenProperties DEF ReflowStates, Remembered
<1>2. m # 0
  BY <1>1, OpenFenceIs
<1>3. st.out[m].opens = "blank" => InCode(st.out, m)
  <2>1. FenceAt(st.out, m) = After(FenceAt(st.out, m - 1), st.out[m].opens)
    BY <1>1, <1>2, OpenFenceIs
  <2>2. st.out[m].opens = "blank" => FenceAt(st.out, m - 1) # "none"
    BY <1>1, <2>1 DEF After, Fences
  <2> QED BY <2>2, InCodeIs
<1> QED BY <1>2, <1>3 DEF Remembered, AtStart

(* A line of its own.                                                       *)
LEMMA OwnKeeps ==
  ASSUME NEW K, NEW st \in ReflowStates(K), NEW new \in ReflowStates(K),
         NEW line \in LineSet(K), JoinedLine(text, line), Good(st), Own(st, line, new)
  PROVE  Good(new)
<1> DEFINE out == st.out
           rows == new.out
           m == Len(out)
<1>1. /\ out \in Seq(LineSet(K)) /\ m \in Nat /\ rows \in Seq(LineSet(K))
      /\ Grows(out, line, rows) /\ Len(rows) = m + 1 /\ rows[m + 1] = line
      /\ \A k \in 1..m : rows[k] = out[k]
      /\ \A k \in 1..(m + 1) : k \in 1..m \/ k = m + 1
      /\ OpenAlike(out, rows, m)
  BY LenProperties DEF ReflowStates, Own, Grows, OpenAlike
<1>2. /\ Remembered(st) /\ \A k \in 1..m : LineRight(out, k)
      /\ st.fence = FenceAt(out, m)
      /\ st.start <=> AtStart(out)
      /\ ~st.start => /\ Opener(out, m) = "note" => st.notes
                      /\ st.notes => Opener(out, m) \in {"note"} \cup Fences
      /\ st.fence # "none" => ~st.start
  BY FenceIsNoStart DEF Good, Remembered
<1>3. /\ FenceAt(rows, m + 1) = After(st.fence, line.opens)
      /\ InCode(rows, m + 1) <=> line.opens \in Fences \/ st.fence # "none"
  <2>1. FenceAt(rows, m) = st.fence
    BY <1>1, <1>2, AlikeFences
  <2>2. FenceAt(rows, m + 1) = After(FenceAt(rows, (m + 1) - 1), rows[m + 1].opens)
    BY <1>1, OpenFenceIs
  <2>3. InCode(rows, m + 1) <=>
          rows[m + 1].opens \in Fences \/ FenceAt(rows, (m + 1) - 1) # "none"
    BY InCodeIs
  <2>4. (m + 1) - 1 = m
    BY <1>1
  <2> QED BY <1>1, <2>1, <2>2, <2>3, <2>4
<1>4. /\ AtStart(out) => Opener(rows, m + 1) = line.opens
      /\ ~AtStart(out) => Opener(rows, m + 1) = Opener(out, m)
  BY <1>1, OpenerStep
<1>5. AtStart(rows) <=> line.opens = "blank" /\ ~InCode(rows, m + 1)
  BY <1>1 DEF AtStart
<1>6. /\ st.start \in BOOLEAN /\ st.notes \in BOOLEAN
      /\ new.start \in BOOLEAN /\ new.notes \in BOOLEAN
  BY DEF ReflowStates
<1>7. /\ new.fence = After(st.fence, line.opens)
      /\ \/ /\ st.fence # "none"
            /\ new.start <=> st.start
            /\ new.notes <=> st.notes
         \/ /\ st.fence = "none" /\ line.opens \in Fences
            /\ ~new.start
            /\ new.notes <=> st.notes
         \/ /\ st.fence = "none" /\ line.opens = "blank"
            /\ new.start
         \/ /\ st.fence = "none" /\ line.opens \notin Fences \cup {"blank"} /\ st.start
            /\ ~new.start
            /\ new.notes <=> line.opens = "note"
         \/ /\ st.fence = "none" /\ line.opens \notin Fences \cup {"blank"} /\ ~st.start
            /\ new.start <=> st.start
            /\ new.notes <=> st.notes
            /\ StartsBlock(line, st.notes) \/ ~AcceptsContinuation(out[m])
  BY DEF Own, SameFlags
<1> HIDE DEF out, rows, m
<1>8. Remembered(new)
  <2>1. new.fence = FenceAt(rows, m + 1)
    BY <1>3, <1>7
  <2>2. new.start <=> AtStart(rows)
    BY <1>2, <1>3, <1>5, <1>6, <1>7 DEF Fences
  <2>3. ~new.start =>
          /\ Opener(rows, m + 1) = "note" => new.notes
          /\ new.notes => Opener(rows, m + 1) \in {"note"} \cup Fences
    <3>1. "note" \notin Fences
      BY DEF Fences
    <3>2. AtStart(out) <=> st.start
      BY <1>2
    <3> QED BY <1>2, <1>4, <1>6, <1>7, <3>1, <3>2
  <2>4. rows = new.out /\ Len(rows) = m + 1
    BY <1>1 DEF rows
  <2> QED BY <2>1, <2>2, <2>3, <2>4 DEF Remembered
<1>9. /\ Made(line)
      /\ \A j \in 2..Len(line.of) :
           /\ line.opens = "hyphen" /\ text[line.of[j - 1]] = "hyphen"
           /\ text[line.of[j]] \in OpensWithWord
  BY JoinedMade
<1>10. Junctions(rows, m + 1)
  BY <1>1, <1>9, WordIsNot DEF Junctions
<1>11. ASSUME st.fence = "none", line.opens \notin Fences \cup {"blank"}, ~st.start,
              ~AcceptsContinuation(out[m])
       PROVE  m > 0 /\ EndsLine(out[m])
  <2>1. m # 0
    BY <1>2, <1>11 DEF AtStart, m
  <2>2. m \in 1..m
    BY <1>1, <2>1
  <2>3. Made(out[m])
    BY <1>2, <2>2 DEF LineRight
  <2>4. out[m].ends \in {"hyphen", "hard"} \/ out[m].opens \in {"whole", "formula"} \cup Fences
    BY <1>11 DEF AcceptsContinuation
  <2>5. CASE out[m].opens \in {"whole", "formula"} \cup Fences
    BY <1>1, <2>1, <2>5 DEF EndsLine
  <2>6. CASE out[m].ends \in {"hyphen", "hard"}
    BY <1>1, <2>1, <2>3, <2>6, MadeEnds
  <2> QED BY <2>4, <2>5, <2>6
<1>12. (m + 1) - 1 = m /\ (m + 1 > 1 <=> m > 0) /\ (m > 0 => rows[m] = out[m])
  BY <1>1
<1>13. Apart(rows, m + 1)
  <2>1. SUFFICES ASSUME m > 0, ~InCode(rows, m + 1), out[m].opens # "blank",
                        line.opens \notin {"blank", "item", "number", "whole", "note"}
                 PROVE  EndsLine(out[m])
    BY <1>1, <1>12 DEF Apart
  <2>2. st.fence = "none" /\ line.opens \notin Fences
    BY <1>3, <2>1
  <2>3. ~AtStart(out)
    <3>1. m # 0
      BY <1>1, <2>1
    <3> QED BY <2>1, <3>1 DEF AtStart, m
  <2>4. ~StartsBlock(line, st.notes)
    BY <2>1 DEF StartsBlock
  <2> QED BY <1>2, <1>7, <1>11, <2>1, <2>2, <2>3, <2>4
<1>14. ANote(rows, m + 1)
  <2>1. SUFFICES ASSUME line.opens = "note", st.fence = "none"
                 PROVE  \/ Opener(rows, m + 1) \in {"note"} \cup Fences
                        \/ m > 0 /\ EndsLine(out[m])
    BY <1>1, <1>3, <1>12 DEF ANote
  <2>0. line.opens \notin Fences \cup {"blank"}
    BY <2>1 DEF Fences
  <2>2. CASE st.start
    BY <1>2, <1>4, <2>1, <2>2
  <2>3. CASE ~st.start
    <3>1. StartsBlock(line, st.notes) \/ ~AcceptsContinuation(out[m])
      BY <1>7, <2>0, <2>1, <2>3
    <3>2. CASE StartsBlock(line, st.notes)
      <4>1. st.notes
        BY <2>1, <3>2 DEF StartsBlock
      <4> QED BY <1>2, <1>4, <2>3, <4>1
    <3> QED BY <1>11, <2>0, <2>1, <2>3, <3>1, <3>2
  <2> QED BY <1>6, <2>2, <2>3
<1>15. LineRight(rows, m + 1)
  <2>1. Made(rows[m + 1])
    BY <1>1, <1>9
  <2> QED BY <1>10, <1>13, <1>14, <2>1 DEF LineRight
<1>16. ASSUME NEW k \in 1..m PROVE LineRight(rows, k)
  <2>1. /\ OpenAlike(out, rows, k) /\ k \in Nat \ {0}
        /\ Len(out) \in Nat /\ Len(rows) \in Nat /\ k <= Len(out) /\ k <= Len(rows)
    BY <1>1 DEF OpenAlike, m
  <2>2. k > 1 => rows[k - 1] = out[k - 1]
    <3>1. k > 1 => k - 1 \in 1..m
      BY <1>1
    <3> QED BY <1>1, <3>1
  <2> QED BY <1>1, <1>2, <2>1, <2>2, RightStays
<1> QED BY <1>1, <1>8, <1>15, <1>16 DEF Good, rows

------------------------------------------------------------------------------
(* A line that continues the last one.                                      *)
LEMMA ContinuedMade ==
  ASSUME NEW K, NEW a \in LineSet(K), NEW b \in LineSet(K), NEW c \in LineSet(K),
         FollowedBy(a, b, c), Made(a), a.ends # "hyphen", JoinedLine(text, b),
         c.ends = IF b.ends = "hard" THEN "prose" ELSE b.ends
  PROVE  /\ Made(c)
         /\ \A j \in 1..Len(a.of) : Stripped(a, j) => Stripped(c, j)
         /\ \A j \in 2..Len(c.of) :
              \/ /\ j \in 2..Len(a.of)
                 /\ c.of[j - 1] = a.of[j - 1] /\ c.of[j] = a.of[j]
              \/ /\ j = Len(a.of) + 1
                 /\ c.of[j - 1] = a.of[Len(a.of)] /\ text[c.of[j]] = b.opens
              \/ /\ text[c.of[j - 1]] = "hyphen" /\ text[c.of[j]] \in OpensWithWord
<1> DEFINE m == Len(a.of)
           n == Len(b.of)
<1>1. /\ m \in Nat /\ n \in Nat /\ m >= 1 /\ n >= 1 /\ Len(c.of) = m + n
      /\ \A x \in 1..m : c.of[x] = a.of[x]
      /\ \A y \in 1..n : c.of[m + y] = b.of[y]
      /\ c.opens = a.opens /\ a.opens = text[a.of[1]]
      /\ b.opens = text[b.of[1]] /\ b.ends = text[b.of[n]]
  BY LineIs DEF FollowedBy, Made, JoinedLine
<1>2. \A j \in 2..n : text[b.of[j - 1]] = "hyphen" /\ text[b.of[j]] \in OpensWithWord
  BY DEF JoinedLine
<1> HIDE DEF m, n
<1>3. Made(c)
  <2>1. /\ c.of[1] = a.of[1] /\ c.of[m + n] = b.of[n] /\ m + n >= 1
        /\ m + 1 \in 2..(m + n) /\ (m + 1) - 1 = m /\ c.of[m] = a.of[m]
    BY <1>1
  <2>2. text[a.of[m]] # "hyphen"
    BY DEF Made, m
  <2>3. Stripped(c, m + n)
    BY <2>1, <2>2 DEF Stripped
  <2> QED BY <1>1, <2>1, <2>3 DEF Made
<1>5. ASSUME NEW j \in 1..m, Stripped(a, j) PROVE Stripped(c, j)
  <2>1. PICK l \in 2..j : text[a.of[l - 1]] # "hyphen"
    BY <1>5 DEF Stripped
  <2>2. l - 1 \in 1..m
    BY <1>1
  <2> QED BY <1>1, <2>1, <2>2 DEF Stripped
<1>4. ASSUME NEW j \in 2..(m + n)
      PROVE  \/ /\ j \in 2..m
                /\ c.of[j - 1] = a.of[j - 1] /\ c.of[j] = a.of[j]
             \/ /\ j = m + 1
                /\ c.of[j - 1] = a.of[m] /\ text[c.of[j]] = b.opens
             \/ /\ text[c.of[j - 1]] = "hyphen" /\ text[c.of[j]] \in OpensWithWord
  <2>1. j \in 2..m \/ j = m + 1 \/ (j - m \in 2..n /\ j = m + (j - m))
    BY <1>1
  <2>2. CASE j \in 2..m
    <3>1. j \in 1..m /\ j - 1 \in 1..m
      BY <1>1, <2>2
    <3> QED BY <1>1, <2>2, <3>1
  <2>3. CASE j = m + 1
    <3>1. j - 1 = m /\ m \in 1..m /\ 1 \in 1..n
      BY <1>1, <2>3
    <3>2. c.of[m + 1] = b.of[1] /\ c.of[m] = a.of[m]
      BY <1>1, <3>1
    <3> QED BY <1>1, <2>3, <3>1, <3>2
  <2>4. ASSUME NEW y \in 2..n, j = m + y
        PROVE  text[c.of[j - 1]] = "hyphen" /\ text[c.of[j]] \in OpensWithWord
    <3>1. y \in 1..n /\ y - 1 \in 1..n /\ j - 1 = m + (y - 1)
      BY <1>1, <2>4
    <3>2. c.of[m + y] = b.of[y] /\ c.of[m + (y - 1)] = b.of[y - 1]
      BY <1>1, <3>1
    <3> QED BY <1>2, <2>4, <3>1, <3>2
  <2> QED BY <2>1, <2>2, <2>3, <2>4
<1> QED BY <1>1, <1>3, <1>4, <1>5 DEF m

LEMMA ContinuesKeeps ==
  ASSUME NEW K, NEW st \in ReflowStates(K), NEW new \in ReflowStates(K),
         NEW line \in LineSet(K), JoinedLine(text, line), Good(st),
         Continues(st, line, new)
  PROVE  Good(new)
<1> DEFINE out == st.out
           rows == new.out
           m == Len(out)
           a == out[m]
           c == rows[m]
<1>1. /\ out \in Seq(LineSet(K)) /\ m \in Nat /\ rows \in Seq(LineSet(K))
      /\ Len(rows) = m /\ m \in 1..m
      /\ \A k \in 1..(m - 1) : rows[k] = out[k]
      /\ \A k \in 1..m : k \in 1..(m - 1) \/ k = m
      /\ FollowedBy(a, line, c)
      /\ c.opens = a.opens
      /\ c.ends = IF line.ends = "hard" THEN "prose" ELSE line.ends
  BY LenProperties DEF ReflowStates, Continues, Extends, FollowedBy
<1>2. /\ \A k \in 1..m : LineRight(out, k)
      /\ st.fence = FenceAt(out, m)
      /\ st.start <=> AtStart(out)
      /\ ~st.start => /\ Opener(out, m) = "note" => st.notes
                      /\ st.notes => Opener(out, m) \in {"note"} \cup Fences
  BY DEF Good, Remembered
<1>3. /\ st.fence = "none" /\ line.opens \notin Fences \cup {"blank"} /\ ~st.start
      /\ new.fence = st.fence
      /\ new.start <=> st.start
      /\ new.notes <=> st.notes
      /\ ~StartsBlock(line, st.notes) /\ AcceptsContinuation(a)
  BY DEF Continues, SameFlags
<1>4. a \in LineSet(K) /\ c \in LineSet(K)
  BY <1>1, LinesAre
<1> HIDE DEF out, rows, m
<1>5. /\ OpenAlike(out, rows, m)
      /\ Len(out) \in Nat /\ Len(rows) \in Nat /\ m <= Len(out) /\ m <= Len(rows)
  BY <1>1 DEF OpenAlike, m
<1>6. /\ FenceAt(rows, m) = FenceAt(out, m)
      /\ InCode(rows, m) <=> InCode(out, m)
      /\ Opener(rows, m) = Opener(out, m)
  <2>1. m \in Nat \ {0} /\ m \in 0..m
    BY <1>1
  <2> QED BY <1>1, <1>5, <2>1, AlikeFences, AlikeCode, AlikeOpener
<1>7. AtStart(rows) <=> AtStart(out)
  BY <1>1, <1>6 DEF AtStart, m
<1>8. Remembered(new)
  <2>1. rows = new.out /\ Len(rows) = m
    BY <1>1 DEF rows
  <2> QED BY <1>2, <1>3, <1>6, <1>7, <2>1 DEF Remembered
<1>9. LineRight(out, m) /\ Made(a)
  BY <1>1, <1>2 DEF LineRight
<1>10. /\ a.ends \notin {"hyphen", "hard"} /\ a.opens \notin {"whole", "formula"} \cup Fences
       /\ line.opens \notin {"item", "number", "whole"} /\ (st.notes => line.opens # "note")
  BY <1>3 DEF AcceptsContinuation, StartsBlock
<1>11. ~InCode(out, m) /\ a.opens # "blank"
  <2>1. FenceAt(out, m) = After(FenceAt(out, m - 1), a.opens)
    BY <1>1, <1>5, OpenFenceIs
  <2>2. a.opens \notin Fences /\ "none" \notin Fences
    BY <1>10 DEF Fences
  <2>3. FenceAt(out, m - 1) = "none"
    <3>0. FenceAt(out, m - 1) # "none" => FenceAt(out, m - 1) \in Fences
      BY <1>1, <1>5, OpenFenceIs DEF m
    <3> QED BY <1>2, <1>3, <2>1, <2>2, <3>0 DEF After
  <2>4. ~InCode(out, m)
    BY <2>2, <2>3, InCodeIs
  <2> QED BY <1>2, <1>3, <2>4 DEF AtStart, m
<1>12. /\ Made(c)
       /\ \A j \in 1..Len(a.of) : Stripped(a, j) => Stripped(c, j)
       /\ \A j \in 2..Len(c.of) :
            \/ /\ j \in 2..Len(a.of)
               /\ c.of[j - 1] = a.of[j - 1] /\ c.of[j] = a.of[j]
            \/ /\ j = Len(a.of) + 1
               /\ c.of[j - 1] = a.of[Len(a.of)] /\ text[c.of[j]] = line.opens
            \/ /\ text[c.of[j - 1]] = "hyphen" /\ text[c.of[j]] \in OpensWithWord
  BY <1>1, <1>4, <1>9, <1>10, ContinuedMade
<1>13. Junctions(rows, m)
  <2>1. SUFFICES ASSUME NEW j \in 2..Len(c.of)
                 PROVE  LET before == text[c.of[j - 1]]
                            after == text[c.of[j]]
                        IN /\ c.opens # "blank"
                           /\ after \notin {"item", "whole", "blank"} \cup Fences
                           /\ before = "hyphen" => after \in OpensWithWord
                           /\ before # "hyphen" =>
                                /\ after # "number"
                                /\ ~InCode(rows, m) /\ c.opens \notin {"whole", "formula"}
                                /\ before = "hard" => Stripped(c, j - 1)
                           /\ after = "note" =>
                                ~(Opener(rows, m) = "note" /\ ~InCode(rows, m))
    BY DEF Junctions
  <2> HIDE DEF a, c
  <2>2. CASE j \in 2..Len(a.of) /\ c.of[j - 1] = a.of[j - 1] /\ c.of[j] = a.of[j]
    <3>1. Junctions(out, m)
      BY <1>9 DEF LineRight
    <3>2. Stripped(a, j - 1) => Stripped(c, j - 1)
      <4>1. j - 1 \in 1..Len(a.of)
        BY <1>4, <2>2, LineIs
      <4> QED BY <1>12, <4>1
    <3> QED BY <1>1, <1>6, <2>2, <3>1, <3>2 DEF Junctions, a
  <2>3. CASE /\ j = Len(a.of) + 1
             /\ c.of[j - 1] = a.of[Len(a.of)] /\ text[c.of[j]] = line.opens
    <3>1. /\ text[c.of[j - 1]] # "hyphen"
          /\ text[c.of[j - 1]] = "hard" => Stripped(a, Len(a.of))
          /\ Len(a.of) >= 1
      BY <1>9, <1>10, <2>3 DEF Made
    <3>2. Len(a.of) \in Nat
      BY <1>4, LineIs
    <3>3. line.opens = "note" => Opener(rows, m) # "note"
      BY <1>2, <1>3, <1>6, <1>10
    <3>4. text[c.of[j - 1]] = "hard" => Stripped(c, j - 1)
      <4>1. j - 1 = Len(a.of) /\ j - 1 \in 1..Len(a.of)
        BY <2>3, <3>1, <3>2
      <4> QED BY <1>12, <3>1, <4>1
    <3> QED BY <1>1, <1>3, <1>6, <1>10, <1>11, <2>3, <3>1, <3>3, <3>4
  <2>4. CASE text[c.of[j - 1]] = "hyphen" /\ text[c.of[j]] \in OpensWithWord
    <3>1. text[c.of[j]] \notin {"item", "whole", "blank", "note"} \cup Fences
      BY <2>4, WordIsNot
    <3>2. c.opens # "blank"
      BY <1>1, <1>11
    <3> QED BY <2>4, <3>1, <3>2
  <2> QED BY <1>12, <2>1, <2>2, <2>3, <2>4
<1>14. \A k \in 1..m : k > 1 => rows[k - 1] = out[k - 1]
  <2>1. \A k \in 1..m : k > 1 => k - 1 \in 1..(m - 1)
    BY <1>1
  <2> QED BY <1>1, <2>1
<1>15. Apart(rows, m)
  <2>1. Apart(out, m)
    BY <1>9 DEF LineRight
  <2> QED BY <1>1, <1>6, <1>14, <2>1 DEF Apart
<1>16. ANote(rows, m)
  <2>1. ANote(out, m)
    BY <1>9 DEF LineRight
  <2> QED BY <1>1, <1>6, <1>14, <2>1 DEF ANote
<1>17. LineRight(rows, m)
  BY <1>12, <1>13, <1>15, <1>16 DEF LineRight
<1>18. ASSUME NEW k \in 1..(m - 1) PROVE LineRight(rows, k)
  <2>1. /\ OpenAlike(out, rows, k) /\ k \in Nat \ {0} /\ k \in 1..m
        /\ k <= Len(out) /\ k <= Len(rows)
    BY <1>1, <1>5 DEF OpenAlike
  <2> QED BY <1>1, <1>2, <1>5, <1>14, <2>1, RightStays
<1> QED BY <1>1, <1>8, <1>17, <1>18 DEF Good, rows

(* So every line that reflow writes is right.                               *)
LEMMA ReflowedIsRight ==
  ASSUME NEW K, "prose" \in K, NEW lines \in Seq(LineSet(K)),
         \A k \in 1..Len(lines) : JoinedLine(text, lines[k])
  PROVE  \A k \in 1..Len(ReflowLines(lines)) : LineRight(ReflowLines(lines), k)
<1> DEFINE N == Len(lines)
<1>1. N \in Nat /\ \A k \in 1..N : lines[k] \in LineSet(K)
  BY LenProperties, ElementOfSeq
<1>2. PICK f \in [0..N -> ReflowStates(K)] :
        /\ f[0] = ReflowStart
        /\ \A n \in 1..N : f[n] = ReflowLine(f[n - 1], lines[n])
        /\ ReflowLines(lines) = f[N].out
  BY ReflowLoop
<1> DEFINE G == {n \in 0..N : Good(f[n])}
<1>3. 0 \in G
  <2>1. /\ Len(ReflowStart.out) = 0 /\ ReflowStart.fence = "none" /\ ReflowStart.start
    BY ReflowStartIs DEF ReflowStart
  <2>2. FenceAt(ReflowStart.out, 0) = "none"
    BY <2>1, OpenFenceIs
  <2>3. Good(ReflowStart)
    BY <2>1, <2>2 DEF Good, Remembered, AtStart
  <2> QED BY <1>1, <1>2, <2>3
<1>4. ASSUME NEW n \in 1..N, n - 1 \in G PROVE n \in G
  <2>1. f[n - 1] \in ReflowStates(K) /\ Good(f[n - 1]) /\ lines[n] \in LineSet(K)
    BY <1>1, <1>2, <1>4
  <2>2. LET new == ReflowLine(f[n - 1], lines[n])
        IN /\ new \in ReflowStates(K)
           /\ Own(f[n - 1], lines[n], new) \/ Continues(f[n - 1], lines[n], new)
    BY <2>1, ReflowLineIs
  <2>3. Good(ReflowLine(f[n - 1], lines[n]))
    BY <2>1, <2>2, OwnKeeps, ContinuesKeeps
  <2> QED BY <1>1, <1>2, <2>3
<1>5. N \in G
  <2> HIDE DEF G, N
  <2>1. 0..N \subseteq G
    BY <1>1, <1>3, <1>4, EachInTurn
  <2> QED BY <1>1, <2>1
<1> QED BY <1>2, <1>5 DEF Good

------------------------------------------------------------------------------
(* A page, from the split to the last line.                                 *)
LEMMA CleanIs ==
  ASSUME NEW K, "prose" \in K, text \in Seq(K), NEW page \in PageSet(text),
         Increasing(page.lines), NEW heads
  PROVE  LET clean == CleanPage(text, page, heads)
             out == clean.lines
         IN /\ clean = [number |-> page.number, lines |-> out, defined |-> Definitions(out)]
            /\ out \in Seq(LineSet(K))
            /\ InOrderOf(out)
            /\ \A k \in 1..Len(out) : LineRight(out, k)
            /\ \A i : InLines(out, i) => \E k \in 1..Len(page.lines) : page.lines[k] = i
            /\ \A k \in 1..Len(page.lines) :
                 text[page.lines[k]] \notin {"blank"} \cup (heads \cap EdgeForms(text, page)) =>
                   InLines(out, page.lines[k])
<1> DEFINE lines == page.lines
           S == {i \in DOMAIN text : text[i] \notin heads \cap EdgeForms(text, page)}
           kept == Kept(lines, S)
           joined == JoinHyphens(text, kept)
           out == ReflowLines(joined)
<1>1. lines \in Seq(Places(text)) /\ lines \in Seq(Nat) /\ DOMAIN text = Places(text)
  <2>1. lines \in Seq(Places(text))
    BY DEF PageSet
  <2>2. Places(text) \subseteq Nat /\ DOMAIN text = Places(text)
    BY LenProperties DEF Places
  <2>3. Seq(Places(text)) \subseteq Seq(Nat)
    BY <2>2
  <2> QED BY <2>1, <2>2, <2>3
<1>2. /\ CleanPage(text, page, heads) =
           [number |-> page.number, lines |-> out, defined |-> Definitions(out)]
      /\ StripRunningHeads(text, page, heads) = kept
  BY DEF CleanPage, StripRunningHeads
<1>3. \A k \in 1..Len(lines) :
        lines[k] \in Places(text) /\
          (text[lines[k]] \notin heads \cap EdgeForms(text, page) => lines[k] \in S)
  BY <1>1, ElementOfSeq
<1> HIDE DEF lines, S
<1>4. /\ kept \in Seq(Places(text))
      /\ \A k \in 1..Len(kept) : \E n \in 1..Len(lines) : kept[k] = lines[n]
      /\ \A n \in 1..Len(lines) : lines[n] \in S =>
           \E k \in 1..Len(kept) : kept[k] = lines[n]
  BY <1>1, KeptIs
<1>5. Increasing(kept)
  BY <1>1, KeptInOrder DEF lines
<1> HIDE DEF kept
<1>6. joined \in Seq(LineSet(K)) /\ JoinedTo(text, kept, Len(kept), joined)
  BY <1>4, <1>5, JoinedIsWhole
<1>7. /\ \A k \in 1..Len(joined) : JoinedLine(text, joined[k])
      /\ InOrderOf(joined)
      /\ \A i : InLines(joined, i) => \E m \in 1..Len(kept) : kept[m] = i
      /\ \A m \in 1..Len(kept) : text[kept[m]] # "blank" => InLines(joined, kept[m])
  BY <1>6 DEF JoinedTo
<1> HIDE DEF joined
<1>8. /\ out \in Seq(LineSet(K)) /\ InOrderOf(out)
      /\ \A i : InLines(out, i) <=> InLines(joined, i)
  BY <1>6, <1>7, ReflowedIsWhole
<1>9. \A k \in 1..Len(out) : LineRight(out, k)
  BY <1>6, <1>7, ReflowedIsRight
<1> HIDE DEF out
<1>10. \A i : InLines(out, i) => \E k \in 1..Len(lines) : lines[k] = i
  BY <1>4, <1>7, <1>8
<1>11. ASSUME NEW k \in 1..Len(lines),
              text[lines[k]] \notin {"blank"} \cup (heads \cap EdgeForms(text, page))
       PROVE  InLines(out, lines[k])
  <2>1. lines[k] \in S /\ text[lines[k]] # "blank"
    BY <1>3, <1>11
  <2>2. PICK m \in 1..Len(kept) : kept[m] = lines[k]
    BY <1>4, <2>1
  <2> QED BY <1>7, <1>8, <2>1, <2>2
<1> QED BY <1>2, <1>8, <1>9, <1>10, <1>11 DEF lines

Kinds == (UNION {a.kinds : a \in Alphabets}) \cup {"prose"}
TextType == alphabet \in Alphabets /\ text \in Seq(Kinds)

LEMMA CleanedAre ==
  ASSUME TextType
  PROVE  /\ Len(Pages) \in Nat /\ DOMAIN Pages = 1..Len(Pages) /\ DOMAIN Cleaned = 1..Len(Pages)
         /\ \A n \in 1..Len(Pages) :
              /\ Pages[n] \in PageSet(text)
              /\ Cleaned[n] = CleanPage(text, Pages[n], RunningHeads(text, Pages))
              /\ Increasing(Pages[n].lines)
<1>1. /\ Pages \in Seq(PageSet(text))
      /\ \A n \in 1..Len(Pages) : Increasing(Pages[n].lines)
  BY SplitIs DEF Pages, TextType
<1>2. Len(Pages) \in Nat /\ DOMAIN Pages = 1..Len(Pages)
  BY <1>1, LenProperties
<1>3. \A n \in 1..Len(Pages) : Pages[n] \in PageSet(text)
  BY <1>1, ElementOfSeq
<1>4. /\ DOMAIN Cleaned = DOMAIN Pages
      /\ \A n \in DOMAIN Pages :
           Cleaned[n] = CleanPage(text, Pages[n], RunningHeads(text, Pages))
  <2> DEFINE ps == Pages
  <2> HIDE DEF ps
  <2>1. Cleaned = [n \in DOMAIN ps |-> CleanPage(text, ps[n], RunningHeads(text, ps))]
    BY DEF Cleaned, ps
  <2>2. /\ DOMAIN Cleaned = DOMAIN ps
        /\ \A n \in DOMAIN ps : Cleaned[n] = CleanPage(text, ps[n], RunningHeads(text, ps))
    BY <2>1
  <2> QED BY <2>2 DEF ps
<1> QED BY <1>1, <1>2, <1>3, <1>4

LEMMA LinesRight ==
  ASSUME TextType, NEW n \in DOMAIN Cleaned
  PROVE  LET out == Cleaned[n].lines
         IN /\ out \in Seq(LineSet(Kinds)) /\ DOMAIN out = 1..Len(out)
            /\ Cleaned[n].defined = Definitions(out)
            /\ \A k \in 1..Len(out) : LineRight(out, k)
<1>1. "prose" \in Kinds /\ text \in Seq(Kinds)
  BY DEF Kinds, TextType
<1>2. /\ n \in 1..Len(Pages) /\ Pages[n] \in PageSet(text) /\ Increasing(Pages[n].lines)
      /\ Cleaned[n] = CleanPage(text, Pages[n], RunningHeads(text, Pages))
  BY CleanedAre
<1> DEFINE clean == CleanPage(text, Pages[n], RunningHeads(text, Pages))
<1>3. /\ clean = [number |-> Pages[n].number, lines |-> clean.lines,
                  defined |-> Definitions(clean.lines)]
      /\ clean.lines \in Seq(LineSet(Kinds))
      /\ \A k \in 1..Len(clean.lines) : LineRight(clean.lines, k)
  BY <1>1, <1>2, CleanIs
<1> HIDE DEF clean
<1>4. clean.defined = Definitions(clean.lines)
  BY <1>3
<1>5. DOMAIN clean.lines = 1..Len(clean.lines)
  BY <1>3, LenProperties
<1> QED BY <1>2, <1>3, <1>4, <1>5 DEF clean

LEMMA TypeMeansParagraphs == TextType => ParagraphsAreLines
<1> SUFFICES ASSUME TextType, NEW n \in DOMAIN Cleaned, NEW k \in DOMAIN Cleaned[n].lines
             PROVE  LET out == Cleaned[n].lines
                    IN /\ \A j \in 2..Len(out[k].of) :
                            LET before == text[out[k].of[j - 1]]
                                added == text[out[k].of[j]]
                            IN /\ added \notin {"item", "whole", "blank"} \cup Fences
                               /\ before = "hyphen" => added \in OpensWithWord
                               /\ before # "hyphen" =>
                                    /\ added # "number"
                                    /\ ~InCode(out, k)
                                    /\ out[k].opens \notin {"whole", "formula"}
                                    /\ before = "hard" => \E l \in 2..(j - 1) :
                                         text[out[k].of[l - 1]] # "hyphen"
                       /\ k > 1 /\ ~InCode(out, k) /\ out[k - 1].opens # "blank"
                             /\ out[k].opens \notin {"blank", "item", "number", "whole", "note"} =>
                            EndsLine(out[k - 1])
  BY DEF ParagraphsAreLines
<1> DEFINE out == Cleaned[n].lines
<1>1. Junctions(out, k) /\ Apart(out, k)
  BY LinesRight DEF LineRight
<1> QED BY <1>1 DEF Junctions, Apart, Stripped

LEMMA TypeMeansNotes == TextType => OnlyNotesAreDefined
<1> SUFFICES ASSUME TextType, NEW n \in DOMAIN Cleaned
             PROVE  LET out == Cleaned[n].lines
                    IN /\ \A i \in Cleaned[n].defined : \E k \in DOMAIN out :
                            /\ out[k].of[1] = i
                            /\ \/ InCode(out, k) \/ Opener(out, k) \in {"note"} \cup Fences
                               \/ EndsLine(out[k - 1])
                       /\ \A k \in DOMAIN out :
                            Opener(out, k) = "note" /\ ~InCode(out, k) =>
                              \A j \in 2..Len(out[k].of) : text[out[k].of[j]] # "note"
  BY DEF OnlyNotesAreDefined
<1> DEFINE out == Cleaned[n].lines
<1>1. /\ \A k \in DOMAIN out : Junctions(out, k) /\ ANote(out, k)
      /\ Cleaned[n].defined = Definitions(out)
  BY LinesRight DEF LineRight
<1> HIDE DEF out
<1>2. ASSUME NEW i \in Definitions(out)
      PROVE  \E k \in DOMAIN out :
               /\ out[k].of[1] = i
               /\ \/ InCode(out, k) \/ Opener(out, k) \in {"note"} \cup Fences
                  \/ EndsLine(out[k - 1])
  <2>1. PICK k \in DOMAIN out : out[k].opens = "note" /\ i = out[k].of[1]
    BY DEF Definitions
  <2> QED BY <1>1, <2>1 DEF ANote
<1>3. ASSUME NEW k \in DOMAIN out, Opener(out, k) = "note", ~InCode(out, k),
             NEW j \in 2..Len(out[k].of)
      PROVE  text[out[k].of[j]] # "note"
  BY <1>1, <1>3 DEF Junctions
<1> QED BY <1>1, <1>2, <1>3 DEF out

LEMMA TextTypeHolds == Spec => []TextType
<1>1. Init => TextType
  <2> DEFINE none == <<>>
  <2>1. none \in Seq(Kinds)
    BY EmptySeq
  <2> HIDE DEF none
  <2> QED BY <2>1 DEF Init, TextType, none
<1>2. TextType /\ [Next]_vars => TextType'
  <2> SUFFICES ASSUME TextType, [Next]_vars PROVE TextType'
    OBVIOUS
  <2> USE DEF TextType
  <2>1. CASE NextLine
    <3>1. PICK kind \in alphabet.kinds : text' = Append(text, kind)
      BY <2>1 DEF NextLine
    <3>2. kind \in Kinds
      BY DEF Kinds
    <3>3. text' \in Seq(Kinds)
      BY <3>1, <3>2, AppendProperties
    <3> QED BY <2>1, <3>3 DEF NextLine
  <2>2. CASE NextColumn
    BY <2>2 DEF NextColumn
  <2>3. CASE UNCHANGED vars
    BY <2>3 DEF vars
  <2> QED BY <2>1, <2>2, <2>3 DEF Next
<1> QED BY <1>1, <1>2, PTL DEF Spec

(* Of every text of any length, cut into pages anywhere, with notes, code    *)
(* and hyphens lying about in any way: soft line breaks go, and structure   *)
(* stays, but for a numbered item behind a hyphen, a line of math behind    *)
(* prose and the hard break of a line that was itself appended to one       *)
(* (reflow_lines, HYPHEN_BREAK).                                            *)
THEOREM StructureStays == Spec => []ParagraphsAreLines
  BY TextTypeHolds, TypeMeansParagraphs, PTL

(* And a marker becomes a definition only where a note stands, in or right   *)
(* after code, or where the line before can take nothing (reflow_lines,     *)
(* then namespace_footnotes).                                               *)
THEOREM NotesAreNotes == Spec => []OnlyNotesAreDefined
  BY TextTypeHolds, TypeMeansNotes, PTL

------------------------------------------------------------------------------
(* Running heads: enough pages have the form at an edge.                    *)
LEMMA HeadMayBe ==
  ASSUME TextType, NEW n \in DOMAIN Pages,
         NEW form \in RunningHeads(text, Pages) \cap EdgeForms(text, Pages[n])
  PROVE  MayBeHead(form) /\ n \in PagesHeaded(form)
<1> DEFINE c == Cardinality(PagesHeaded(form))
           t == Threshold(Len(Pages))
<1>1. form \in Labels /\ n \in PagesHeaded(form)
  BY DEF EdgeForms, PagesHeaded
<1>2. PagesHeaded(form) = {m \in DOMAIN Pages : form \in EdgeForms(text, Pages[m])}
  BY <1>1 DEF EdgeForms, PagesHeaded
<1>3. c >= t
  BY <1>2 DEF RunningHeads
<1>4. c \in Nat /\ Len(Pages) \in Nat
  <2>1. DOMAIN Pages = 1..Len(Pages) /\ Len(Pages) \in Nat
    BY CleanedAre
  <2>2. IsFiniteSet(PagesHeaded(form))
    <3>1. IsFiniteSet(1..Len(Pages))
      BY <2>1, FS_Interval
    <3>2. PagesHeaded(form) \subseteq 1..Len(Pages)
      BY <2>1 DEF PagesHeaded
    <3> QED BY <3>1, <3>2, FS_Subset
  <2> QED BY <2>1, <2>2, FS_CardinalityType
<1> HIDE DEF c
<1>5. c >= HeadMinPages /\ 100 * (c + 1) > HeadFrequency * Len(Pages)
  <2> DEFINE p == Len(Pages)
             product == p * HeadFrequency
             share == product \div 100
  <2>1. p \in Nat /\ HeadFrequency \in Nat /\ HeadMinPages \in Nat
    BY <1>4, InputsAssumption
  <2>2. t = IF share > HeadMinPages THEN share ELSE HeadMinPages
    BY DEF Threshold
  <2> HIDE DEF p, t
  <2>3. product \in Nat /\ product = HeadFrequency * p
    BY <2>1, Z3
  <2> HIDE DEF product
  <2>4. share \in Nat /\ product < 100 * (share + 1)
    BY <2>3
  <2> HIDE DEF share
  <2>5. c >= share /\ c >= HeadMinPages
    BY <1>3, <1>4, <2>1, <2>2, <2>4
  <2> QED BY <1>4, <2>3, <2>4, <2>5 DEF p
<1> QED BY <1>1, <1>5 DEF MayBeHead, c

LEMMA OfIs ==
  ASSUME NEW K, NEW page, page.lines \in Seq(LineSet(K))
  PROVE  \A i : i \in Of(page) <=> InLines(page.lines, i)
<1> DEFINE out == page.lines
<1>1. /\ DOMAIN out = 1..Len(out)
      /\ \A k \in 1..Len(out) : DOMAIN out[k].of = 1..Len(out[k].of)
  BY LinesAre
<1>2. \A k \in DOMAIN out : \A i : i \in ToSet(out[k].of) <=> InLine(out[k], i)
  BY <1>1 DEF ToSet, InLine
<1> QED BY <1>1, <1>2 DEF Of, InLines

(* A line of output that says anything does not open with a blank line.     *)
LEMMA SaidOpens ==
  ASSUME NEW K, NEW out \in Seq(LineSet(K)), NEW k \in 1..Len(out), LineRight(out, k),
         NEW i, InLine(out[k], i), text[i] # "blank"
  PROVE  out[k].opens # "blank"
<1>1. PICK x \in 1..Len(out[k].of) : out[k].of[x] = i
  BY DEF InLine
<1>2. CASE x = 1
  BY <1>1, <1>2 DEF LineRight, Made
<1>3. CASE x # 1
  <2>1. x \in 2..Len(out[k].of)
    BY <1>1, <1>3, LinesAre
  <2> QED BY <2>1 DEF LineRight, Junctions
<1> QED BY <1>2, <1>3

(* Pages that say anything are in the book.                                 *)
LEMMA ProcessKeeps ==
  ASSUME TextType, NEW n \in DOMAIN Pages, NEW k \in DOMAIN Cleaned[n].lines,
         Cleaned[n].lines[k].opens # "blank"
  PROVE  \E m \in DOMAIN Process(text) : Process(text)[m] = Cleaned[n]
<1> DEFINE clean == Cleaned
           S == {clean[q] : q \in {q \in DOMAIN clean :
                   \E l \in DOMAIN clean[q].lines : clean[q].lines[l].opens # "blank"}}
           T == {clean[q] : q \in DOMAIN clean}
           N == Len(Pages)
<1>1. N \in Nat /\ DOMAIN Pages = 1..N /\ DOMAIN clean = 1..N
  BY CleanedAre
<1>2. Process(text) = Kept(clean, S)
  BY DEF Process, Cleaned, Pages
<1>3. clean[n] \in S
  BY <1>1
<1>4. clean \in [1..N -> T]
  <2>1. clean = [q \in DOMAIN clean |-> clean[q]]
    BY DEF Cleaned
  <2> HIDE DEF clean
  <2> QED BY <1>1, <2>1
<1> HIDE DEF clean, S, T, N
<1>5. clean \in Seq(T)
  <2>1. clean \in UNION {[1..q -> T] : q \in Nat}
    BY <1>1, <1>4
  <2> QED BY <2>1, SeqDef, Zenon
<1>6. n \in 1..Len(clean)
  <2>1. DOMAIN clean = 1..Len(clean)
    BY <1>5, LenProperties
  <2> QED BY <1>1, <2>1
<1>7. Kept(clean, S) \in Seq(T) /\ \E m \in 1..Len(Kept(clean, S)) : Kept(clean, S)[m] = clean[n]
  BY <1>3, <1>5, <1>6, KeptIs
<1>8. DOMAIN Kept(clean, S) = 1..Len(Kept(clean, S))
  BY <1>7, LenProperties
<1> QED BY <1>2, <1>7, <1>8 DEF clean

LEMMA TypeMeansWhole == TextType => OnlyHeadsAreDropped
<1> SUFFICES ASSUME TextType PROVE OnlyHeadsAreDropped
  OBVIOUS
<1>1. ASSUME NEW i \in DOMAIN text, text[i] \notin {"mark", "blank"}
      PROVE  \E n \in DOMAIN Pages : i \in ToSet(Pages[n].lines)
  <2>1. text \in Seq(Kinds) /\ i \in Places(text)
    BY LenProperties DEF TextType, Places
  <2>2. PICK n \in 1..Len(Pages) : \E k \in 1..Len(Pages[n].lines) : Pages[n].lines[k] = i
    BY <1>1, <2>1, SplitIs DEF Pages
  <2>3. n \in DOMAIN Pages /\ Pages[n].lines \in Seq(Places(text))
    BY CleanedAre DEF PageSet
  <2>4. DOMAIN Pages[n].lines = 1..Len(Pages[n].lines)
    BY <2>3, LenProperties
  <2> QED BY <2>2, <2>3, <2>4 DEF ToSet
<1>2. ASSUME NEW n \in DOMAIN Pages
      PROVE  LET lines == Said(ToSet(Pages[n].lines))
                 page == Cleaned[n]
                 out == page.lines
                 kept == Said(Of(page))
                 done == Process(text)
             IN /\ kept \subseteq lines
                /\ \A i \in lines \ kept : MayBeHead(text[i]) /\ n \in PagesHeaded(text[i])
                /\ \A k, l \in DOMAIN out : \A x \in DOMAIN out[k].of, y \in DOMAIN out[l].of :
                     k < l \/ (k = l /\ x < y) => out[k].of[x] < out[l].of[y]
                /\ kept # {} =>
                     \E m \in DOMAIN done : done[m] = [page EXCEPT !.number = Pages[n].number]
  <2> DEFINE lines == Pages[n].lines
             page == Cleaned[n]
             out == page.lines
             heads == RunningHeads(text, Pages)
  <2>1. /\ "prose" \in Kinds /\ text \in Seq(Kinds) /\ n \in 1..Len(Pages)
        /\ Pages[n] \in PageSet(text) /\ lines \in Seq(Places(text)) /\ Increasing(lines)
        /\ page = CleanPage(text, Pages[n], heads)
    BY CleanedAre DEF Kinds, TextType, PageSet
  <2>2. /\ page = [number |-> Pages[n].number, lines |-> out, defined |-> Definitions(out)]
        /\ out \in Seq(LineSet(Kinds))
        /\ InOrderOf(out)
        /\ \A k \in 1..Len(out) : LineRight(out, k)
        /\ \A i : InLines(out, i) => \E k \in 1..Len(lines) : lines[k] = i
        /\ \A k \in 1..Len(lines) :
             text[lines[k]] \notin {"blank"} \cup (heads \cap EdgeForms(text, Pages[n])) =>
               InLines(out, lines[k])
    <3> DEFINE clean == CleanPage(text, Pages[n], heads)
    <3>1. /\ clean = [number |-> Pages[n].number, lines |-> clean.lines,
                      defined |-> Definitions(clean.lines)]
          /\ clean.lines \in Seq(LineSet(Kinds))
          /\ InOrderOf(clean.lines)
          /\ \A k \in 1..Len(clean.lines) : LineRight(clean.lines, k)
          /\ \A i : InLines(clean.lines, i) => \E k \in 1..Len(lines) : lines[k] = i
          /\ \A k \in 1..Len(lines) :
               text[lines[k]] \notin {"blank"} \cup (heads \cap EdgeForms(text, Pages[n])) =>
                 InLines(clean.lines, lines[k])
      BY <2>1, CleanIs
    <3> HIDE DEF clean, lines, heads
    <3>2. page = clean
      BY <2>1 DEF clean
    <3> QED BY <3>1, <3>2
  <2>3. /\ DOMAIN lines = 1..Len(lines) /\ DOMAIN out = 1..Len(out)
        /\ \A k \in 1..Len(out) : DOMAIN out[k].of = 1..Len(out[k].of)
    BY <2>1, <2>2, LinesAre, LenProperties
  <2>4. \A i : i \in Of(page) <=> InLines(out, i)
    BY <2>2, OfIs
  <2> HIDE DEF lines, page, out, heads
  <2>5. \A i : i \in ToSet(lines) <=> \E k \in 1..Len(lines) : lines[k] = i
    BY <2>3 DEF ToSet
  <2>6. Said(Of(page)) \subseteq Said(ToSet(lines))
    BY <2>2, <2>4, <2>5 DEF Said
  <2>7. ASSUME NEW i \in Said(ToSet(lines)) \ Said(Of(page))
        PROVE  MayBeHead(text[i]) /\ n \in PagesHeaded(text[i])
    <3>1. text[i] \in heads \cap EdgeForms(text, Pages[n])
      BY <2>2, <2>4, <2>5, <2>7 DEF Said
    <3> QED BY <3>1, HeadMayBe DEF heads
  <2>8. ASSUME NEW k \in DOMAIN out, NEW l \in DOMAIN out,
               NEW x \in DOMAIN out[k].of, NEW y \in DOMAIN out[l].of,
               k < l \/ (k = l /\ x < y)
        PROVE  out[k].of[x] < out[l].of[y]
    BY <2>2, <2>3, <2>8 DEF InOrderOf, Ascending, AllBefore
  <2>9. ASSUME Said(Of(page)) # {}
        PROVE  \E m \in DOMAIN Process(text) :
                 Process(text)[m] = [page EXCEPT !.number = Pages[n].number]
    <3>1. PICK i : text[i] # "blank" /\ InLines(out, i)
      BY <2>4, <2>9 DEF Said
    <3>2. PICK k \in 1..Len(out) : InLine(out[k], i)
      BY <3>1 DEF InLines
    <3>3. out[k].opens # "blank"
      BY <2>2, <3>1, <3>2, SaidOpens
    <3>4. PICK m \in DOMAIN Process(text) : Process(text)[m] = page
      BY <2>3, <3>3, ProcessKeeps DEF page, out
    <3>5. [page EXCEPT !.number = Pages[n].number] = page
      BY <2>2
    <3> QED BY <3>4, <3>5
  <2> QED BY <2>6, <2>7, <2>8, <2>9 DEF lines, page, out
<1> QED BY <1>1, <1>2 DEF OnlyHeadsAreDropped

(* And for every threshold: whatever says anything comes out, in its order   *)
(* and once, but for short lines that enough pages have at an edge.         *)
THEOREM NothingElseIsLost == Spec => []OnlyHeadsAreDropped
  BY TextTypeHolds, TypeMeansWhole, PTL
==============================================================================
