------------------------ MODULE ClusterControlProofs ------------------------
(***************************************************************************)
(* The metadata layer for any brokers, shards and bounds: every state      *)
(* machine is the fold of the committed log, and what brokers believe      *)
(* about a shard implements Assignment.                                    *)
(***************************************************************************)
EXTENDS ClusterControl, WellFoundedInduction, TLAPS

-----------------------------------------------------------------------------
(* Folds over the log, as recursive functions                              *)

(* A set of numbers has a least one. *)
LEMMA Least ==
    ASSUME NEW T \in SUBSET Nat, T # {}
    PROVE  \E m \in T : \A k \in T : m <= k
  <1>1. IsWellFoundedOn(OpToRel(<, Nat), Nat) BY NatLessThanWellFounded
  <1>2. PICK m \in T : \A k \in T : ~ (<<k, m>> \in OpToRel(<, Nat))
    BY <1>1, WFMin
  <1>3. \A k \in T : ~ (k < m) BY <1>2 DEF OpToRel
  <1> QED BY <1>3

(* What holds of 0 and goes over from n to n + 1 holds of every number. *)
LEMMA Induction ==
    ASSUME NEW T \in SUBSET Nat, 0 \in T, \A n \in T : n + 1 \in T
    PROVE  T = Nat
  <1> SUFFICES ASSUME Nat \ T # {} PROVE FALSE
    OBVIOUS
  <1>1. PICK m \in Nat \ T : \A k \in Nat \ T : m <= k BY Least
  <1>2. m # 0 BY <1>1
  <1>3. m - 1 \in Nat /\ m - 1 < m BY <1>1, <1>2
  <1>4. m - 1 \in T BY <1>1, <1>3
  <1>5. (m - 1) + 1 \in T BY <1>4
  <1> QED BY <1>1, <1>5

(* The states a broker goes through while FSM.Apply works off commands     *)
(* i + 1 .. j: the first is f, each further one has applied one more.      *)
Runs(g, f, cs, i, j) ==
    g[i] = f /\ \A k \in i + 1 .. j : g[k] = FsmApply(g[k - 1], cs[k])

(* There are such states for every log. *)
LEMMA RunExists ==
    ASSUME NEW f, NEW cs, NEW i \in Nat, NEW j \in Nat, i <= j
    PROVE  \E g : Runs(g, f, cs, i, j)
  <1> DEFINE T == {d \in Nat : \E g : Runs(g, f, cs, i, i + d)}
  <1>1. 0 \in T
    <2> DEFINE g == [k \in i .. i |-> f]
    <2>1. g[i] = f OBVIOUS
    <2>2. \A k \in i + 1 .. i + 0 : g[k] = FsmApply(g[k - 1], cs[k]) OBVIOUS
    <2>3. Runs(g, f, cs, i, i + 0) BY <2>1, <2>2 DEF Runs
    <2> HIDE DEF g
    <2> QED BY <2>3
  <1>2. ASSUME NEW d \in T PROVE d + 1 \in T
    <2>1. PICK t : Runs(t, f, cs, i, i + d) OBVIOUS
    <2> DEFINE e == i + d
               u == [k \in i .. e + 1 |-> IF k = e + 1 THEN FsmApply(t[e], cs[e + 1]) ELSE t[k]]
    <2>2. e \in Nat /\ i <= e /\ d \in Nat /\ i + (d + 1) = e + 1 OBVIOUS
    <2>3. t[i] = f /\ \A k \in i + 1 .. e : t[k] = FsmApply(t[k - 1], cs[k])
      BY <2>1 DEF Runs
    <2> HIDE DEF e
    <2>4. u[i] = f BY <2>2, <2>3
    <2>5. ASSUME NEW k \in i + 1 .. e + 1 PROVE u[k] = FsmApply(u[k - 1], cs[k])
      <3>1. CASE k = e + 1
        <4>1. k - 1 = e /\ e \in i .. e + 1 /\ e # e + 1 BY <2>2, <3>1
        <4>2. u[k - 1] = t[e] /\ u[k] = FsmApply(t[e], cs[e + 1]) BY <2>2, <3>1, <4>1
        <4> QED BY <3>1, <4>2
      <3>2. CASE k # e + 1
        <4>1. k \in i + 1 .. e /\ k \in i .. e + 1 /\ k - 1 \in i .. e + 1 /\ k - 1 # e + 1
          BY <2>2, <3>2
        <4>2. u[k] = t[k] /\ u[k - 1] = t[k - 1] BY <3>2, <4>1
        <4> QED BY <2>3, <4>1, <4>2
      <3> QED BY <3>1, <3>2
    <2>6. Runs(u, f, cs, i, i + (d + 1)) BY <2>2, <2>4, <2>5 DEF Runs
    <2> HIDE DEF u
    <2> QED BY <2>2, <2>6
  <1>3. T = Nat
    <2>1. T \in SUBSET Nat OBVIOUS
    <2> HIDE DEF T
    <2> QED BY <1>1, <1>2, <2>1, Induction
  <1>4. j - i \in T /\ i + (j - i) = j
    <2>1. j - i \in Nat /\ i + (j - i) = j OBVIOUS
    <2> HIDE DEF T
    <2> QED BY <1>3, <2>1
  <1> QED BY <1>4

(* They end with the state After. *)
LEMMA AfterRuns ==
    ASSUME NEW f, NEW cs, NEW i \in Nat, NEW j \in Nat, i <= j
    PROVE  \E g : Runs(g, f, cs, i, j) /\ After(f, cs, i, j) = g[j]
  <1>1. PICK t : Runs(t, f, cs, i, j) BY RunExists
  <1> DEFINE Def(g) == [k \in i .. j |-> IF k = i THEN f ELSE FsmApply(g[k - 1], cs[k])]
             w == [k \in i .. j |-> t[k]]
             r == CHOOSE g : g = Def(g)
  <1>2. w = Def(w)
    <2>1. ASSUME NEW k \in i .. j
          PROVE  w[k] = IF k = i THEN f ELSE FsmApply(w[k - 1], cs[k])
      <3>1. CASE k = i BY <1>1, <3>1 DEF Runs
      <3>2. CASE k # i
        <4>1. k \in i + 1 .. j /\ k - 1 \in i .. j BY <3>2
        <4> QED BY <1>1, <3>2, <4>1 DEF Runs
      <3> QED BY <3>1, <3>2
    <2> QED BY <2>1
  <1>3. r = Def(r)
    <2> HIDE DEF Def
    <2> QED BY <1>2
  <1>4. After(f, cs, i, j) = r[j] BY DEF After
  <1> HIDE DEF r
  <1>5. r[i] = f
    <2>1. i \in i .. j OBVIOUS
    <2> QED BY <1>3, <2>1
  <1>6. ASSUME NEW k \in i + 1 .. j PROVE r[k] = FsmApply(r[k - 1], cs[k])
    <2>1. k \in i .. j /\ k # i OBVIOUS
    <2> QED BY <1>3, <2>1
  <1>7. Runs(r, f, cs, i, j) BY <1>5, <1>6 DEF Runs
  <1> QED BY <1>4, <1>7

(* Two runs through the same commands that meet once are the same from     *)
(* there on.                                                               *)
LEMMA RunsAgree ==
    ASSUME NEW f, NEW cs, NEW ds, NEW g, NEW h,
           NEW i \in Nat, NEW j \in Nat, i <= j,
           Runs(g, f, cs, i, j), Runs(h, f, ds, i, j),
           \A k \in i + 1 .. j : cs[k] = ds[k]
    PROVE  g[j] = h[j]
  <1> DEFINE T == {d \in Nat : i + d <= j => g[i + d] = h[i + d]}
  <1>1. 0 \in T
    <2>1. i + 0 = i OBVIOUS
    <2> QED BY <2>1 DEF Runs
  <1>2. ASSUME NEW d \in T PROVE d + 1 \in T
    <2> SUFFICES ASSUME i + (d + 1) <= j PROVE g[i + (d + 1)] = h[i + (d + 1)]
      OBVIOUS
    <2> DEFINE k == i + (d + 1)
    <2>1. d \in Nat /\ i + d <= j /\ k \in i + 1 .. j /\ k - 1 = i + d OBVIOUS
    <2>2. g[i + d] = h[i + d] BY <2>1
    <2> HIDE DEF k
    <2>3. g[k] = FsmApply(g[k - 1], cs[k]) /\ h[k] = FsmApply(h[k - 1], ds[k]) BY <2>1 DEF Runs
    <2>4. g[k] = h[k] BY <2>1, <2>2, <2>3
    <2> QED BY <2>4 DEF k
  <1>3. T = Nat
    <2>1. T \in SUBSET Nat OBVIOUS
    <2> HIDE DEF T
    <2> QED BY <1>1, <1>2, <2>1, Induction
  <1>4. j - i \in T /\ i + (j - i) = j
    <2>1. j - i \in Nat /\ i + (j - i) = j OBVIOUS
    <2> HIDE DEF T
    <2> QED BY <1>3, <2>1
  <1> QED BY <1>4

(* No command: nothing happens. *)
LEMMA AfterNone ==
    ASSUME NEW f, NEW cs, NEW i \in Nat PROVE After(f, cs, i, i) = f
  <1>1. i <= i OBVIOUS
  <1>2. PICK g : Runs(g, f, cs, i, i) /\ After(f, cs, i, i) = g[i] BY <1>1, AfterRuns
  <1> QED BY <1>2 DEF Runs

(* One more command is one more FSM.Apply. *)
LEMMA AfterOne ==
    ASSUME NEW f, NEW cs, NEW i \in Nat, NEW j \in Nat, i <= j
    PROVE  After(f, cs, i, j + 1) = FsmApply(After(f, cs, i, j), cs[j + 1])
  <1>1. PICK g : Runs(g, f, cs, i, j) /\ After(f, cs, i, j) = g[j] BY AfterRuns
  <1>2. j + 1 \in Nat /\ i <= j + 1 OBVIOUS
  <1>3. PICK h : Runs(h, f, cs, i, j + 1) /\ After(f, cs, i, j + 1) = h[j + 1]
    BY <1>2, AfterRuns
  <1>4. Runs(h, f, cs, i, j)
    <2>1. \A k \in i + 1 .. j : k \in i + 1 .. j + 1 OBVIOUS
    <2> QED BY <1>3, <2>1 DEF Runs
  <1>5. g[j] = h[j] BY <1>1, <1>4, RunsAgree
  <1>6. h[j + 1] = FsmApply(h[j], cs[j + 1])
    <2>1. j + 1 \in i + 1 .. j + 1 /\ (j + 1) - 1 = j OBVIOUS
    <2> QED BY <1>3, <2>1 DEF Runs
  <1> QED BY <1>1, <1>3, <1>5, <1>6

(* Only the commands in question matter: the log may have grown. *)
LEMMA AfterSame ==
    ASSUME NEW f, NEW cs, NEW ds, NEW i \in Nat, NEW j \in Nat, i <= j,
           \A k \in i + 1 .. j : cs[k] = ds[k]
    PROVE  After(f, cs, i, j) = After(f, ds, i, j)
  <1>1. PICK g : Runs(g, f, cs, i, j) /\ After(f, cs, i, j) = g[j] BY AfterRuns
  <1>2. PICK h : Runs(h, f, ds, i, j) /\ After(f, ds, i, j) = h[j] BY AfterRuns
  <1> QED BY <1>1, <1>2, RunsAgree

(* A state machine may stop in between, or be restored there. *)
LEMMA AfterSplice ==
    ASSUME NEW f, NEW cs, NEW i \in Nat, NEW j \in Nat, i <= j
    PROVE  After(After(f, cs, 0, i), cs, i, j) = After(f, cs, 0, j)
  <1> DEFINE a == After(f, cs, 0, i)
  <1>1. PICK g : Runs(g, f, cs, 0, j) /\ After(f, cs, 0, j) = g[j] BY AfterRuns
  <1>2. PICK e : Runs(e, f, cs, 0, i) /\ a = e[i] BY AfterRuns
  <1>3. PICK h : Runs(h, a, cs, i, j) /\ After(a, cs, i, j) = h[j] BY AfterRuns
  <1>4. Runs(g, f, cs, 0, i)
    <2>1. \A k \in 0 + 1 .. i : k \in 0 + 1 .. j OBVIOUS
    <2> QED BY <1>1, <2>1 DEF Runs
  <1>5. g[i] = a BY <1>2, <1>4, RunsAgree
  <1> HIDE DEF a
  <1>6. Runs(g, a, cs, i, j)
    <2>1. \A k \in i + 1 .. j : k \in 0 + 1 .. j OBVIOUS
    <2> QED BY <1>1, <1>5, <2>1 DEF Runs
  <1>7. g[j] = h[j] BY <1>3, <1>6, RunsAgree
  <1> QED BY <1>1, <1>3, <1>7 DEF a

-----------------------------------------------------------------------------
(* Selections from a sequence                                              *)

(* The selections of S from longer and longer beginnings of cs *)
Selects(t, cs, S, k) ==
    /\ t[0] = <<>>
    /\ \A i \in 1 .. k : t[i] = IF cs[i] \in S THEN Append(t[i - 1], cs[i]) ELSE t[i - 1]

(* There are such selections, *)
LEMMA SelectionExists ==
    ASSUME NEW cs, NEW S, NEW k \in Nat PROVE \E t : Selects(t, cs, S, k)
  <1> DEFINE Step(x, i) == IF cs[i] \in S THEN Append(x, cs[i]) ELSE x
             T == {d \in Nat : \E t : Selects(t, cs, S, d)}
  <1>1. 0 \in T
    <2> DEFINE t == [i \in 0 .. 0 |-> <<>>]
    <2>1. Selects(t, cs, S, 0) BY DEF Selects
    <2> HIDE DEF t
    <2> QED BY <2>1
  <1>2. ASSUME NEW d \in T PROVE d + 1 \in T
    <2>1. PICK t : Selects(t, cs, S, d) OBVIOUS
    <2>2. d \in Nat OBVIOUS
    <2>3. t[0] = <<>> /\ \A i \in 1 .. d : t[i] = Step(t[i - 1], i) BY <2>1 DEF Selects
    <2> HIDE DEF Step
    <2> DEFINE u == [i \in 0 .. d + 1 |-> IF i = d + 1 THEN Step(t[d], d + 1) ELSE t[i]]
    <2>4. u[0] = <<>> BY <2>2, <2>3
    <2>5. ASSUME NEW i \in 1 .. d + 1 PROVE u[i] = Step(u[i - 1], i)
      <3>1. CASE i = d + 1
        <4>1. i - 1 = d /\ d \in 0 .. d + 1 /\ d # d + 1 BY <2>2, <3>1
        <4>2. u[i - 1] = t[d] /\ u[i] = Step(t[d], d + 1) BY <2>2, <3>1, <4>1
        <4> QED BY <3>1, <4>2
      <3>2. CASE i # d + 1
        <4>1. i \in 1 .. d /\ i \in 0 .. d + 1 /\ i - 1 \in 0 .. d + 1 /\ i - 1 # d + 1
          BY <2>2, <3>2
        <4>2. u[i] = t[i] /\ u[i - 1] = t[i - 1] BY <3>2, <4>1
        <4> QED BY <2>3, <4>1, <4>2
      <3> QED BY <3>1, <3>2
    <2> HIDE DEF u
    <2>6. Selects(u, cs, S, d + 1) BY <2>4, <2>5 DEF Selects, Step
    <2> QED BY <2>2, <2>6
  <1>3. T = Nat
    <2>1. T \in SUBSET Nat OBVIOUS
    <2> HIDE DEF T
    <2> QED BY <1>1, <1>2, <2>1, Induction
  <1>4. k \in T
    <2> HIDE DEF T
    <2> QED BY <1>3
  <1> QED BY <1>4

(* and Selected is the last of them. *)
LEMMA SelectedSelects ==
    ASSUME NEW cs, NEW S, NEW k \in Nat
    PROVE  \E t : Selects(t, cs, S, k) /\ Selected(cs, S, k) = t[k]
  <1> DEFINE Step(x, i) == IF cs[i] \in S THEN Append(x, cs[i]) ELSE x
  <1>1. PICK t : Selects(t, cs, S, k) BY SelectionExists
  <1>2. t[0] = <<>> /\ \A i \in 1 .. k : t[i] = Step(t[i - 1], i) BY <1>1 DEF Selects
  <1> HIDE DEF Step
  <1> DEFINE Def(g) == [i \in 0 .. k |-> IF i = 0 THEN <<>> ELSE Step(g[i - 1], i)]
             w == [i \in 0 .. k |-> t[i]]
             r == CHOOSE g : g = Def(g)
  <1>3. w = Def(w)
    <2>1. ASSUME NEW i \in 0 .. k
          PROVE  w[i] = IF i = 0 THEN <<>> ELSE Step(w[i - 1], i)
      <3>1. CASE i = 0 BY <1>2, <3>1
      <3>2. CASE i # 0
        <4>1. i \in 1 .. k /\ i - 1 \in 0 .. k BY <3>2
        <4> QED BY <1>2, <3>2, <4>1
      <3> QED BY <3>1, <3>2
    <2> QED BY <2>1
  <1>4. r = Def(r)
    <2> HIDE DEF Def
    <2> QED BY <1>3
  <1>5. Selected(cs, S, k) = r[k] BY DEF Selected, Step
  <1> HIDE DEF r
  <1>6. r[0] = <<>> BY <1>4
  <1>7. ASSUME NEW i \in 1 .. k PROVE r[i] = Step(r[i - 1], i)
    <2>1. i \in 0 .. k /\ i # 0 OBVIOUS
    <2> QED BY <1>4, <2>1
  <1>8. Selects(r, cs, S, k) BY <1>6, <1>7 DEF Selects, Step
  <1> QED BY <1>5, <1>8

(* Only the beginning in question matters. *)
LEMMA SelectionsAgree ==
    ASSUME NEW cs, NEW ds, NEW S, NEW k \in Nat, NEW t, NEW u,
           Selects(t, cs, S, k), Selects(u, ds, S, k), \A i \in 1 .. k : cs[i] = ds[i]
    PROVE  t[k] = u[k]
  <1> DEFINE T == {d \in Nat : d <= k => t[d] = u[d]}
  <1>1. 0 \in T BY DEF Selects
  <1>2. ASSUME NEW d \in T PROVE d + 1 \in T
    <2> SUFFICES ASSUME d + 1 <= k PROVE t[d + 1] = u[d + 1]
      OBVIOUS
    <2> DEFINE e == d + 1
    <2>1. d \in Nat /\ d <= k /\ e \in 1 .. k /\ e - 1 = d OBVIOUS
    <2>2. t[d] = u[d] BY <2>1
    <2> HIDE DEF e
    <2>3. /\ t[e] = IF cs[e] \in S THEN Append(t[e - 1], cs[e]) ELSE t[e - 1]
          /\ u[e] = IF ds[e] \in S THEN Append(u[e - 1], ds[e]) ELSE u[e - 1]
      BY <2>1 DEF Selects
    <2>4. t[e] = u[e] BY <2>1, <2>2, <2>3
    <2> QED BY <2>4 DEF e
  <1>3. T = Nat
    <2>1. T \in SUBSET Nat OBVIOUS
    <2> HIDE DEF T
    <2> QED BY <1>1, <1>2, <2>1, Induction
  <1>4. k \in T
    <2> HIDE DEF T
    <2> QED BY <1>3
  <1> QED BY <1>4

(* So Selected gives the same for logs that agree so far: the log of       *)
(* metadata.go only grows.                                                 *)
LEMMA SelectedSame ==
    ASSUME NEW cs, NEW ds, NEW S, NEW k \in Nat, \A i \in 1 .. k : cs[i] = ds[i]
    PROVE  Selected(cs, S, k) = Selected(ds, S, k)
  <1>1. PICK t : Selects(t, cs, S, k) /\ Selected(cs, S, k) = t[k] BY SelectedSelects
  <1>2. PICK u : Selects(u, ds, S, k) /\ Selected(ds, S, k) = u[k] BY SelectedSelects
  <1> QED BY <1>1, <1>2, SelectionsAgree

(* The selection from nothing is empty; one more element is appended if it *)
(* is in S.                                                                *)
LEMMA SelectedNone ==
    ASSUME NEW cs, NEW S PROVE Selected(cs, S, 0) = <<>>
  <1>1. PICK t : Selects(t, cs, S, 0) /\ Selected(cs, S, 0) = t[0] BY SelectedSelects
  <1> QED BY <1>1 DEF Selects

(* One more element is appended if it is in S. *)
LEMMA SelectedOne ==
    ASSUME NEW cs, NEW S, NEW k \in Nat
    PROVE  Selected(cs, S, k + 1)
              = IF cs[k + 1] \in S THEN Append(Selected(cs, S, k), cs[k + 1])
                ELSE Selected(cs, S, k)
  <1>1. PICK t : Selects(t, cs, S, k) /\ Selected(cs, S, k) = t[k] BY SelectedSelects
  <1> DEFINE e == k + 1
  <1>2. e \in Nat /\ e \in 1 .. e /\ e - 1 = k OBVIOUS
  <1>3. \A i \in 1 .. k : i \in 1 .. e OBVIOUS
  <1> HIDE DEF e
  <1>4. PICK u : Selects(u, cs, S, e) /\ Selected(cs, S, e) = u[e]
    BY <1>2, SelectedSelects
  <1>5. Selects(u, cs, S, k) BY <1>3, <1>4 DEF Selects
  <1>6. t[k] = u[k] BY <1>1, <1>5, SelectionsAgree
  <1>7. u[e] = IF cs[e] \in S THEN Append(u[e - 1], cs[e]) ELSE u[e - 1]
    BY <1>2, <1>4 DEF Selects
  <1> QED BY <1>1, <1>2, <1>4, <1>6, <1>7 DEF e

(* A selection has only members of S, *)
LEMMA SelectedType ==
    ASSUME NEW cs, NEW S, NEW k \in Nat PROVE Selected(cs, S, k) \in Seq(S)
  <1> DEFINE T == {d \in Nat : Selected(cs, S, d) \in Seq(S)}
  <1>1. 0 \in T
    <2>1. <<>> \in Seq(S) OBVIOUS
    <2> QED BY <2>1, SelectedNone
  <1>2. ASSUME NEW d \in T PROVE d + 1 \in T
    <2> DEFINE x == Selected(cs, S, d)
               y == Selected(cs, S, d + 1)
    <2>1. d \in Nat /\ x \in Seq(S) OBVIOUS
    <2>2. y = IF cs[d + 1] \in S THEN Append(x, cs[d + 1]) ELSE x BY <2>1, SelectedOne
    <2> HIDE DEF x, y
    <2>3. y \in Seq(S)
      <3>1. CASE cs[d + 1] \in S BY <2>1, <2>2, <3>1
      <3>2. CASE cs[d + 1] \notin S BY <2>1, <2>2, <3>2
      <3> QED BY <3>1, <3>2
    <2> QED BY <2>1, <2>3 DEF y
  <1>3. T = Nat
    <2>1. T \in SUBSET Nat OBVIOUS
    <2> HIDE DEF T
    <2> QED BY <1>1, <1>2, <2>1, Induction
  <1> QED BY <1>3

(* all of the beginning that are in S, hence something if there is one,    *)
LEMMA SelectedFound ==
    ASSUME NEW cs, NEW S, NEW k \in Nat, NEW i \in 1 .. k, cs[i] \in S
    PROVE  Selected(cs, S, k) # <<>>
  <1> DEFINE T == {d \in Nat : d >= i => Selected(cs, S, d) # <<>>}
  <1>1. 0 \in T OBVIOUS
  <1>2. ASSUME NEW d \in T PROVE d + 1 \in T
    <2> DEFINE x == Selected(cs, S, d)
               y == Selected(cs, S, d + 1)
    <2>1. d \in Nat /\ x \in Seq(S) BY SelectedType
    <2>2. y = IF cs[d + 1] \in S THEN Append(x, cs[d + 1]) ELSE x BY <2>1, SelectedOne
    <2>3. d >= i => x # <<>> OBVIOUS
    <2> HIDE DEF x, y
    <2>4. ASSUME d + 1 >= i PROVE y # <<>>
      <3>1. CASE cs[d + 1] \in S
        <4>1. Len(y) = Len(x) + 1 /\ Len(x) \in Nat BY <2>1, <2>2, <3>1
        <4> QED BY <4>1
      <3>2. CASE cs[d + 1] \notin S
        <4>1. d + 1 # i BY <3>2
        <4>2. d >= i BY <2>1, <2>4, <4>1
        <4> QED BY <2>2, <2>3, <3>2, <4>2
      <3> QED BY <3>1, <3>2
    <2> QED BY <2>1, <2>4 DEF y
  <1>3. T = Nat
    <2>1. T \in SUBSET Nat OBVIOUS
    <2> HIDE DEF T
    <2> QED BY <1>1, <1>2, <2>1, Induction
  <1>4. k \in T
    <2> HIDE DEF T
    <2> QED BY <1>3
  <1> QED BY <1>4

(* and that of a shorter beginning is its beginning. *)
LEMMA SelectedPrefix ==
    ASSUME NEW cs, NEW S, NEW j \in Nat, NEW k \in Nat, j <= k
    PROVE  /\ Len(Selected(cs, S, j)) <= Len(Selected(cs, S, k))
           /\ \A i \in 1 .. Len(Selected(cs, S, j)) :
                 Selected(cs, S, k)[i] = Selected(cs, S, j)[i]
  <1> DEFINE a == Selected(cs, S, j)
             Good(b) == Len(a) <= Len(b) /\ \A i \in 1 .. Len(a) : b[i] = a[i]
             T == {d \in Nat : d >= j => Good(Selected(cs, S, d))}
  <1>1. a \in Seq(S) BY SelectedType
  <1>2. Len(a) \in Nat BY <1>1
  <1>3. j \in Nat /\ Good(Selected(cs, S, j)) BY <1>2
  <1>4. 0 \in T
    <2>1. 0 >= j => j = 0 OBVIOUS
    <2> QED BY <1>3, <2>1
  <1>5. ASSUME NEW d \in T PROVE d + 1 \in T
    <2> DEFINE x == Selected(cs, S, d)
               y == Selected(cs, S, d + 1)
    <2>1. d \in Nat /\ x \in Seq(S) BY SelectedType
    <2>2. y = IF cs[d + 1] \in S THEN Append(x, cs[d + 1]) ELSE x BY <2>1, SelectedOne
    <2>3. d >= j => Good(x) OBVIOUS
    <2>4. d + 1 = j => Good(y) BY <1>3
    <2> HIDE DEF x, y, a
    <2>5. ASSUME d + 1 >= j PROVE Good(y)
      <3>1. CASE d + 1 = j BY <2>4, <3>1
      <3>2. CASE d + 1 # j
        <4>1. d >= j BY <2>1, <2>5, <3>2
        <4>2. Len(a) <= Len(x) /\ \A i \in 1 .. Len(a) : x[i] = a[i] BY <2>3, <4>1
        <4>3. CASE cs[d + 1] \in S
          <5>1. /\ Len(y) = Len(x) + 1 /\ Len(x) \in Nat
                /\ \A i \in 1 .. Len(x) : y[i] = x[i]
            BY <2>1, <2>2, <4>3
          <5>2. \A i \in 1 .. Len(a) : i \in 1 .. Len(x) BY <1>2, <4>2, <5>1
          <5> QED BY <1>2, <4>2, <5>1, <5>2
        <4>4. CASE cs[d + 1] \notin S BY <2>2, <4>2, <4>4
        <4> QED BY <4>3, <4>4
      <3> QED BY <3>1, <3>2
    <2> HIDE DEF Good
    <2> QED BY <2>1, <2>5 DEF y
  <1>6. T = Nat
    <2>1. T \in SUBSET Nat OBVIOUS
    <2> HIDE DEF T
    <2> QED BY <1>4, <1>5, <2>1, Induction
  <1>7. k \in T
    <2> HIDE DEF T
    <2> QED BY <1>6
  <1>8. Good(Selected(cs, S, k)) BY <1>7
  <1> QED BY <1>8

-----------------------------------------------------------------------------
(* The log and the state machines                                          *)

(* FSM.Apply of a command that is issued keeps the type of the state       *)
(* machine; a new one has it.                                              *)
LEMMA FsmTyped ==
    ASSUME conf \in Config, NEW f \in FSMs, NEW c \in Commands
    PROVE  FsmApply(f, c) \in FSMs
  <1>1. /\ f = [members |-> f.members, leaders |-> f.leaders, count |-> f.count]
        /\ f.members \in SUBSET Nodes /\ f.leaders \in [Shards -> Nodes \cup {None}]
        /\ f.count \in {0, conf.shards}
    BY DEF FSMs
  <1>2. CASE c.op = "register_member"
    <2>1. FsmApply(f, c) = [f EXCEPT !.members = @ \cup {c.node}] BY <1>2 DEF FsmApply
    <2>2. c.node \in Nodes BY <1>2 DEF Commands
    <2> QED BY <1>1, <2>1, <2>2 DEF FSMs
  <1>3. CASE c.op = "set_shard_leader"
    <2>1. FsmApply(f, c) = [f EXCEPT !.leaders = [f.leaders EXCEPT ![c.shard] = c.node]]
      BY <1>3 DEF FsmApply
    <2>2. c.node \in Nodes BY <1>3 DEF Commands
    <2>3. [f.leaders EXCEPT ![c.shard] = c.node] \in [Shards -> Nodes \cup {None}]
      BY <1>1, <2>2
    <2> QED BY <1>1, <2>1, <2>3 DEF FSMs
  <1>4. CASE c.op = "set_shard_count"
    <2>1. FsmApply(f, c) = [f EXCEPT !.count = c.shard] BY <1>4 DEF FsmApply
    <2>2. c.shard = conf.shards BY <1>4 DEF Commands
    <2> QED BY <1>1, <2>1, <2>2 DEF FSMs
  <1> QED BY <1>2, <1>3, <1>4 DEF Commands

(* A state machine as NewFSM makes it has the type. *)
LEMMA NewTyped == ASSUME conf \in Config PROVE NewFSM \in FSMs
  BY DEF NewFSM, FSMs

(* So the state after any part of a log has it. *)
LEMMA AfterTyped ==
    ASSUME conf \in Config, NEW cs \in Seq(Commands), NEW k \in 0 .. Len(cs)
    PROVE  After(NewFSM, cs, 0, k) \in FSMs
  <1> DEFINE T == {d \in Nat : d <= Len(cs) => After(NewFSM, cs, 0, d) \in FSMs}
  <1>1. 0 \in T BY AfterNone, NewTyped
  <1>2. ASSUME NEW d \in T PROVE d + 1 \in T
    <2> SUFFICES ASSUME d + 1 <= Len(cs) PROVE After(NewFSM, cs, 0, d + 1) \in FSMs
      OBVIOUS
    <2>1. d \in Nat /\ 0 <= d /\ d <= Len(cs) /\ d + 1 \in 1 .. Len(cs) OBVIOUS
    <2>2. After(NewFSM, cs, 0, d) \in FSMs BY <2>1
    <2>3. cs[d + 1] \in Commands BY <2>1
    <2>4. After(NewFSM, cs, 0, d + 1) = FsmApply(After(NewFSM, cs, 0, d), cs[d + 1])
      BY <2>1, AfterOne
    <2> QED BY <2>2, <2>3, <2>4, FsmTyped
  <1>3. T = Nat
    <2>1. T \in SUBSET Nat OBVIOUS
    <2> HIDE DEF T
    <2> QED BY <1>1, <1>2, <2>1, Induction
  <1>4. k \in T /\ k <= Len(cs)
    <2>1. k \in Nat /\ k <= Len(cs) OBVIOUS
    <2> HIDE DEF T
    <2> QED BY <1>3, <2>1
  <1> QED BY <1>4

(* What is restored from a snapshot is the state at its index. *)
SnapIsLog ==
    \A n \in Nodes : snap[n].state = After(NewFSM, log, 0, snap[n].index)

IndInv == TypeOK /\ FsmIsLog /\ SnapIsLog

(* What a broker's step may do to the log and to the others' places in it. *)
Advances(n) ==
    /\ conf' = conf
    /\ log' = log \/ \E c \in Commands : log' = Append(log, c)
    /\ \A m \in Nodes \ {n} : applied'[m] = applied[m]

(* The log part of TypeOK *)
LogOK ==
    /\ log \in Seq(Commands) /\ fsm \in [Nodes -> FSMs] /\ applied \in [Nodes -> Nat]
    /\ \A n \in Nodes : applied[n] <= Len(log) /\ snap[n].index <= Len(log)
    /\ spent \in [Bounds -> Nat]

(* Spending one of a bound keeps the account a map of numbers. *)
LEMMA Spent ==
    ASSUME spent \in [Bounds -> Nat], NEW b \in Bounds, Spend(b)
    PROVE  spent' \in [Bounds -> Nat]
  BY DEF Spend

(* The sets that depend on the scenario do not change with the state. *)
LEMMA Fixed ==
    ASSUME conf' = conf
    PROVE  /\ Shards' = Shards /\ Commands' = Commands /\ FSMs' = FSMs
           /\ NewFSM' = NewFSM
  BY DEF Shards, Commands, FSMs, NewFSM

(* A log that grows at its end leaves every state machine what it was. *)
LEMMA LogGrows ==
    ASSUME IndInv, NEW c \in Commands
    PROVE  /\ Append(log, c) \in Seq(Commands) /\ Len(Append(log, c)) = Len(log) + 1
           /\ Append(log, c)[Len(log) + 1] = c
           /\ \A k \in 1 .. Len(log) : Append(log, c)[k] = log[k]
           /\ \A k \in 0 .. Len(log) :
                 After(NewFSM, Append(log, c), 0, k) = After(NewFSM, log, 0, k)
  <1>1. log \in Seq(Commands) BY DEF IndInv, TypeOK
  <1> DEFINE l == Append(log, c)
  <1>2. /\ l \in Seq(Commands) /\ Len(l) = Len(log) + 1 /\ l[Len(log) + 1] = c
        /\ \A k \in 1 .. Len(log) : l[k] = log[k] /\ Len(log) \in Nat
    BY <1>1
  <1>3. Len(log) \in Nat BY <1>1
  <1> HIDE DEF l
  <1>4. ASSUME NEW k \in 0 .. Len(log)
        PROVE  After(NewFSM, l, 0, k) = After(NewFSM, log, 0, k)
    <2>1. k \in Nat /\ 0 <= k /\ \A i \in 0 + 1 .. k : i \in 1 .. Len(log) BY <1>3
    <2>2. \A i \in 0 + 1 .. k : l[i] = log[i] BY <1>2, <2>1
    <2> QED BY <2>1, <2>2, AfterSame
  <1> QED BY <1>2, <1>4 DEF l

(* Metadata.Apply, in each of its three outcomes, keeps every state        *)
(* machine the fold of the log: a leader that commits applies what it had  *)
(* not applied before, one that gave up on a command applies it later.     *)
LEMMA ApplyKeeps ==
    ASSUME IndInv, conf' = conf, snap' = snap, NEW n \in Nodes, NEW c \in Commands,
           Apply(n, c) \/ NoApply
    PROVE  LogOK' /\ FsmIsLog' /\ SnapIsLog' /\ Advances(n)
  <1>1. /\ conf \in Config /\ log \in Seq(Commands) /\ fsm \in [Nodes -> FSMs]
        /\ applied \in [Nodes -> Nat] /\ spent \in [Bounds -> Nat]
        /\ snap \in [Nodes -> [state : FSMs, index : Nat]]
        /\ \A m \in Nodes : applied[m] <= Len(log) /\ snap[m].index <= Len(log)
    BY DEF IndInv, TypeOK
  <1>2. Len(log) \in Nat /\ \A m \in Nodes : snap[m].index \in Nat BY <1>1
  <1>3. /\ Shards' = Shards /\ Commands' = Commands /\ FSMs' = FSMs /\ NewFSM' = NewFSM
    BY Fixed
  <1>4. /\ \A m \in Nodes : fsm[m] = After(NewFSM, log, 0, applied[m])
        /\ \A m \in Nodes : snap[m].state = After(NewFSM, log, 0, snap[m].index)
    BY DEF IndInv, FsmIsLog, SnapIsLog
  <1>5. CASE UNCHANGED <<log, fsm, applied, spent>>
    BY <1>1, <1>3, <1>4, <1>5 DEF LogOK, FsmIsLog, SnapIsLog, Advances
  <1>6. ASSUME log' = Append(log, c)
        PROVE  /\ log' \in Seq(Commands) /\ Len(log') = Len(log) + 1
               /\ \A k \in 0 .. Len(log) : After(NewFSM, log', 0, k) = After(NewFSM, log, 0, k)
    BY <1>6, LogGrows
  <1>7. ASSUME log' = Append(log, c) PROVE SnapIsLog'
    <2>1. ASSUME NEW m \in Nodes
          PROVE  snap[m].state = After(NewFSM, log', 0, snap[m].index)
      <3>1. snap[m].index \in 0 .. Len(log) BY <1>1, <1>2
      <3> QED BY <1>4, <1>6, <1>7, <3>1
    <2> QED BY <1>3, <2>1 DEF SnapIsLog
  <1>8. CASE log' = Append(log, c) /\ UNCHANGED <<fsm, applied>> /\ Spend("timeouts")
    <2>1. spent' \in [Bounds -> Nat] BY <1>1, <1>8, Spent DEF Bounds
    <2>2. ASSUME NEW m \in Nodes PROVE fsm'[m] = After(NewFSM', log', 0, applied'[m])
      <3>1. applied[m] \in 0 .. Len(log) BY <1>1, <1>2
      <3> QED BY <1>3, <1>4, <1>6, <1>8, <3>1
    <2>3. ASSUME NEW m \in Nodes PROVE applied'[m] <= Len(log') /\ snap'[m].index <= Len(log')
      BY <1>1, <1>2, <1>6, <1>8
    <2>4. LogOK' BY <1>1, <1>3, <1>6, <1>8, <2>1, <2>3 DEF LogOK
    <2>5. Advances(n) BY <1>8 DEF Advances
    <2> QED BY <1>7, <1>8, <2>2, <2>4, <2>5 DEF FsmIsLog
  <1>9. CASE /\ log' = Append(log, c)
             /\ fsm' = [fsm EXCEPT ![n] = After(@, log', applied[n], Len(log) + 1)]
             /\ applied' = [applied EXCEPT ![n] = Len(log) + 1]
             /\ UNCHANGED spent
    <2> DEFINE e == Len(log) + 1
    <2>1. e \in Nat /\ applied[n] \in 0 .. Len(log) /\ applied[n] \in Nat /\ applied[n] <= e
      BY <1>1, <1>2
    <2>2. fsm[n] = After(NewFSM, log', 0, applied[n]) BY <1>4, <1>6, <1>9, <2>1
    <2>3. fsm'[n] = After(NewFSM, log', 0, e)
      <3>1. fsm'[n] = After(fsm[n], log', applied[n], e) BY <1>1, <1>9
      <3> HIDE DEF e
      <3> QED BY <2>1, <2>2, <3>1, AfterSplice
    <2>4. fsm'[n] \in FSMs
      <3>1. e \in 0 .. Len(log') BY <1>2, <1>6, <1>9
      <3> HIDE DEF e
      <3> QED BY <1>1, <1>6, <1>9, <2>3, <3>1, AfterTyped
    <2>5. fsm' \in [Nodes -> FSMs] /\ applied' \in [Nodes -> Nat] /\ applied'[n] = e
      BY <1>1, <1>9, <2>1, <2>4
    <2>6. ASSUME NEW m \in Nodes PROVE fsm'[m] = After(NewFSM', log', 0, applied'[m])
      <3>1. CASE m = n BY <1>3, <2>3, <2>5, <3>1
      <3>2. CASE m # n
        <4>1. fsm'[m] = fsm[m] /\ applied'[m] = applied[m] BY <1>1, <1>9, <3>2
        <4>2. applied[m] \in 0 .. Len(log) BY <1>1, <1>2
        <4> QED BY <1>3, <1>4, <1>6, <1>9, <4>1, <4>2
      <3> QED BY <3>1, <3>2
    <2>7. ASSUME NEW m \in Nodes PROVE applied'[m] <= Len(log') /\ snap'[m].index <= Len(log')
      <3>1. CASE m = n BY <1>1, <1>2, <1>6, <1>9, <2>5, <3>1
      <3>2. CASE m # n BY <1>1, <1>2, <1>6, <1>9, <3>2
      <3> QED BY <3>1, <3>2
    <2>8. LogOK' BY <1>1, <1>3, <1>6, <1>9, <2>5, <2>7 DEF LogOK
    <2>9. Advances(n) BY <1>1, <1>9 DEF Advances
    <2> QED BY <1>7, <1>9, <2>6, <2>8, <2>9 DEF FsmIsLog
  <1> QED BY <1>5, <1>8, <1>9 DEF Apply, NoApply

-----------------------------------------------------------------------------
(* The invariant                                                           *)

(* The parts of TypeOK that bootstrapAndAssign and the loops write *)
BootOK ==
    /\ todo \in [Nodes -> SUBSET Nodes]
    /\ boot \in [Nodes -> {"wait", "count", "peers", "loops"}]

PlanOK ==
    /\ plan \in [Nodes -> [on : BOOLEAN, shard : Nat, leaders : [Shards -> Nodes \cup {None}],
                           alive : Seq(Nodes), next : Nat]]
    /\ \A n \in Nodes : plan[n].on => plan[n].shard \in Shards /\ plan[n].alive # <<>>

(* No plan has the type of one. *)
LEMMA NoPlanTyped ==
    NoPlan \in [on : BOOLEAN, shard : Nat, leaders : [Shards -> Nodes \cup {None}],
                alive : Seq(Nodes), next : Nat] /\ ~ NoPlan.on
  <1>1. <<>> \in Seq(Nodes) OBVIOUS
  <1>2. NewFSM.leaders \in [Shards -> Nodes \cup {None}] BY DEF NewFSM
  <1> QED BY <1>1, <1>2 DEF NoPlan

(* The cluster as Start finds it satisfies the invariant. *)
LEMMA IndInit == Init => IndInv
  <1> SUFFICES ASSUME Init PROVE IndInv
    OBVIOUS
  <1>1. conf \in Config BY ClusterAssumption DEF Init
  <1>2. NewFSM \in FSMs BY <1>1, NewTyped
  <1>3. conf.brokers \in SUBSET Nodes BY <1>1 DEF Config
  <1>4. log \in Seq(Commands) /\ Len(log) = 0 BY DEF Init
  <1>5. NoPlan \in [on : BOOLEAN, shard : Nat, leaders : [Shards -> Nodes \cup {None}],
                    alive : Seq(Nodes), next : Nat] /\ ~ NoPlan.on
    BY NoPlanTyped
  <1>6. alive \in [Nodes -> SUBSET Nodes] BY <1>3 DEF Init
  <1>7. TypeOK BY <1>1, <1>2, <1>3, <1>4, <1>5, <1>6 DEF Init, TypeOK
  <1>8. \A cs : After(NewFSM, cs, 0, 0) = NewFSM BY AfterNone
  <1>9. FsmIsLog BY <1>8 DEF Init, FsmIsLog
  <1>10. SnapIsLog BY <1>8 DEF Init, SnapIsLog
  <1> QED BY <1>7, <1>9, <1>10 DEF IndInv

(* A step that leaves log, state machines and snapshots alone leaves what  *)
(* is said of them alone.                                                  *)
LEMMA LogStill ==
    ASSUME IndInv, conf' = conf, UNCHANGED <<log, fsm, applied, snap>>, NEW n \in Nodes
    PROVE  FsmIsLog' /\ SnapIsLog' /\ Advances(n)
  BY Fixed DEF IndInv, FsmIsLog, SnapIsLog, Advances

(* registerSelf, BootstrapShardCount, the registration of peers and its    *)
(* retries: one command, or none.                                          *)
LEMMA BootKeeps ==
    ASSUME IndInv, NEW n \in Nodes, Booting(n) \/ retryRegister(n)
    PROVE  IndInv' /\ Advances(n)
  <1> USE DEF IndInv
  <1>1. /\ conf \in Config /\ conf.brokers \in SUBSET Nodes /\ conf.shards \in Nat
        /\ todo \in [Nodes -> SUBSET Nodes]
        /\ boot \in [Nodes -> {"wait", "count", "peers", "loops"}]
    BY DEF TypeOK, Config
  <1>2. ASSUME conf' = conf, UNCHANGED <<up, raft, snap, alive, plan>>, BootOK', LogOK'
        PROVE  TypeOK'
    BY <1>2, Fixed DEF TypeOK, BootOK, LogOK
  <1>3. \A m \in Nodes : RegisterMember(m) \in Commands BY DEF RegisterMember, Commands
  <1>4. SetShardCount(conf.shards) \in Commands BY <1>1 DEF SetShardCount, Commands
  <1>5. CASE registerSelf(n)
    <2>1. conf' = conf /\ UNCHANGED <<up, raft, snap, alive, plan, todo>> BY <1>5 DEF registerSelf
    <2>2. BootOK' BY <1>1, <1>5, <2>1 DEF registerSelf, BootOK
    <2>3. LogOK' /\ FsmIsLog' /\ SnapIsLog' /\ Advances(n)
      BY <1>3, <1>5, <2>1, ApplyKeeps DEF registerSelf
    <2> QED BY <1>2, <2>1, <2>2, <2>3
  <1>6. CASE BootstrapShardCount(n)
    <2>1. conf' = conf /\ UNCHANGED <<up, raft, snap, alive, plan, todo>>
      BY <1>6 DEF BootstrapShardCount
    <2>2. BootOK' BY <1>1, <1>6, <2>1 DEF BootstrapShardCount, BootOK
    <2>3. Apply(n, SetShardCount(conf.shards)) \/ NoApply BY <1>6 DEF BootstrapShardCount
    <2>4. LogOK' /\ FsmIsLog' /\ SnapIsLog' /\ Advances(n) BY <1>4, <2>1, <2>3, ApplyKeeps
    <2> QED BY <1>2, <2>1, <2>2, <2>4
  <1>7. CASE PeersToRegister(n)
    <2>1. conf' = conf /\ UNCHANGED <<up, raftVars, alive, plan, spent>>
      BY <1>7 DEF PeersToRegister
    <2>2. BootOK' BY <1>1, <1>7 DEF PeersToRegister, BootOK
    <2>3. FsmIsLog' /\ SnapIsLog' /\ Advances(n) BY <2>1, LogStill DEF raftVars
    <2>4. TypeOK' BY <2>1, <2>2, Fixed DEF TypeOK, BootOK, raftVars
    <2> QED BY <2>3, <2>4
  <1>8. CASE RegisterPeer(n)
    <2>1. conf' = conf /\ UNCHANGED <<up, raft, snap, alive, plan, boot>> BY <1>8 DEF RegisterPeer
    <2>2. PICK p \in todo[n] :
              Apply(n, RegisterMember(p)) /\ todo' = [todo EXCEPT ![n] = @ \ {p}]
      BY <1>8 DEF RegisterPeer
    <2>3. p \in Nodes BY <1>1, <2>2
    <2>4. BootOK' BY <1>1, <2>1, <2>2 DEF BootOK
    <2>5. LogOK' /\ FsmIsLog' /\ SnapIsLog' /\ Advances(n)
      BY <1>3, <2>1, <2>2, <2>3, ApplyKeeps
    <2> QED BY <1>2, <2>1, <2>4, <2>5
  <1>9. CASE retryRegister(n)
    <2>1. conf' = conf /\ UNCHANGED <<up, raft, snap, alive, plan, boot, todo>>
      BY <1>9 DEF retryRegister
    <2>2. BootOK' BY <1>1, <2>1 DEF BootOK
    <2>3. LogOK' /\ FsmIsLog' /\ SnapIsLog' /\ Advances(n)
      BY <1>3, <1>9, <2>1, ApplyKeeps DEF retryRegister
    <2> QED BY <1>2, <2>1, <2>2, <2>3
  <1> QED BY <1>5, <1>6, <1>7, <1>8, <1>9 DEF Booting

(* Plan: a plan that begins has brokers to choose from; one that goes on   *)
(* has a shard left; the target it names is a broker.                      *)
LEMMA PlanKeeps ==
    ASSUME IndInv, NEW n \in Nodes, StartPlan(n) \/ PlanShard(n)
    PROVE  IndInv' /\ Advances(n)
  <1> USE DEF IndInv
  <1> DEFINE P == [on : BOOLEAN, shard : Nat, leaders : [Shards -> Nodes \cup {None}],
                   alive : Seq(Nodes), next : Nat]
             p == plan[n]
  <1>1. /\ conf \in Config /\ conf.shards \in Nat \ {0} /\ plan \in [Nodes -> P]
        /\ \A m \in Nodes : plan[m].on => plan[m].shard \in Shards /\ plan[m].alive # <<>>
        /\ fsm[n] \in FSMs /\ alive[n] \in SUBSET Nodes
    BY DEF TypeOK, Config
  <1>2. fsm[n].count \in {0, conf.shards} /\ fsm[n].leaders \in [Shards -> Nodes \cup {None}]
    BY <1>1 DEF FSMs
  <1>3. CASE StartPlan(n)
    <2> DEFINE a == Sorted(alive[n])
               q == [on |-> TRUE, shard |-> 0, leaders |-> fsm[n].leaders,
                     alive |-> a, next |-> 0]
    <2>1. conf' = conf /\ UNCHANGED <<up, raftVars, alive, boot, todo, spent>>
          /\ plan' = [plan EXCEPT ![n] = q]
      BY <1>3 DEF StartPlan
    <2>2. NodeOrder \in Seq(Nodes) /\ Len(NodeOrder) \in Nat BY ClusterAssumption
    <2>3. a \in Seq(Nodes)
      <3>1. a \in Seq(alive[n]) BY <2>2, SelectedType DEF Sorted
      <3> QED BY <1>1, <3>1
    <2>4. a # <<>>
      <3>1. PICK m \in alive[n] : TRUE BY <1>3 DEF StartPlan
      <3>2. PICK i \in 1 .. Len(NodeOrder) : NodeOrder[i] = m BY <1>1, <3>1, ClusterAssumption
      <3> QED BY <2>2, <3>1, <3>2, SelectedFound DEF Sorted
    <2>5. 0 \in Shards BY <1>1 DEF Shards
    <2> HIDE DEF a
    <2>6. q \in P BY <1>2, <2>3
    <2>7. q.on => q.shard \in Shards /\ q.alive # <<>> BY <2>4, <2>5
    <2> HIDE DEF P, q
    <2>8. plan' \in [Nodes -> P] /\ plan'[n] = q BY <1>1, <2>1, <2>6
    <2>9. ASSUME NEW m \in Nodes
          PROVE  plan'[m].on => plan'[m].shard \in Shards /\ plan'[m].alive # <<>>
      <3>1. CASE m = n BY <2>7, <2>8, <3>1
      <3>2. CASE m # n
        <4>1. plan'[m] = plan[m] BY <1>1, <2>1, <3>2
        <4> QED BY <1>1, <4>1
      <3> QED BY <3>1, <3>2
    <2>10. TypeOK'
      <3>1. Shards' = Shards /\ Commands' = Commands /\ FSMs' = FSMs BY <2>1, Fixed
      <3> QED BY <2>1, <2>8, <2>9, <3>1 DEF TypeOK, raftVars, P
    <2>11. FsmIsLog' /\ SnapIsLog' /\ Advances(n) BY <2>1, LogStill DEF raftVars
    <2> QED BY <2>10, <2>11
  <1>4. CASE PlanShard(n)
    <2> DEFINE target == p.alive[(p.next % Len(p.alive)) + 1]
               go(k) == IF p.shard + 1 < fsm[n].count
                        THEN [p EXCEPT !.shard = @ + 1, !.next = @ + k] ELSE NoPlan
    <2>1. /\ p.on /\ conf' = conf /\ UNCHANGED <<up, raft, snap, alive, boot, todo>>
          /\ \/ plan' = [plan EXCEPT ![n] = go(0)] /\ NoApply
             \/ /\ plan' = [plan EXCEPT ![n] = go(1)]
                /\ Apply(n, SetShardLeader(p.shard, target))
      BY <1>4 DEF PlanShard
    <2>2. p \in P /\ p.shard \in Shards /\ p.alive \in Seq(Nodes) /\ p.alive # <<>>
          /\ p.next \in Nat /\ p.shard \in Nat
      BY <1>1, <2>1
    <2>3. target \in Nodes
      <3> DEFINE l == Len(p.alive)
                 x == p.next
      <3>1. l \in Nat /\ l > 0 /\ x \in Nat /\ p.alive \in [1 .. l -> Nodes] BY <2>2
      <3> HIDE DEF l, x
      <3>2. x % l \in 0 .. l - 1 BY <3>1
      <3>3. (x % l) + 1 \in 1 .. l BY <3>1, <3>2
      <3> QED BY <3>1, <3>3 DEF l, x
    <2> HIDE DEF target
    <2>4. SetShardLeader(p.shard, target) \in Commands
      BY <2>2, <2>3 DEF SetShardLeader, Commands
    <2>5. LogOK' /\ FsmIsLog' /\ SnapIsLog' /\ Advances(n) BY <2>1, <2>4, ApplyKeeps
    <2>6. ASSUME NEW k \in {0, 1}
          PROVE  go(k) \in P /\ (go(k).on => go(k).shard \in Shards /\ go(k).alive # <<>>)
      <3>1. CASE p.shard + 1 < fsm[n].count
        <4>1. go(k) = [p EXCEPT !.shard = @ + 1, !.next = @ + k] BY <3>1
        <4>2. p.shard + 1 \in Shards /\ p.shard + 1 \in Nat /\ p.next + k \in Nat
          <5> DEFINE i == p.shard
                     c == fsm[n].count
                     x == p.next
          <5>1. i \in Nat /\ x \in Nat /\ k \in Nat /\ i + 1 < c /\ c \in {0, conf.shards}
            BY <1>2, <2>2, <3>1
          <5> HIDE DEF i, c, x
          <5>2. i + 1 \in Shards /\ i + 1 \in Nat /\ x + k \in Nat BY <1>1, <5>1 DEF Shards
          <5> QED BY <5>2 DEF i, x
        <4> QED BY <2>2, <4>1, <4>2
      <3>2. CASE ~ (p.shard + 1 < fsm[n].count)
        BY <3>2, NoPlanTyped
      <3> QED BY <3>1, <3>2
    <2> HIDE DEF go, P
    <2>7. PICK k \in {0, 1} : plan' = [plan EXCEPT ![n] = go(k)] BY <2>1
    <2>8. /\ plan' \in [Nodes -> P]
          /\ \A m \in Nodes : plan'[m].on => plan'[m].shard \in Shards /\ plan'[m].alive # <<>>
      <3> DEFINE q == go(k)
      <3>1. q \in P /\ (q.on => q.shard \in Shards /\ q.alive # <<>>) BY <2>6, <2>7
      <3>2. plan' = [plan EXCEPT ![n] = q] BY <2>7
      <3> HIDE DEF q
      <3>3. plan' \in [Nodes -> P] /\ plan'[n] = q BY <1>1, <3>1, <3>2
      <3>4. ASSUME NEW m \in Nodes, m # n PROVE plan'[m] = plan[m] BY <1>1, <3>2, <3>4
      <3> QED BY <1>1, <3>1, <3>3, <3>4
    <2>9. TypeOK'
      <3>1. Shards' = Shards /\ Commands' = Commands /\ FSMs' = FSMs BY <2>1, Fixed
      <3> QED BY <2>1, <2>5, <2>8, <3>1 DEF TypeOK, LogOK, P
    <2> QED BY <2>5, <2>9
  <1> QED BY <1>3, <1>4

(* A follower applies the next command. *)
LEMMA CatchUpKeeps ==
    ASSUME IndInv, NEW n \in Nodes, CatchUp(n) PROVE IndInv' /\ Advances(n)
  <1> USE DEF IndInv
  <1> DEFINE a == applied[n]
  <1>1. /\ conf' = conf /\ UNCHANGED <<up, raft, log, snap, alive, nodeVars, spent>>
        /\ a < Len(log) /\ fsm' = [fsm EXCEPT ![n] = FsmApply(@, log[a + 1])]
        /\ applied' = [applied EXCEPT ![n] = a + 1]
    BY DEF CatchUp, TypeOK
  <1>2. /\ conf \in Config /\ log \in Seq(Commands) /\ fsm \in [Nodes -> FSMs]
        /\ applied \in [Nodes -> Nat] /\ a \in Nat /\ Len(log) \in Nat
        /\ \A m \in Nodes : applied[m] <= Len(log)
    BY DEF TypeOK
  <1>3. a + 1 \in 1 .. Len(log) /\ log[a + 1] \in Commands /\ a + 1 \in Nat BY <1>1, <1>2
  <1>4. fsm'[n] = FsmApply(fsm[n], log[a + 1]) /\ applied'[n] = a + 1 BY <1>1, <1>2
  <1>5. fsm[n] = After(NewFSM, log, 0, a) BY DEF FsmIsLog
  <1>6. fsm'[n] = After(NewFSM, log, 0, a + 1) BY <1>2, <1>4, <1>5, AfterOne
  <1>7. fsm'[n] \in FSMs BY <1>2, <1>3, <1>4, FsmTyped
  <1> HIDE DEF a
  <1>8. fsm' \in [Nodes -> FSMs] /\ applied' \in [Nodes -> Nat] BY <1>1, <1>2, <1>3, <1>7
  <1>9. /\ Shards' = Shards /\ Commands' = Commands /\ FSMs' = FSMs /\ NewFSM' = NewFSM
    BY <1>1, Fixed
  <1>10. \A m \in Nodes \ {n} : fsm'[m] = fsm[m] /\ applied'[m] = applied[m] BY <1>1, <1>2
  <1>11. FsmIsLog'
    <2> SUFFICES ASSUME NEW m \in Nodes PROVE fsm'[m] = After(NewFSM', log', 0, applied'[m])
      BY DEF FsmIsLog
    <2>1. CASE m = n BY <1>1, <1>4, <1>6, <1>9, <2>1
    <2>2. CASE m # n
      <3>1. fsm[m] = After(NewFSM, log, 0, applied[m]) BY DEF FsmIsLog
      <3> QED BY <1>1, <1>9, <1>10, <2>2, <3>1
    <2> QED BY <2>1, <2>2
  <1>12. SnapIsLog' BY <1>1, <1>9 DEF SnapIsLog
  <1>13. ASSUME NEW m \in Nodes PROVE applied'[m] <= Len(log)
    <2>1. CASE m = n BY <1>3, <1>4, <2>1
    <2>2. CASE m # n BY <1>2, <1>10, <2>2
    <2> QED BY <2>1, <2>2
  <1>14. TypeOK' BY <1>1, <1>8, <1>9, <1>13 DEF TypeOK, nodeVars
  <1>15. Advances(n) BY <1>1, <1>10 DEF Advances
  <1> QED BY <1>11, <1>12, <1>14, <1>15

(* A snapshot is the state at the index it names, since Snapshot leaves    *)
(* nothing out.                                                            *)
LEMMA SnapshotKeeps ==
    ASSUME IndInv, NEW n \in Nodes, TakeSnapshot(n) PROVE IndInv' /\ Advances(n)
  <1> USE DEF IndInv
  <1>1. /\ conf' = conf /\ UNCHANGED <<up, raft, log, fsm, applied, alive, nodeVars>>
        /\ Spend("snapshots")
        /\ snap' = [snap EXCEPT ![n] = [state |-> Snapshot(fsm[n]), index |-> applied[n]]]
    BY DEF TakeSnapshot
  <1>2. /\ fsm[n] \in FSMs /\ applied[n] \in Nat /\ applied[n] <= Len(log)
        /\ snap \in [Nodes -> [state : FSMs, index : Nat]] /\ spent \in [Bounds -> Nat]
        /\ \A m \in Nodes : snap[m].index <= Len(log)
    BY DEF TypeOK
  <1>3. Snapshot(fsm[n]) = fsm[n]
    <2> DEFINE f == fsm[n]
    <2>1. f = [members |-> f.members, leaders |-> f.leaders, count |-> f.count]
      BY <1>2 DEF FSMs
    <2> QED BY <2>1 DEF Snapshot
  <1>4. snap'[n] = [state |-> fsm[n], index |-> applied[n]] BY <1>1, <1>2, <1>3
  <1>5. \A m \in Nodes \ {n} : snap'[m] = snap[m] BY <1>1, <1>2
  <1>6. snap' \in [Nodes -> [state : FSMs, index : Nat]] BY <1>1, <1>2, <1>3
  <1>7. /\ Shards' = Shards /\ Commands' = Commands /\ FSMs' = FSMs /\ NewFSM' = NewFSM
    BY <1>1, Fixed
  <1>8. SnapIsLog'
    <2> SUFFICES ASSUME NEW m \in Nodes
                 PROVE  snap'[m].state = After(NewFSM', log', 0, snap'[m].index)
      BY DEF SnapIsLog
    <2>1. CASE m = n
      <3>1. fsm[n] = After(NewFSM, log, 0, applied[n]) BY DEF FsmIsLog
      <3>2. snap'[m].state = fsm[n] /\ snap'[m].index = applied[n] BY <1>4, <2>1
      <3> QED BY <1>1, <1>7, <3>1, <3>2
    <2>2. CASE m # n
      <3>1. snap[m].state = After(NewFSM, log, 0, snap[m].index) BY DEF SnapIsLog
      <3> QED BY <1>1, <1>5, <1>7, <2>2, <3>1
    <2> QED BY <2>1, <2>2
  <1>9. ASSUME NEW m \in Nodes PROVE snap'[m].index <= Len(log)
    <2>1. CASE m = n BY <1>2, <1>4, <2>1
    <2>2. CASE m # n BY <1>2, <1>5, <2>2
    <2> QED BY <2>1, <2>2
  <1>10. FsmIsLog' BY <1>1, <1>7 DEF FsmIsLog
  <1>11. spent' \in [Bounds -> Nat] BY <1>1, <1>2, Spent DEF Bounds
  <1>12. TypeOK' BY <1>1, <1>6, <1>7, <1>9, <1>11 DEF TypeOK, nodeVars
  <1>13. Advances(n) BY <1>1 DEF Advances
  <1> QED BY <1>8, <1>10, <1>12, <1>13

(* A broker that dies comes back as its last snapshot left it. *)
LEMMA CrashKeeps ==
    ASSUME IndInv, NEW n \in Nodes, Crash(n) PROVE IndInv' /\ Advances(n)
  <1> USE DEF IndInv
  <1>1. /\ conf' = conf /\ log' = log /\ snap' = snap /\ Spend("crashes")
        /\ fsm' = [fsm EXCEPT ![n] = snap[n].state]
        /\ applied' = [applied EXCEPT ![n] = snap[n].index]
    BY DEF Crash
  <1>2. /\ fsm \in [Nodes -> FSMs] /\ applied \in [Nodes -> Nat]
        /\ snap \in [Nodes -> [state : FSMs, index : Nat]] /\ spent \in [Bounds -> Nat]
        /\ \A m \in Nodes : applied[m] <= Len(log) /\ snap[m].index <= Len(log)
        /\ up \in SUBSET Nodes /\ raft \in Nodes \cup {None}
        /\ alive \in [Nodes -> SUBSET Nodes]
        /\ BootOK /\ PlanOK
    BY DEF TypeOK, BootOK, PlanOK
  <1>3. /\ Shards' = Shards /\ Commands' = Commands /\ FSMs' = FSMs /\ NewFSM' = NewFSM
    BY <1>1, Fixed
  <1>4. snap[n].state \in FSMs /\ snap[n].index \in Nat BY <1>2
  <1>5. fsm' \in [Nodes -> FSMs] /\ applied' \in [Nodes -> Nat] BY <1>1, <1>2, <1>4
  <1>6. fsm'[n] = snap[n].state /\ applied'[n] = snap[n].index BY <1>1, <1>2
  <1>7. \A m \in Nodes \ {n} : fsm'[m] = fsm[m] /\ applied'[m] = applied[m] BY <1>1, <1>2
  <1>8. FsmIsLog'
    <2> SUFFICES ASSUME NEW m \in Nodes PROVE fsm'[m] = After(NewFSM', log', 0, applied'[m])
      BY DEF FsmIsLog
    <2>1. CASE m = n BY <1>1, <1>3, <1>6, <2>1 DEF SnapIsLog
    <2>2. CASE m # n
      <3>1. fsm[m] = After(NewFSM, log, 0, applied[m]) BY DEF FsmIsLog
      <3> QED BY <1>1, <1>3, <1>7, <2>2, <3>1
    <2> QED BY <2>1, <2>2
  <1>9. SnapIsLog' BY <1>1, <1>3 DEF SnapIsLog
  <1>10. ASSUME NEW m \in Nodes PROVE applied'[m] <= Len(log)
    <2>1. CASE m = n BY <1>2, <1>6, <2>1
    <2>2. CASE m # n BY <1>2, <1>7, <2>2
    <2> QED BY <2>1, <2>2
  <1>11. spent' \in [Bounds -> Nat] BY <1>1, <1>2, Spent DEF Bounds
  <1>12. up' \in SUBSET Nodes /\ raft' \in Nodes \cup {None} BY <1>2 DEF Crash
  <1>13. alive' \in [Nodes -> SUBSET Nodes] /\ BootOK' BY <1>2 DEF Crash, BootOK
  <1>14. PlanOK'
    <2> DEFINE P == [on : BOOLEAN, shard : Nat, leaders : [Shards -> Nodes \cup {None}],
                     alive : Seq(Nodes), next : Nat]
    <2>1. NoPlan \in P /\ ~ NoPlan.on BY NoPlanTyped
    <2>2. plan' = [plan EXCEPT ![n] = NoPlan] BY DEF Crash
    <2>3. /\ plan \in [Nodes -> P]
          /\ \A m \in Nodes : plan[m].on => plan[m].shard \in Shards /\ plan[m].alive # <<>>
      BY <1>2 DEF PlanOK
    <2> HIDE DEF P
    <2>4. plan' \in [Nodes -> P] BY <2>1, <2>2, <2>3
    <2>5. ASSUME NEW m \in Nodes
          PROVE  plan'[m].on => plan'[m].shard \in Shards /\ plan'[m].alive # <<>>
      <3>1. CASE m = n
        <4>1. plan'[m] = NoPlan BY <2>2, <2>3, <3>1
        <4> QED BY <2>1, <4>1
      <3>2. CASE m # n
        <4>1. plan'[m] = plan[m] BY <2>2, <2>3, <3>2
        <4> QED BY <2>3, <4>1
      <3> QED BY <3>1, <3>2
    <2> QED BY <1>3, <2>4, <2>5 DEF PlanOK, P
  <1>15. TypeOK'
    BY <1>1, <1>3, <1>5, <1>10, <1>11, <1>12, <1>13, <1>14 DEF TypeOK, BootOK, PlanOK
  <1>16. Advances(n) BY <1>1, <1>7 DEF Advances
  <1> QED BY <1>8, <1>9, <1>15, <1>16

(* Elections, gossip and restarts do not touch the log or what was made    *)
(* of it.                                                                  *)
LEMMA EnvironmentKeeps ==
    ASSUME IndInv, NEW n \in Nodes,
           Elect(n) \/ Restart(n) \/ \E m \in Nodes : Gossip(n, m)
    PROVE  IndInv' /\ Advances(n)
  <1> USE DEF IndInv
  <1>1. /\ conf' = conf /\ UNCHANGED <<log, fsm, applied, snap, nodeVars>>
    BY DEF Elect, Restart, Gossip, raftVars
  <1>2. FsmIsLog' /\ SnapIsLog' /\ Advances(n) BY <1>1, LogStill
  <1>3. /\ conf \in Config /\ conf.brokers \in SUBSET Nodes /\ spent \in [Bounds -> Nat]
        /\ up \in SUBSET Nodes /\ raft \in Nodes \cup {None}
        /\ alive \in [Nodes -> SUBSET Nodes]
    BY DEF TypeOK, Config
  <1>4. ASSUME up' \in SUBSET Nodes, raft' \in Nodes \cup {None},
               alive' \in [Nodes -> SUBSET Nodes], spent' \in [Bounds -> Nat]
        PROVE  TypeOK'
    <2>1. /\ Shards' = Shards /\ Commands' = Commands /\ FSMs' = FSMs BY <1>1, Fixed
    <2> QED BY <1>1, <1>4, <2>1 DEF TypeOK, nodeVars
  <1>5. CASE Elect(n)
    <2>1. spent' \in [Bounds -> Nat] BY <1>3, <1>5, Spent DEF Elect, Bounds
    <2>2. raft' = n /\ UNCHANGED <<up, alive>> BY <1>5 DEF Elect
    <2> QED BY <1>2, <1>3, <1>4, <2>1, <2>2
  <1>6. CASE Restart(n)
    <2>1. spent' \in [Bounds -> Nat] BY <1>3, <1>6, Spent DEF Restart, Bounds
    <2>2. up' = up \cup {n} /\ UNCHANGED <<raft, alive>> BY <1>6 DEF Restart, raftVars
    <2> QED BY <1>2, <1>3, <1>4, <2>1, <2>2
  <1>7. CASE \E m \in Nodes : Gossip(n, m)
    <2>1. PICK m \in Nodes : Gossip(n, m) BY <1>7
    <2>2. spent' \in [Bounds -> Nat] BY <1>3, <2>1, Spent DEF Gossip, Bounds
    <2>3. UNCHANGED <<up, raft>> BY <2>1 DEF Gossip, raftVars
    <2>4. alive' \in [Nodes -> SUBSET Nodes] BY <1>3, <2>1 DEF Gossip
    <2> QED BY <1>2, <1>3, <1>4, <2>2, <2>3, <2>4
  <1> QED BY <1>5, <1>6, <1>7

(* Every step keeps the invariant, and moves at most one broker and the    *)
(* end of the log.                                                         *)
LEMMA StepKeeps ==
    ASSUME IndInv, Next PROVE IndInv' /\ \E n \in Nodes : Advances(n)
  <1>1. PICK n \in Nodes :
            \/ Booting(n) \/ retryRegister(n) \/ StartPlan(n) \/ PlanShard(n)
            \/ CatchUp(n) \/ Elect(n) \/ TakeSnapshot(n) \/ Crash(n) \/ Restart(n)
            \/ \E m \in Nodes : Gossip(n, m)
    BY DEF Next
  <1> QED BY <1>1, BootKeeps, PlanKeeps, CatchUpKeeps, SnapshotKeeps, CrashKeeps,
             EnvironmentKeeps

(* A step of something else changes nothing of it. *)
LEMMA StutterKeeps == ASSUME IndInv, UNCHANGED vars PROVE IndInv'
  <1>1. /\ Shards' = Shards /\ Commands' = Commands /\ FSMs' = FSMs /\ NewFSM' = NewFSM
    BY Fixed DEF vars
  <1> QED BY <1>1 DEF IndInv, TypeOK, FsmIsLog, SnapIsLog, vars, raftVars, nodeVars

(* The invariant holds. *)
LEMMA Invariance == Spec => []IndInv
  <1>1. IndInv /\ [Next]_vars => IndInv' BY StepKeeps, StutterKeeps
  <1> QED BY IndInit, <1>1, PTL DEF Spec

(* Every variable keeps its type, and a call of Plan always has a shard in *)
(* range to look at and a live broker to give it to (assigner.go).         *)
THEOREM TypeCorrect == Spec => []TypeOK
  <1>1. IndInv => TypeOK BY DEF IndInv
  <1> QED BY <1>1, Invariance, PTL

(* Whatever order brokers commit, catch up, take snapshots, crash and      *)
(* restart in, FSM.Apply and Restore leave each of them with the fold of   *)
(* the committed log up to its own index.                                  *)
THEOREM StateIsTheLog == Spec => []FsmIsLog
  <1>1. IndInv => FsmIsLog BY DEF IndInv
  <1> QED BY <1>1, Invariance, PTL

-----------------------------------------------------------------------------
(* What brokers believe about a shard                                      *)

Sets(s) == {SetShardLeader(s, n) : n \in Nodes}

(* A command names a leader of the shard exactly if it is selected. *)
LEMMA SetsShard ==
    ASSUME NEW c \in Commands, NEW s
    PROVE  c \in Sets(s) <=> c.op = "set_shard_leader" /\ c.shard = s
  <1>1. c = [op |-> c.op, node |-> c.node, shard |-> c.shard] BY DEF Commands
  <1>2. ASSUME c \in Sets(s) PROVE c.op = "set_shard_leader" /\ c.shard = s
    BY <1>2 DEF Sets, SetShardLeader
  <1>3. ASSUME c.op = "set_shard_leader", c.shard = s PROVE c \in Sets(s)
    <2>1. c.node \in Nodes BY <1>3 DEF Commands
    <2>2. c = SetShardLeader(s, c.node) BY <1>1, <1>3 DEF SetShardLeader
    <2> QED BY <2>1, <2>2 DEF Sets
  <1> QED BY <1>2, <1>3

(* The leaders of a shard are brokers, one for every command selected. *)
LEMMA MovesType ==
    ASSUME NEW cs, NEW s, NEW k \in Nat
    PROVE  /\ MovesIn(cs, s, k) \in Seq(Nodes)
           /\ Len(MovesIn(cs, s, k)) = Len(Selected(cs, Sets(s), k))
           /\ \A i \in 1 .. Len(MovesIn(cs, s, k)) :
                 MovesIn(cs, s, k)[i] = Selected(cs, Sets(s), k)[i].node
  <1> DEFINE x == Selected(cs, Sets(s), k)
             y == MovesIn(cs, s, k)
  <1>1. x \in Seq(Sets(s)) BY SelectedType
  <1>2. y = [i \in 1 .. Len(x) |-> x[i].node] BY DEF MovesIn, Sets
  <1> HIDE DEF x, y
  <1>3. Len(x) \in Nat BY <1>1
  <1>4. ASSUME NEW i \in 1 .. Len(x) PROVE x[i].node \in Nodes
    <2>1. x[i] \in Sets(s) BY <1>1
    <2> QED BY <2>1 DEF Sets, SetShardLeader
  <1>5. y \in Seq(Nodes) /\ Len(y) = Len(x) /\ \A i \in 1 .. Len(x) : y[i] = x[i].node
    BY <1>2, <1>3, <1>4
  <1> QED BY <1>5 DEF x, y

(* The history only depends on the part of the log it is taken from, *)
LEMMA MovesSame ==
    ASSUME NEW cs, NEW ds, NEW s, NEW k \in Nat, \A i \in 1 .. k : cs[i] = ds[i]
    PROVE  MovesIn(cs, s, k) = MovesIn(ds, s, k)
  <1>1. Selected(cs, Sets(s), k) = Selected(ds, Sets(s), k) BY SelectedSame
  <1> QED BY <1>1 DEF MovesIn, Sets

(* is empty at first and gets an entry for each command that names one,    *)
LEMMA MovesNone == ASSUME NEW cs, NEW s PROVE MovesIn(cs, s, 0) = <<>>
  <1>1. Selected(cs, Sets(s), 0) = <<>> BY SelectedNone
  <1> DEFINE y == MovesIn(cs, s, 0)
  <1>2. y \in Seq(Nodes) /\ Len(y) = 0 BY <1>1, MovesType
  <1> HIDE DEF y
  <1>3. y = <<>> BY <1>2
  <1> QED BY <1>3 DEF y

(* One more committed command appoints at most one leader, the node it     *)
(* names.                                                                  *)
LEMMA MovesOne ==
    ASSUME NEW cs, NEW s, NEW k \in Nat
    PROVE  MovesIn(cs, s, k + 1)
              = IF cs[k + 1] \in Sets(s) THEN Append(MovesIn(cs, s, k), cs[k + 1].node)
                ELSE MovesIn(cs, s, k)
  <1> DEFINE x == Selected(cs, Sets(s), k)
             z == Selected(cs, Sets(s), k + 1)
             y == MovesIn(cs, s, k)
             w == MovesIn(cs, s, k + 1)
             c == cs[k + 1]
  <1>1. z = IF c \in Sets(s) THEN Append(x, c) ELSE x BY SelectedOne
  <1>2. CASE c \notin Sets(s)
    <2>1. z = x BY <1>1, <1>2
    <2>2. w = y BY <2>1 DEF MovesIn, Sets
    <2> QED BY <1>2, <2>2
  <1>3. CASE c \in Sets(s)
    <2>1. x \in Seq(Sets(s)) BY SelectedType
    <2>2. y \in Seq(Nodes) /\ Len(y) = Len(x) /\ \A i \in 1 .. Len(y) : y[i] = x[i].node
      BY MovesType
    <2>3. k + 1 \in Nat OBVIOUS
    <2>4. w \in Seq(Nodes) /\ Len(w) = Len(z) /\ \A i \in 1 .. Len(w) : w[i] = z[i].node
      BY <2>3, MovesType
    <2>5. c.node \in Nodes
      <3>1. PICK m \in Nodes : c = SetShardLeader(s, m) BY <1>3 DEF Sets
      <3> QED BY <3>1 DEF SetShardLeader
    <2> DEFINE v == Append(y, c.node)
    <2> HIDE DEF x, y, z, w, c
    <2>6. z = Append(x, c) BY <1>1, <1>3
    <2>7. /\ Len(z) = Len(x) + 1 /\ z[Len(x) + 1] = c /\ Len(x) \in Nat
          /\ \A i \in 1 .. Len(x) : z[i] = x[i]
      BY <1>3, <2>1, <2>6
    <2>8. /\ v \in Seq(Nodes) /\ Len(v) = Len(y) + 1 /\ v[Len(y) + 1] = c.node
          /\ \A i \in 1 .. Len(y) : v[i] = y[i]
      BY <2>2, <2>5
    <2> HIDE DEF v
    <2>9. ASSUME NEW i \in 1 .. Len(w) PROVE w[i] = v[i]
      <3>1. CASE i = Len(x) + 1 BY <2>2, <2>4, <2>7, <2>8, <3>1
      <3>2. CASE i # Len(x) + 1
        <4>1. i \in 1 .. Len(x) BY <2>4, <2>7, <3>2
        <4> QED BY <2>2, <2>4, <2>7, <2>8, <4>1
      <3> QED BY <3>1, <3>2
    <2>10. Len(w) = Len(v) BY <2>2, <2>4, <2>7, <2>8
    <2>11. w = v BY <2>4, <2>8, <2>9, <2>10
    <2> QED BY <1>3, <2>11 DEF v, y, w, c
  <1> QED BY <1>2, <1>3

(* and that of a shorter log is its beginning. *)
LEMMA MovesPrefix ==
    ASSUME NEW cs, NEW s, NEW j \in Nat, NEW k \in Nat, j <= k
    PROVE  /\ Len(MovesIn(cs, s, j)) <= Len(MovesIn(cs, s, k))
           /\ \A i \in 1 .. Len(MovesIn(cs, s, j)) :
                 MovesIn(cs, s, k)[i] = MovesIn(cs, s, j)[i]
  <1> DEFINE x == Selected(cs, Sets(s), j)
             z == Selected(cs, Sets(s), k)
             y == MovesIn(cs, s, j)
             w == MovesIn(cs, s, k)
  <1>1. Len(x) <= Len(z) /\ \A i \in 1 .. Len(x) : z[i] = x[i] BY SelectedPrefix
  <1>2. y \in Seq(Nodes) /\ Len(y) = Len(x) /\ \A i \in 1 .. Len(y) : y[i] = x[i].node
    BY MovesType
  <1>3. w \in Seq(Nodes) /\ Len(w) = Len(z) /\ \A i \in 1 .. Len(w) : w[i] = z[i].node
    BY MovesType
  <1> HIDE DEF x, y, z, w
  <1>4. Len(y) <= Len(w) /\ Len(y) \in Nat /\ Len(w) \in Nat BY <1>1, <1>2, <1>3
  <1>5. ASSUME NEW i \in 1 .. Len(y) PROVE w[i] = y[i]
    <2>1. i \in 1 .. Len(w) BY <1>4
    <2> QED BY <1>1, <1>2, <1>3, <2>1
  <1> QED BY <1>4, <1>5 DEF y, w

(* The leader in the state machine is the last one named by the commands   *)
(* it has applied.                                                         *)
LEMMA LeaderIsLast ==
    ASSUME conf \in Config, NEW cs \in Seq(Commands), NEW k \in 0 .. Len(cs)
    PROVE  After(NewFSM, cs, 0, k).leaders[0]
              = Shard0!LeaderAt(MovesIn(cs, 0, k), Len(MovesIn(cs, 0, k)))
  <1> DEFINE F(d) == After(NewFSM, cs, 0, d)
             M(d) == MovesIn(cs, 0, d)
             T == {d \in Nat : d <= Len(cs) =>
                      F(d).leaders[0] = Shard0!LeaderAt(M(d), Len(M(d)))}
  <1>1. 0 \in Shards
    <2>1. conf.shards \in Nat \ {0} BY DEF Config
    <2> QED BY <2>1 DEF Shards
  <1>2. 0 \in T
    <2>1. F(0) = NewFSM BY AfterNone
    <2>2. M(0) = <<>> /\ Len(<<>>) = 0 BY MovesNone
    <2>3. NewFSM.leaders[0] = None BY <1>1 DEF NewFSM
    <2>4. F(0).leaders[0] = Shard0!LeaderAt(M(0), Len(M(0)))
      BY <2>1, <2>2, <2>3 DEF Shard0!LeaderAt
    <2> HIDE DEF F, M
    <2> QED BY <2>4
  <1>3. ASSUME NEW d \in T PROVE d + 1 \in T
    <2> DEFINE e == d + 1
               c == cs[e]
    <2> SUFFICES ASSUME e <= Len(cs)
                 PROVE  F(e).leaders[0] = Shard0!LeaderAt(M(e), Len(M(e)))
      OBVIOUS
    <2>1. /\ d \in Nat /\ 0 <= d /\ d <= Len(cs) /\ e \in 1 .. Len(cs) /\ d \in 0 .. Len(cs)
          /\ c \in Commands
      OBVIOUS
    <2>2. F(d).leaders[0] = Shard0!LeaderAt(M(d), Len(M(d))) BY <2>1
    <2>3. F(e) = FsmApply(F(d), c) BY <2>1, AfterOne
    <2>4. M(e) = IF c \in Sets(0) THEN Append(M(d), c.node) ELSE M(d) BY <2>1, MovesOne
    <2>5. M(d) \in Seq(Nodes) BY <2>1, MovesType
    <2>6. F(d) \in FSMs BY <2>1, AfterTyped
    <2>7. c \in Sets(0) <=> c.op = "set_shard_leader" /\ c.shard = 0 BY <2>1, SetsShard
    <2> HIDE DEF F, M, c, e
    <2>8. F(d).leaders \in [Shards -> Nodes \cup {None}] BY <2>6 DEF FSMs
    <2>9. CASE c \in Sets(0)
      <3>1. F(e) = [F(d) EXCEPT !.leaders[c.shard] = c.node] BY <2>3, <2>7, <2>9 DEF FsmApply
      <3>2. F(e).leaders[0] = c.node BY <1>1, <2>6, <2>7, <2>8, <2>9, <3>1 DEF FSMs
      <3> DEFINE m == M(d)
                 q == Append(m, c.node)
      <3>3. c.node \in Nodes BY <2>1, <2>7, <2>9 DEF Commands
      <3>4. Len(q) = Len(m) + 1 /\ Len(m) \in Nat /\ q[Len(m) + 1] = c.node BY <2>5, <3>3
      <3>5. M(e) = q BY <2>4, <2>9
      <3> HIDE DEF m, q
      <3>6. Len(q) # 0 /\ q[Len(q)] = c.node BY <3>4
      <3> QED BY <3>2, <3>5, <3>6 DEF Shard0!LeaderAt
    <2>10. CASE c \notin Sets(0)
      <3>1. F(e).leaders[0] = F(d).leaders[0]
        <4>1. CASE c.op = "register_member"
          BY <2>3, <2>6, <4>1 DEF FsmApply, FSMs
        <4>2. CASE c.op = "set_shard_count"
          BY <2>3, <2>6, <4>2 DEF FsmApply, FSMs
        <4>3. CASE c.op = "set_shard_leader"
          <5>1. c.shard # 0 BY <2>7, <2>10, <4>3
          <5>2. F(e) = [F(d) EXCEPT !.leaders[c.shard] = c.node] BY <2>3, <4>3 DEF FsmApply
          <5> QED BY <2>6, <2>8, <5>1, <5>2 DEF FSMs
        <4> QED BY <2>1, <4>1, <4>2, <4>3 DEF Commands
      <3>2. M(e) = M(d) BY <2>4, <2>10
      <3> QED BY <2>2, <3>1, <3>2
    <2> QED BY <2>9, <2>10
  <1>4. T = Nat
    <2>1. T \in SUBSET Nat OBVIOUS
    <2> HIDE DEF T
    <2> QED BY <1>2, <1>3, <2>1, Induction
  <1>5. k \in T /\ k <= Len(cs)
    <2>1. k \in Nat /\ k <= Len(cs) OBVIOUS
    <2> HIDE DEF T
    <2> QED BY <1>4, <2>1
  <1> QED BY <1>5

(* What a broker believes is the entry of the one history that its index   *)
(* has come to.                                                            *)
LEMMA ViewIsPlace ==
    ASSUME conf \in Config, NEW cs \in Seq(Commands), NEW a \in 0 .. Len(cs)
    PROVE  /\ Len(MovesIn(cs, 0, a)) \in 0 .. Len(MovesIn(cs, 0, Len(cs)))
           /\ After(NewFSM, cs, 0, a).leaders[0]
                 = Shard0!LeaderAt(MovesIn(cs, 0, Len(cs)), Len(MovesIn(cs, 0, a)))
  <1> DEFINE x == MovesIn(cs, 0, a)
             y == MovesIn(cs, 0, Len(cs))
             l == After(NewFSM, cs, 0, a).leaders[0]
  <1>1. Len(cs) \in Nat /\ a \in Nat /\ a <= Len(cs) OBVIOUS
  <1>2. l = Shard0!LeaderAt(x, Len(x)) BY LeaderIsLast
  <1>3. x \in Seq(Nodes) /\ y \in Seq(Nodes) BY <1>1, MovesType
  <1>4. Len(x) <= Len(y) /\ \A i \in 1 .. Len(x) : y[i] = x[i] BY <1>1, MovesPrefix
  <1> HIDE DEF x, y, l
  <1>5. Len(x) \in Nat /\ Len(y) \in Nat BY <1>3
  <1>6. Shard0!LeaderAt(x, Len(x)) = Shard0!LeaderAt(y, Len(x))
    <2>1. CASE Len(x) = 0 BY <2>1 DEF Shard0!LeaderAt
    <2>2. CASE Len(x) # 0
      <3>1. Len(x) \in 1 .. Len(x) BY <1>5, <2>2
      <3>2. y[Len(x)] = x[Len(x)] BY <1>4, <3>1
      <3> QED BY <2>2, <3>2 DEF Shard0!LeaderAt
    <2> QED BY <2>1, <2>2
  <1>7. Len(x) \in 0 .. Len(y) /\ l = Shard0!LeaderAt(y, Len(x)) BY <1>2, <1>4, <1>5, <1>6
  <1> QED BY <1>7 DEF x, y, l

(* A step that moves one broker and the end of the log appoints a leader   *)
(* or lets a broker learn.                                                 *)
LEMMA StepImplements ==
    ASSUME IndInv, IndInv', NEW n \in Nodes, Advances(n)
    PROVE  Shard0!Next
  <1> DEFINE ms == MovesIn(log, 0, Len(log))
             ns == MovesIn(log', 0, Len(log'))
             K == [m \in Nodes |-> Len(MovesIn(log, 0, applied[m]))]
             L == [m \in Nodes |-> Len(MovesIn(log', 0, applied'[m]))]
             V == [m \in Nodes |-> fsm[m].leaders[0]]
             W == [m \in Nodes |-> fsm'[m].leaders[0]]
  <1>1. /\ conf \in Config /\ log \in Seq(Commands) /\ Len(log) \in Nat
        /\ \A m \in Nodes : applied[m] \in Nat /\ applied[m] <= Len(log)
    <2>1. /\ conf \in Config /\ log \in Seq(Commands) /\ applied \in [Nodes -> Nat]
          /\ \A m \in Nodes : applied[m] <= Len(log)
      BY DEF IndInv, TypeOK
    <2> QED BY <2>1
  <1>2. /\ log' \in Seq(Commands) /\ Len(log') \in Nat
        /\ \A m \in Nodes : applied'[m] \in 0 .. Len(log')
        /\ \A m \in Nodes : fsm'[m] = After(NewFSM, log', 0, applied'[m])
    <2>1. Commands' = Commands /\ NewFSM' = NewFSM BY Fixed DEF Advances
    <2>2. /\ log' \in Seq(Commands) /\ applied' \in [Nodes -> Nat]
          /\ \A m \in Nodes : applied'[m] <= Len(log')
      BY <2>1 DEF IndInv, TypeOK
    <2>3. \A m \in Nodes : fsm'[m] = After(NewFSM, log', 0, applied'[m])
      BY <2>1 DEF IndInv, FsmIsLog
    <2>4. Len(log') \in Nat BY <2>2
    <2> QED BY <2>2, <2>3, <2>4
  <1>3. \A k \in 1 .. Len(log) : log'[k] = log[k]
    <2>1. CASE log' = log BY <2>1
    <2>2. CASE \E c \in Commands : log' = Append(log, c)
      <3>1. PICK c \in Commands : log' = Append(log, c) BY <2>2
      <3> QED BY <1>1, <3>1
    <2> QED BY <2>1, <2>2 DEF Advances
  <1>4. ns = ms \/ \E leader \in Nodes : ns = Append(ms, leader)
    <2>1. CASE log' = log BY <2>1
    <2>2. CASE \E c \in Commands : log' = Append(log, c)
      <3>1. PICK c \in Commands : log' = Append(log, c) BY <2>2
      <3>2. Len(log') = Len(log) + 1 /\ log'[Len(log) + 1] = c BY <1>1, <3>1
      <3>3. MovesIn(log', 0, Len(log)) = ms BY <1>1, <1>3, MovesSame
      <3>4. ns = IF c \in Sets(0) THEN Append(MovesIn(log', 0, Len(log)), c.node)
                 ELSE MovesIn(log', 0, Len(log))
        BY <1>1, <3>2, MovesOne
      <3>5. c \in Sets(0) => c.node \in Nodes BY DEF Sets, SetShardLeader
      <3> HIDE DEF ms, ns
      <3> QED BY <3>3, <3>4, <3>5
    <2> QED BY <2>1, <2>2 DEF Advances
  <1>5. ASSUME NEW m \in Nodes
        PROVE  L[m] \in 0 .. Len(ns) /\ W[m] = Shard0!LeaderAt(ns, L[m])
    <2>1. /\ Len(MovesIn(log', 0, applied'[m])) \in 0 .. Len(ns)
          /\ fsm'[m].leaders[0]
                = Shard0!LeaderAt(ns, Len(MovesIn(log', 0, applied'[m])))
      BY <1>1, <1>2, ViewIsPlace
    <2> QED BY <2>1
  <1>6. ASSUME NEW m \in Nodes
        PROVE  V[m] = Shard0!LeaderAt(ms, K[m]) /\ K[m] \in 0 .. Len(ms)
    <2>1. fsm[m] = After(NewFSM, log, 0, applied[m]) BY DEF IndInv, FsmIsLog
    <2>2. applied[m] \in 0 .. Len(log) BY <1>1
    <2> QED BY <1>1, <2>1, <2>2, ViewIsPlace
  <1>7. ASSUME NEW m \in Nodes \ {n} PROVE L[m] = K[m]
    <2>1. applied'[m] = applied[m] BY DEF Advances
    <2>2. \A k \in 1 .. applied[m] : k \in 1 .. Len(log) BY <1>1
    <2>3. MovesIn(log', 0, applied[m]) = MovesIn(log, 0, applied[m])
      BY <1>1, <1>3, <2>2, MovesSame
    <2> QED BY <2>1, <2>3
  <1>8. ms \in Seq(Nodes) BY <1>1, MovesType
  <1>9. \A k \in 0 .. Len(ms) : Shard0!LeaderAt(ns, k) = Shard0!LeaderAt(ms, k)
    <2> HIDE DEF ms, ns
    <2>1. CASE ns = ms BY <2>1
    <2>2. CASE \E leader \in Nodes : ns = Append(ms, leader)
      <3>1. PICK leader \in Nodes : ns = Append(ms, leader) BY <2>2
      <3>2. \A k \in 1 .. Len(ms) : ns[k] = ms[k] BY <1>8, <3>1
      <3>3. Len(ms) \in Nat BY <1>8
      <3>4. \A k \in 0 .. Len(ms) : k = 0 \/ k \in 1 .. Len(ms) BY <3>3
      <3> QED BY <3>2, <3>4 DEF Shard0!LeaderAt
    <2> QED BY <1>4, <2>1, <2>2
  <1>10. ASSUME NEW m \in Nodes \ {n} PROVE W[m] = V[m]
    <2> HIDE DEF K, L, V, W, ms, ns
    <2> QED BY <1>5, <1>6, <1>7, <1>9
  <1>11. L = [K EXCEPT ![n] = L[n]]
    <2> DEFINE R == [K EXCEPT ![n] = L[n]]
    <2>1. R = [m \in Nodes |-> IF m = n THEN L[n] ELSE K[m]] OBVIOUS
    <2>2. \A m \in Nodes : R[m] = L[m] BY <1>7, <2>1
    <2>3. L = [m \in Nodes |-> L[m]] /\ R = [m \in Nodes |-> R[m]] BY <2>1
    <2> HIDE DEF R, L, K
    <2>4. R = L BY <2>2, <2>3
    <2> QED BY <2>4 DEF R
  <1>12. W = [V EXCEPT ![n] = Shard0!LeaderAt(ns, L[n])]
    <2> DEFINE R == [V EXCEPT ![n] = W[n]]
    <2>1. R = [m \in Nodes |-> IF m = n THEN W[n] ELSE V[m]] OBVIOUS
    <2>2. \A m \in Nodes : R[m] = W[m] BY <1>10, <2>1
    <2>3. W = [m \in Nodes |-> W[m]] /\ R = [m \in Nodes |-> R[m]] BY <2>1
    <2>4. W[n] = Shard0!LeaderAt(ns, L[n]) BY <1>5
    <2> HIDE DEF R, W, V, L, ns
    <2>5. R = W BY <2>2, <2>3
    <2> QED BY <2>4, <2>5 DEF R
  <1>13. L[n] \in 0 .. Len(ns) BY <1>5
  <1>14. Shard0!Move(n)
    <2> SUFFICES \E k \in 0 .. Len(ns) :
                     L = [K EXCEPT ![n] = k] /\ W = [V EXCEPT ![n] = Shard0!LeaderAt(ns, k)]
      BY DEF Shard0!Move
    <2> HIDE DEF K, L, V, W, ns
    <2> QED BY <1>11, <1>12, <1>13
  <1>15. CASE ns = ms BY <1>14, <1>15 DEF Shard0!Next, Shard0!Learn
  <1>16. CASE \E leader \in Nodes : ns = Append(ms, leader)
    <2>1. PICK leader \in Nodes : ns = Append(ms, leader) BY <1>16
    <2>2. Shard0!Appoint(n, leader) BY <1>14, <2>1 DEF Shard0!Appoint
    <2> QED BY <2>2 DEF Shard0!Next
  <1> QED BY <1>4, <1>15, <1>16

(* The metadata layer implements Assignment: what brokers believe about    *)
(* the leader of a shard are places in one history that only grows, for    *)
(* any number of brokers and shards and through elections, timeouts,       *)
(* snapshots and restarts (metadata.go, fsm.go, assigner.go).              *)
THEOREM Refinement == Spec => ImplementsAssignment
  <1>1. Init => Shard0!Init
    <2> SUFFICES ASSUME Init PROVE Shard0!Init
      OBVIOUS
    <2>1. conf.shards \in Nat \ {0} BY ClusterAssumption DEF Init, Config
    <2>2. 0 \in Shards BY <2>1 DEF Shards
    <2>3. Len(log) = 0 /\ log = <<>> BY DEF Init
    <2>4. MovesIn(log, 0, 0) = <<>> /\ Len(<<>>) = 0 BY MovesNone
    <2>5. \A n \in Nodes : applied[n] = 0 /\ fsm[n].leaders[0] = None
      BY <2>2 DEF Init, NewFSM
    <2> QED BY <2>3, <2>4, <2>5 DEF Shard0!Init
  <1>2. IndInv /\ [Next]_vars /\ IndInv'
            => [Shard0!Next]_<<MovesIn(log, 0, Len(log)),
                               [n \in Nodes |-> Len(MovesIn(log, 0, applied[n]))],
                               [n \in Nodes |-> fsm[n].leaders[0]]>>
    <2> SUFFICES ASSUME IndInv, [Next]_vars, IndInv'
                 PROVE  Shard0!Next \/ UNCHANGED <<log, applied, fsm>>
      OBVIOUS
    <2>1. CASE Next BY <2>1, StepKeeps, StepImplements
    <2>2. CASE UNCHANGED vars BY <2>2 DEF vars, raftVars
    <2> QED BY <2>1, <2>2
  <1> QED BY <1>1, <1>2, Invariance, PTL DEF Spec, ImplementsAssignment, Shard0!Spec
=============================================================================
