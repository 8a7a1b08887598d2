---------------------------- MODULE DGraph_proofs ----------------------------
(***************************************************************************)
(* Proofs about DGraph, for any number of variables, any correlations and  *)
(* any calls: the graph is exactly the data without what was dispatched,   *)
(* nothing is dispatched twice, the choice is greedy and findset tells the *)
(* truth about it.                                                         *)
(***************************************************************************)
EXTENDS DGraph, SequenceTheorems, FiniteSetTheorems, TLAPS

\* In findset the rows of the set are still valid, its columns are not.
InFindset ==
  pc \in {"grow", "done"} =>
    /\ vlist # <<>>
    /\ adj = Without(Gone, ToSet(vlist))

\* The copies lack what was dispatched when the snapshot was taken and nothing
\* else, and a new graph is not yet used.
CopiesExact ==
  /\ pc \in {"idle", "grow", "done"} => adjcopy = Without(lost, {})
  /\ file # <<>> => file[1] = Without(saved, {})
  /\ pc = "new" => dispatched = {}

IInv == TypeOK /\ GraphExact /\ NoRepeat /\ InFindset /\ CopiesExact

-----------------------------------------------------------------------------
(* The matrix operators *)

\* A correlation is a number below the mark for invalid entries.
LEMMA CorrType == \A c \in Corr : c \in Nat /\ c < Invalid
<1>1. Invalid \in Int /\ \A c \in Corr : c \in 0 .. Invalid - 1
  BY GraphAssumption
<1> QED BY <1>1

\* Two different variables have a correlation in the data.
LEMMA DataType ==
  ASSUME data \in [Upper -> Corr], NEW i \in Var, NEW j \in Var, i # j
  PROVE  Ordered(i, j) \in Upper /\ data[Ordered(i, j)] \in Corr /\ data[Ordered(i, j)] < Invalid
<1>1. Ordered(i, j) \in Upper
  BY DEF Ordered, Upper, Var
<1>2. data[Ordered(i, j)] \in Corr
  BY <1>1
<1> QED BY <1>1, <1>2, CorrType

\* What is left of the graph is a matrix of numbers.
LEMMA WithoutType ==
  ASSUME data \in [Upper -> Corr], NEW D, NEW C
  PROVE  Without(D, C) \in Matrix
<1> SUFFICES ASSUME NEW p \in Var \X Var, p[1] # p[2]
             PROVE  data[Ordered(p[1], p[2])] \in Nat
  BY GraphAssumption DEF Without, Matrix
<1>1. p[1] \in Var /\ p[2] \in Var
  OBVIOUS
<1>2. data[Ordered(p[1], p[2])] \in Corr
  BY <1>1, DataType
<1> QED BY <1>2, CorrType

\* getcorrinfo builds the complete graph.
LEMMA FullIsComplete == Full = Without({}, {})
  BY DEF Full, Without

\* Invalidating the columns of S adds S to the ones not to be chosen.
LEMMA ColsWithout ==
  ASSUME NEW D, NEW C, NEW S
  PROVE  Cols(Without(D, C), S) = Without(D, C \union S)
  BY DEF Cols, Without

\* Invalidating the rows and the columns of S takes S out of the graph.
LEMMA DimWithout ==
  ASSUME NEW D, NEW C, NEW S, C \subseteq S
  PROVE  Dim(Without(D, C), S) = Without(D \union S, {})
  BY DEF Dim, Without

\* The elements of a sequence after Append.
LEMMA AppendSet ==
  ASSUME NEW S, NEW s \in Seq(S), NEW e
  PROVE  ToSet(Append(s, e)) = ToSet(s) \union {e}
<1>1. DOMAIN s = 1 .. Len(s) /\ Len(s) \in Nat
  BY LenProperties
<1>2. /\ DOMAIN Append(s, e) = 1 .. Len(s) + 1
      /\ \A i \in 1 .. Len(s) : Append(s, e)[i] = s[i]
      /\ Append(s, e)[Len(s) + 1] = e
  BY <1>1
<1>3. ToSet(Append(s, e)) \subseteq ToSet(s) \union {e}
  BY <1>1, <1>2 DEF ToSet
<1>4. \A i \in DOMAIN s : s[i] \in ToSet(Append(s, e))
  BY <1>1, <1>2 DEF ToSet
<1>5. e \in ToSet(Append(s, e))
  BY <1>1, <1>2 DEF ToSet
<1> QED BY <1>3, <1>4, <1>5 DEF ToSet

\* The elements of a pair.
LEMMA PairSet ==
  ASSUME NEW a, NEW b
  PROVE  ToSet(<<a, b>>) = {a, b}
<1>1. DOMAIN <<a, b>> = {1, 2}
  OBVIOUS
<1> QED BY <1>1 DEF ToSet

-----------------------------------------------------------------------------
(* The inductive invariant *)

\* Nothing has been dispatched in the beginning.
LEMMA InitInv == Init => IInv
<1> SUFFICES ASSUME Init PROVE IInv
  OBVIOUS
<1>1. NewAdj \in Matrix /\ NewAdjcopy \in Matrix
  BY GraphAssumption DEF NewAdj, NewAdjcopy, Matrix
<1>2. TypeOK
  BY <1>1, GraphAssumption DEF Init, TypeOK
<1> QED BY <1>2 DEF Init, IInv, GraphExact, NoRepeat, InFindset, CopiesExact

\* Building, loading, keeping and restoring the graph.
LEMMA GraphSteps ==
  ASSUME IInv, getcorrinfo \/ recoverdgraph \/ snapshotdbgraph \/ Restart \/ loadsnapshot
  PROVE  IInv'
<1> USE DEF IInv, GraphExact, NoRepeat, InFindset, CopiesExact
<1>1. /\ \A D : Without(D, {}) \in Matrix
      /\ NewAdj \in Matrix /\ NewAdjcopy \in Matrix
  BY WithoutType, GraphAssumption DEF TypeOK, NewAdj, NewAdjcopy, Matrix
<1>2. /\ data' = data
      /\ Without(Gone, {})' = Without(Gone', {})
      /\ Without(lost, {})' = Without(lost', {})
      /\ Without(saved, {})' = Without(saved', {})
  <2>1. data' = data
    BY DEF getcorrinfo, recoverdgraph, snapshotdbgraph, Restart, loadsnapshot
  <2> QED BY <2>1 DEF Without, Gone
<1>3. CASE getcorrinfo
  <2>1. lost' = {} /\ dispatched' = {} /\ Gone' = {}
    BY <1>3 DEF getcorrinfo, Gone
  <2>2. adj' = Without({}, {}) /\ adjcopy' = Without({}, {})
    BY <1>3, FullIsComplete DEF getcorrinfo
  <2>3. TypeOK'
    BY <1>1, <1>3, <2>2, GraphAssumption DEF getcorrinfo, TypeOK
  <2> QED BY <1>2, <1>3, <2>1, <2>2, <2>3 DEF getcorrinfo
<1>4. CASE recoverdgraph
  <2>1. Gone' = lost /\ lost' = lost
    BY <1>4 DEF recoverdgraph, Gone
  <2>2. adj' = Without(lost, {})
    BY <1>4 DEF recoverdgraph, Restored
  <2>3. TypeOK'
    BY <1>1, <1>4, <2>2, GraphAssumption DEF recoverdgraph, TypeOK
  <2> QED BY <1>2, <1>4, <2>1, <2>2, <2>3 DEF recoverdgraph
<1>5. CASE snapshotdbgraph
  <2>1. file' = <<adj>> /\ adj = Without(Gone, {}) /\ saved' = Gone /\ Gone' = Gone /\ lost' = lost
    BY <1>5 DEF snapshotdbgraph, Gone
  <2>2. TypeOK'
    BY <1>1, <1>5, <2>1 DEF snapshotdbgraph, TypeOK
  <2>3. /\ pc = "idle" /\ pc' = "idle" /\ adj' = adj /\ adjcopy' = adjcopy
        /\ adjcopy = Without(lost, {}) /\ dispatched' = dispatched
    BY <1>5 DEF snapshotdbgraph
  <2>4. GraphExact' /\ NoRepeat' /\ InFindset'
    BY <1>2, <2>1, <2>3
  <2>5. CopiesExact'
    <3>1. file'[1] = Without(saved, {})'
      BY <1>2, <2>1
    <3> QED BY <1>2, <2>1, <2>3, <3>1
  <2> QED BY <2>2, <2>4, <2>5
<1>6. CASE Restart
  <2>1. TypeOK'
    BY <1>1, <1>6, GraphAssumption DEF Restart, TypeOK
  <2> QED BY <1>2, <1>6, <2>1 DEF Restart
<1>7. CASE loadsnapshot /\ file # <<>>
  <2>1. lost' = saved /\ saved' = saved /\ Gone' = saved
    BY <1>7 DEF loadsnapshot, Gone
  <2>2. adj' = Without(saved, {}) /\ adjcopy' = Without(saved, {})
    BY <1>7 DEF loadsnapshot
  <2>3. TypeOK'
    BY <1>1, <1>7, <2>2 DEF loadsnapshot, TypeOK
  <2> QED BY <1>2, <1>7, <2>1, <2>2, <2>3 DEF loadsnapshot
<1>8. CASE loadsnapshot /\ file = <<>>
  <2>1. TypeOK'
    BY <1>8 DEF loadsnapshot, TypeOK
  <2> QED BY <1>2, <1>8, <2>1 DEF loadsnapshot
<1> QED BY <1>3, <1>4, <1>5, <1>6, <1>7, <1>8

\* A findset that finds nothing, or exits, leaves the graph alone.
LEMMA FindNoneSteps ==
  ASSUME IInv, NEW k \in Sizes, FindTooLarge(k) \/ FindNothing(k)
  PROVE  IInv'
<1> USE DEF IInv, GraphExact, NoRepeat, InFindset, CopiesExact
<1>1. /\ data' = data /\ adj' = adj /\ adjcopy' = adjcopy /\ file' = file
      /\ dispatched' = dispatched /\ saved' = saved /\ lost' = lost
  BY DEF FindTooLarge, FindNothing
<1>2. /\ Without(Gone, {})' = Without(Gone, {})
      /\ Without(lost, {})' = Without(lost, {})
      /\ Without(saved, {})' = Without(saved, {})
  BY <1>1 DEF Without, Gone
<1>3. pc = "idle" /\ (pc' = "idle" \/ pc' = "exited")
  BY DEF FindTooLarge, FindNothing
<1>4. n' \in Nat /\ vlist' \in Seq(Var) /\ ret' \in {0, -1} /\ calls' \in 0 .. MaxCalls
  <2>1. CASE FindTooLarge(k)
    BY <2>1 DEF FindTooLarge, TypeOK
  <2>2. CASE FindNothing(k)
    <3>1. n' = k /\ vlist' = <<>> /\ ret' = -1 /\ calls' = calls + 1 /\ calls < MaxCalls
      BY <2>2 DEF FindNothing
    <3>2. calls \in 0 .. MaxCalls
      BY DEF TypeOK
    <3> QED BY <3>1, <3>2, GraphAssumption
  <2> QED BY <2>1, <2>2
<1>5. TypeOK'
  BY <1>1, <1>3, <1>4 DEF TypeOK
<1> QED BY <1>1, <1>2, <1>3, <1>5

\* The first pair is one of two different variables that are left.
LEMMA FindPairStep ==
  ASSUME IInv, NEW k \in Sizes, FindPair(k)
  PROVE  IInv'
<1> USE DEF IInv, GraphExact, NoRepeat, InFindset, CopiesExact
<1>1. PICK p \in Upper : /\ MinPair(p)
                         /\ vlist' = <<p[1], p[2]>>
                         /\ adj' = Cols(adj, {p[1], p[2]})
  BY DEF FindPair
<1>2. p[1] \in Var /\ p[2] \in Var /\ p = <<p[1], p[2]>>
  BY DEF Upper
<1>3. pc = "idle" /\ adj = Without(Gone, {})
  BY DEF FindPair
<1>4. Without(Gone, {})[<<p[1], p[2]>>] # Invalid
  <2>1. adj[p] < Invalid
    BY <1>1 DEF MinPair
  <2>2. adj[p] # Invalid
    BY <2>1, GraphAssumption
  <2> QED BY <1>2, <1>3, <2>2
<1>5. p[1] # p[2] /\ p[1] \notin Gone /\ p[2] \notin Gone
  BY <1>2, <1>4 DEF Without
<1>6. /\ data' = data /\ adjcopy' = adjcopy /\ file' = file
      /\ dispatched' = dispatched /\ saved' = saved /\ lost' = lost /\ Gone' = Gone
      /\ pc' = "grow" \/ pc' = "done"
  BY DEF FindPair, Gone
<1>7. ToSet(vlist') = {p[1], p[2]}
  BY <1>1, PairSet
<1>8. adj' = Without(Gone, ToSet(vlist'))
  BY <1>1, <1>3, <1>7, ColsWithout
<1>9. /\ Without(lost, {})' = Without(lost, {})
      /\ Without(saved, {})' = Without(saved, {})
      /\ Without(Gone, ToSet(vlist))' = Without(Gone, ToSet(vlist'))
  BY <1>6 DEF Without
<1>10. TypeOK'
  <2>1. adj' \in Matrix
    BY <1>8, WithoutType DEF TypeOK
  <2>2. vlist' \in Seq(Var)
    BY <1>1, <1>2
  <2>3. n' \in Nat /\ ret' = 0 /\ calls' \in 0 .. MaxCalls
    BY GraphAssumption DEF FindPair, TypeOK
  <2> QED BY <1>6, <2>1, <2>2, <2>3 DEF TypeOK
<1>11. NoRepeat'
  <2>1. \A a, b \in DOMAIN vlist' : a # b => vlist'[a] # vlist'[b]
    BY <1>1, <1>5
  <2> QED BY <1>5, <1>6, <1>7, <2>1
<1>12. InFindset'
  BY <1>1, <1>8, <1>9
<1>13. GraphExact'
  BY <1>6
<1>14. CopiesExact'
  <2>1. adjcopy = Without(lost, {}) /\ (file # <<>> => file[1] = Without(saved, {}))
    BY <1>3
  <2> QED BY <1>6, <1>9, <2>1
<1> QED BY <1>10, <1>11, <1>12, <1>13, <1>14

\* A variable that is added is available, so it is new to the set.
LEMMA GrowStep ==
  ASSUME IInv, Grow
  PROVE  IInv'
<1> USE DEF IInv, GraphExact, NoRepeat, InFindset, CopiesExact
<1>1. PICK j \in Var : /\ MinVar(j)
                       /\ vlist' = Append(vlist, j)
                       /\ adj' = Cols(adj, {j})
  BY DEF Grow
<1>2. /\ pc = "grow" /\ vlist # <<>> /\ vlist \in Seq(Var)
      /\ adj = Without(Gone, ToSet(vlist))
  BY DEF Grow, TypeOK
<1>3. vlist[1] \in Var
  BY <1>2
<1>4. Without(Gone, ToSet(vlist))[<<vlist[1], j>>] # Invalid
  <2>1. workmem(j) < Invalid
    BY <1>1 DEF MinVar
  <2>2. workmem(j) # Invalid
    BY <2>1, GraphAssumption
  <2> QED BY <1>2, <2>2 DEF workmem, Available
<1>5. j \notin Gone /\ j \notin ToSet(vlist)
  BY <1>3, <1>4 DEF Without
<1>6. /\ data' = data /\ adjcopy' = adjcopy /\ file' = file
      /\ dispatched' = dispatched /\ saved' = saved /\ lost' = lost /\ Gone' = Gone
      /\ n' = n /\ ret' = ret /\ calls' = calls
      /\ pc' = "grow" \/ pc' = "done"
  BY DEF Grow, Gone
<1>7. ToSet(vlist') = ToSet(vlist) \union {j}
  BY <1>1, <1>2, AppendSet
<1>8. adj' = Without(Gone, ToSet(vlist'))
  BY <1>1, <1>2, <1>7, ColsWithout
<1>9. /\ Without(lost, {})' = Without(lost, {})
      /\ Without(saved, {})' = Without(saved, {})
      /\ Without(Gone, ToSet(vlist))' = Without(Gone, ToSet(vlist'))
  BY <1>6 DEF Without
<1>10. TypeOK'
  <2>1. adj' \in Matrix
    BY <1>8, WithoutType DEF TypeOK
  <2>2. vlist' \in Seq(Var)
    BY <1>1, <1>2
  <2> QED BY <1>6, <2>1, <2>2 DEF TypeOK
<1>11. NoRepeat'
  <2>1. \A a, b \in DOMAIN vlist : a # b => vlist[a] # vlist[b]
    BY <1>2
  <2>2. \A a \in DOMAIN vlist : vlist[a] # j
    BY <1>5 DEF ToSet
  <2>3. /\ DOMAIN vlist = 1 .. Len(vlist) /\ Len(vlist) \in Nat
        /\ DOMAIN vlist' = 1 .. Len(vlist) + 1
        /\ \A a \in 1 .. Len(vlist) : vlist'[a] = vlist[a]
        /\ vlist'[Len(vlist) + 1] = j
    BY <1>1, <1>2
  <2>4. \A a, b \in DOMAIN vlist' : a # b => vlist'[a] # vlist'[b]
    BY <2>1, <2>2, <2>3
  <2>5. ToSet(vlist') \cap Gone' = {}
    BY <1>2, <1>5, <1>6, <1>7
  <2> QED BY <2>4, <2>5
<1>12. InFindset'
  BY <1>1, <1>2, <1>8, <1>9
<1>13. GraphExact'
  BY <1>6
<1>14. CopiesExact'
  <2>1. adjcopy = Without(lost, {}) /\ (file # <<>> => file[1] = Without(saved, {}))
    BY <1>2
  <2> QED BY <1>6, <1>9, <2>1
<1> QED BY <1>10, <1>11, <1>12, <1>13, <1>14

\* Nothing to add: the set stays.
LEMMA GrowDepletedStep ==
  ASSUME IInv, GrowDepleted
  PROVE  IInv'
<1> USE DEF IInv, GraphExact, NoRepeat, InFindset, CopiesExact
<1>1. /\ pc = "grow" /\ pc' = "done" /\ ret' = -1
      /\ data' = data /\ adjcopy' = adjcopy /\ file' = file
      /\ dispatched' = dispatched /\ saved' = saved /\ lost' = lost /\ Gone' = Gone
      /\ adj' = adj /\ n' = n /\ vlist' = vlist /\ calls' = calls
  BY DEF GrowDepleted, Gone
<1>2. /\ Without(lost, {})' = Without(lost, {})
      /\ Without(saved, {})' = Without(saved, {})
      /\ Without(Gone, ToSet(vlist))' = Without(Gone, ToSet(vlist))
  BY <1>1 DEF Without
<1>3. TypeOK'
  BY <1>1 DEF TypeOK
<1> QED BY <1>1, <1>2, <1>3

\* The set is taken out of the graph.
LEMMA FinishStep ==
  ASSUME IInv, Finish
  PROVE  IInv'
<1> USE DEF IInv, GraphExact, NoRepeat, InFindset, CopiesExact
<1>1. /\ pc = "done" /\ pc' = "idle"
      /\ data' = data /\ adjcopy' = adjcopy /\ file' = file /\ saved' = saved /\ lost' = lost
      /\ n' = n /\ vlist' = vlist /\ ret' = ret /\ calls' = calls
      /\ adj' = Dim(adj, ToSet(vlist))
      /\ dispatched' = dispatched \union ToSet(vlist)
      /\ Gone' = Gone \union ToSet(vlist)
  BY DEF Finish, Gone
<1>2. adj' = Without(Gone', {})
  BY <1>1, DimWithout
<1>3. /\ Without(lost, {})' = Without(lost, {})
      /\ Without(saved, {})' = Without(saved, {})
      /\ Without(Gone, {})' = Without(Gone', {})
  BY <1>1 DEF Without
<1>4. TypeOK'
  <2>1. adj' \in Matrix
    BY <1>2, WithoutType DEF TypeOK
  <2>2. ToSet(vlist) \subseteq Var
    BY DEF TypeOK, ToSet
  <2> QED BY <1>1, <2>1, <2>2 DEF TypeOK
<1> QED BY <1>1, <1>2, <1>3, <1>4

-----------------------------------------------------------------------------
(* The theorems *)

\* The invariant holds always.
THEOREM Inductive == Spec => []IInv
<1>1. ASSUME IInv, [Next]_vars PROVE IInv'
  <2>1. CASE getcorrinfo \/ recoverdgraph \/ snapshotdbgraph \/ Restart \/ loadsnapshot
    BY <1>1, <2>1, GraphSteps
  <2>2. CASE \E k \in Sizes : FindTooLarge(k) \/ FindNothing(k) \/ FindPair(k)
    BY <1>1, <2>2, FindNoneSteps, FindPairStep
  <2>3. CASE Grow \/ GrowDepleted \/ Finish
    BY <1>1, <2>3, GrowStep, GrowDepletedStep, FinishStep
  <2>4. CASE UNCHANGED vars
    BY <1>1, <2>4 DEF vars, IInv, TypeOK, GraphExact, NoRepeat, InFindset, CopiesExact, Without, Gone
  <2> QED BY <1>1, <2>1, <2>2, <2>3, <2>4 DEF Next
<1> QED BY <1>1, InitInv, PTL DEF Spec

\* The variables of dgraph.cpp keep their types.
THEOREM TypeCorrect == Spec => []TypeOK
  BY Inductive, PTL DEF IInv

\* Between calls the graph is the data without the dispatched variables and
\* those a snapshot has lost; recoverdgraph gives back exactly the former.
THEOREM GraphAlwaysExact == Spec => []GraphExact
  BY Inductive, PTL DEF IInv

\* findset dispatches no variable twice before a recovery.
THEOREM NothingDispatchedTwice == Spec => []NoRepeat
  BY Inductive, PTL DEF IInv

-----------------------------------------------------------------------------
(* What findset chooses *)

\* A variable that is left and not in the set is available, and what findset
\* adds up for it is its correlation with the set.
LEMMA WeightMeans ==
  ASSUME IInv, pc \in {"grow", "done"}, NEW v \in Var \ (Gone \union ToSet(vlist))
  PROVE  workmem(v) = Correlation(v, vlist)
<1>1. /\ vlist \in Seq(Var) /\ vlist # <<>> /\ adj = Without(Gone, ToSet(vlist))
      /\ ToSet(vlist) \cap Gone = {} /\ data \in [Upper -> Corr]
  BY DEF IInv, TypeOK, InFindset, NoRepeat
<1>2. ASSUME NEW i \in DOMAIN vlist
      PROVE  /\ adj[<<vlist[i], v>>] = data[Ordered(vlist[i], v)]
             /\ data[Ordered(vlist[i], v)] < Invalid
  <2>1. vlist[i] \in Var /\ vlist[i] \in ToSet(vlist)
    BY <1>1 DEF ToSet
  <2>2. PICK w \in Var : w = vlist[i]
    BY <2>1
  <2>3. w # v /\ w \notin Gone /\ v \notin Gone \union ToSet(vlist)
    BY <1>1, <2>1, <2>2
  <2>4. adj[<<w, v>>] = data[Ordered(w, v)]
    BY <1>1, <2>3 DEF Without
  <2>5. data[Ordered(w, v)] < Invalid
    BY <1>1, <2>3, DataType
  <2> QED BY <2>2, <2>4, <2>5
<1>3. 1 \in DOMAIN vlist
  BY <1>1
<1>4. Available(v)
  BY <1>2, <1>3, GraphAssumption DEF Available
<1>5. [i \in DOMAIN vlist |-> adj[<<vlist[i], v>>]] = [i \in DOMAIN vlist |-> data[Ordered(vlist[i], v)]]
  BY <1>2
<1>6. Weight(v) = Correlation(v, vlist)
  BY <1>5 DEF Weight, Correlation
<1> QED BY <1>4, <1>6 DEF workmem

\* A variable that is added is left, and not in the set.
LEMMA ChosenIsLeft ==
  ASSUME IInv, pc = "grow", NEW j \in Var, MinVar(j)
  PROVE  j \in Var \ (Gone \union ToSet(vlist))
<1>1. vlist \in Seq(Var) /\ vlist # <<>> /\ adj = Without(Gone, ToSet(vlist))
  BY DEF IInv, TypeOK, InFindset
<1>2. vlist[1] \in Var
  BY <1>1
<1>3. workmem(j) < Invalid
  BY DEF MinVar
<1>4. workmem(j) # Invalid
  BY <1>3, GraphAssumption
<1>5. Without(Gone, ToSet(vlist))[<<vlist[1], j>>] # Invalid
  BY <1>1, <1>4 DEF workmem, Available
<1> QED BY <1>2, <1>5 DEF Without

\* The set is chosen greedily: the first pair.
LEMMA PairGreedy ==
  ASSUME IInv, NEW k \in Sizes, FindPair(k)
  PROVE  GreedyMinimal'
<1>1. PICK p \in Upper : MinPair(p) /\ vlist' = <<p[1], p[2]>>
  BY DEF FindPair
<1>2. /\ pc = "idle" /\ adj = Without(Gone, {}) /\ data \in [Upper -> Corr]
      /\ data' = data /\ Gone' = Gone
  BY DEF FindPair, IInv, GraphExact, TypeOK, Gone
<1>3. p[1] \in Var /\ p[2] \in Var /\ p = <<p[1], p[2]>> /\ p[1] < p[2] /\ adj[p] < Invalid
  BY <1>1 DEF Upper, MinPair
<1>4. Len(vlist') = 2 /\ vlist'[1] = p[1] /\ vlist'[2] = p[2]
  BY <1>1
<1>5. adj[p] = data[p]
  <2>1. adj[p] # Invalid
    BY <1>3, GraphAssumption
  <2>2. Ordered(p[1], p[2]) = p
    BY <1>3 DEF Ordered
  <2> QED BY <1>2, <1>3, <2>1, <2>2 DEF Without
<1>6. ASSUME NEW v \in Var \ Gone, NEW w \in Var \ Gone, v # w
      PROVE  data[p] <= data[Ordered(v, w)]
  <2>1. PICK q : q = Ordered(v, w)
    OBVIOUS
  <2>2. q \in Upper
    BY <1>2, <1>6, <2>1, DataType
  <2>3. q = <<v, w>> \/ q = <<w, v>>
    BY <2>1 DEF Ordered
  <2>4. q[1] \in Var \ Gone /\ q[2] \in Var \ Gone /\ q[1] < q[2] /\ q = <<q[1], q[2]>>
    BY <2>2, <2>3 DEF Upper
  <2>5. Ordered(q[1], q[2]) = q
    BY <2>4 DEF Ordered
  <2>6. q[1] # q[2]
    BY <2>4 DEF Var
  <2>7. adj[q] = data[q]
    BY <1>2, <2>4, <2>5, <2>6 DEF Without
  <2>8. adj[p] <= adj[q]
    BY <1>1, <2>2 DEF MinPair
  <2> QED BY <1>5, <2>1, <2>7, <2>8
<1>7. 3 .. Len(vlist') = {}
  BY <1>4
<1> QED BY <1>2, <1>3, <1>4, <1>6, <1>7 DEF GreedyMinimal

\* And each further variable.
LEMMA GrowGreedy ==
  ASSUME IInv, GreedyMinimal, Len(vlist) >= 2, Grow
  PROVE  GreedyMinimal'
<1>1. PICK j \in Var : MinVar(j) /\ vlist' = Append(vlist, j)
  BY DEF Grow
<1>2. /\ pc = "grow" /\ vlist \in Seq(Var) /\ data' = data /\ Gone' = Gone
  BY DEF Grow, IInv, TypeOK, Gone
<1>3. PICK len \in Nat : len = Len(vlist) /\ len >= 2
  BY <1>2
<1>4. /\ Len(vlist') = len + 1 /\ vlist'[len + 1] = j
      /\ \A i \in 1 .. len : vlist'[i] = vlist[i]
  BY <1>1, <1>2, <1>3
<1>5. \A i \in 1 .. len : SubSeq(vlist', 1, i) = SubSeq(vlist, 1, i)
  BY <1>1, <1>2, <1>3
<1>6. SubSeq(vlist, 1, len) = vlist
  BY <1>2, <1>3
<1>7. \A v \in Var \ (Gone \union ToSet(vlist)) : Correlation(j, vlist) <= Correlation(v, vlist)
  <2>1. workmem(j) = Correlation(j, vlist)
    BY <1>1, <1>2, ChosenIsLeft, WeightMeans
  <2>2. \A v \in Var \ (Gone \union ToSet(vlist)) : workmem(v) = Correlation(v, vlist)
    BY <1>2, WeightMeans
  <2> QED BY <1>1, <2>1, <2>2 DEF MinVar
<1>8. ASSUME NEW k \in 3 .. len + 1, NEW v \in (Var \ Gone) \ ToSet(SubSeq(vlist', 1, k - 1))
      PROVE  Correlation(vlist'[k], SubSeq(vlist', 1, k - 1)) <= Correlation(v, SubSeq(vlist', 1, k - 1))
  <2>1. SubSeq(vlist', 1, k - 1) = SubSeq(vlist, 1, k - 1)
    BY <1>3, <1>5, <1>8
  <2>2. CASE k = len + 1
    <3>1. k - 1 = len
      BY <2>2
    <3>2. SubSeq(vlist', 1, k - 1) = vlist
      BY <1>6, <2>1, <3>1
    <3>3. v \in Var \ (Gone \union ToSet(vlist)) /\ vlist'[k] = j
      BY <1>4, <1>8, <2>2, <3>2
    <3> QED BY <1>7, <3>2, <3>3
  <2>3. CASE k # len + 1
    <3>1. k \in 3 .. Len(vlist) /\ k \in 1 .. len
      BY <1>3, <2>3
    <3>2. vlist'[k] = vlist[k]
      BY <1>4, <3>1
    <3>3. v \in (Var \ Gone) \ ToSet(SubSeq(vlist, 1, k - 1))
      BY <1>8, <2>1
    <3>4. Correlation(vlist[k], SubSeq(vlist, 1, k - 1)) <= Correlation(v, SubSeq(vlist, 1, k - 1))
      BY <1>2, <3>1, <3>3 DEF GreedyMinimal
    <3> QED BY <2>1, <3>2, <3>4
  <2> QED BY <2>2, <2>3
<1>9. \A v, w \in Var \ Gone : v # w => data[<<vlist'[1], vlist'[2]>>] <= data[Ordered(v, w)]
  <2>1. vlist'[1] = vlist[1] /\ vlist'[2] = vlist[2]
    BY <1>3, <1>4
  <2> QED BY <1>2, <2>1 DEF GreedyMinimal
<1>10. \A v, s : Correlation(v, s)' = Correlation(v, s)
  BY <1>2 DEF Correlation
<1> QED BY <1>2, <1>4, <1>8, <1>9, <1>10 DEF GreedyMinimal

\* How many variables findset finds if it does not run out of them.
Wanted == IF n = 0 THEN 2 ELSE IF n < 3 THEN 3 ELSE n

\* In the loop of findset nothing has failed, and the set is too small or just
\* begun; afterwards it has its size or the graph was depleted.
SizeInv ==
  /\ pc = "grow" => ret = 0 /\ n > 0 /\ Len(vlist) >= 2 /\ (Len(vlist) = 2 \/ Len(vlist) < n)
  /\ pc = "done" /\ ret = 0 => Len(vlist) = Wanted
  /\ pc = "done" /\ ret = -1 =>
       \A v \in Var \ (Gone \union ToSet(vlist)) : Correlation(v, vlist) >= Invalid
  /\ pc = "new" => calls = 0

\* What findset returns means what it says.
ResultInv == SizeInv /\ SizeHonest /\ DepletedHonest

\* A set without two different elements has at most one.
LEMMA AtMostOne ==
  ASSUME NEW S, \A v, w \in S : v = w
  PROVE  Cardinality(S) <= 1
<1>1. CASE S = {}
  BY <1>1, FS_EmptySet
<1>2. CASE S # {}
  <2>1. PICK v : v \in S
    BY <1>2
  <2>2. S = {v}
    BY <2>1
  <2> QED BY <2>2, FS_Singleton
<1> QED BY <1>1, <1>2

\* If no pair is valid there are no two variables left.
LEMMA NoPairLeft ==
  ASSUME IInv, pc = "idle", \A p \in Upper : adj[p] = Invalid
  PROVE  Cardinality(Var \ Gone) <= 1
<1>1. adj = Without(Gone, {}) /\ data \in [Upper -> Corr]
  BY DEF IInv, GraphExact, TypeOK
<1>2. ASSUME NEW v \in Var \ Gone, NEW w \in Var \ Gone, v < w PROVE FALSE
  <2>1. <<v, w>> \in Upper
    BY <1>2 DEF Upper
  <2>2. v # w /\ Ordered(v, w) = <<v, w>>
    BY <1>2 DEF Ordered, Var
  <2>3. adj[<<v, w>>] = data[<<v, w>>]
    BY <1>1, <2>2 DEF Without
  <2>4. data[<<v, w>>] < Invalid
    BY <1>1, <2>2, DataType
  <2> QED BY <2>1, <2>3, <2>4, GraphAssumption
<1>3. \A v, w \in Var \ Gone : v = w
  BY <1>2 DEF Var
<1> QED BY <1>3, AtMostOne

\* findset has not been called in the beginning.
LEMMA InitResult == Init => ResultInv
  BY DEF Init, ResultInv, SizeInv, SizeHonest, DepletedHonest, Returned

\* Every step preserves it.
LEMMA NextResult == IInv /\ ResultInv /\ [Next]_vars => ResultInv'
<1> SUFFICES ASSUME IInv, ResultInv, [Next]_vars PROVE ResultInv'
  OBVIOUS
<1> USE DEF ResultInv
<1>0. n \in Nat /\ vlist \in Seq(Var) /\ Len(vlist) \in Nat /\ ret \in {0, -1} /\ calls \in Nat
  BY GraphAssumption DEF IInv, TypeOK
<1>1. CASE getcorrinfo \/ recoverdgraph \/ Restart \/ loadsnapshot
  <2>1. calls' = 0 /\ pc' \in {"idle", "new", "exited"}
    BY <1>1 DEF getcorrinfo, recoverdgraph, Restart, loadsnapshot, SizeInv
  <2> QED BY <2>1 DEF SizeInv, SizeHonest, DepletedHonest, Returned
<1>2. ASSUME data' = data, vlist' = vlist, Gone' = Gone, n' = n, ret' = ret, calls' = calls,
             pc' = pc
      PROVE  ResultInv'
  <2>1. \A v, s : Correlation(v, s)' = Correlation(v, s)
    BY <1>2 DEF Correlation
  <2>2. SizeInv'
    BY <1>2, <2>1 DEF SizeInv, Wanted
  <2>3. SizeHonest' /\ DepletedHonest'
    BY <1>2, <2>1 DEF SizeHonest, DepletedHonest, Returned
  <2> QED BY <2>2, <2>3
<1>3. CASE snapshotdbgraph \/ UNCHANGED vars
  BY <1>2, <1>3 DEF snapshotdbgraph, vars, Gone
<1>4. ASSUME NEW k \in Sizes, FindTooLarge(k) PROVE ResultInv'
  BY <1>4 DEF FindTooLarge, SizeInv, SizeHonest, DepletedHonest, Returned
<1>5. ASSUME NEW k \in Sizes, FindNothing(k) PROVE ResultInv'
  <2>1. /\ pc = "idle" /\ pc' = "idle" /\ ret' = -1 /\ Gone' = Gone
        /\ \A p \in Upper : adj[p] = Invalid
    BY <1>5 DEF FindNothing, Gone
  <2>2. Cardinality(Var \ Gone') <= 1
    BY <2>1, NoPairLeft
  <2> QED BY <2>1, <2>2 DEF SizeInv, SizeHonest, DepletedHonest, Returned
<1>6. ASSUME NEW k \in Sizes, FindPair(k) PROVE ResultInv'
  <2>1. /\ n' = k /\ ret' = 0 /\ Len(vlist') = 2
        /\ pc' = IF k > 0 THEN "grow" ELSE "done"
    BY <1>6 DEF FindPair
  <2>2. k \in Nat
    BY GraphAssumption
  <2>3. SizeInv'
    BY <2>1, <2>2 DEF SizeInv, Wanted
  <2> QED BY <2>1, <2>3 DEF SizeHonest, DepletedHonest, Returned
<1>7. CASE Grow
  <2>1. /\ pc = "grow" /\ n' = n /\ ret' = ret /\ Len(vlist') = Len(vlist) + 1
        /\ pc' = IF Len(vlist') >= n THEN "done" ELSE "grow"
    BY <1>0, <1>7 DEF Grow, SetFull
  <2>2. PICK l \in Nat : l = Len(vlist)
    BY <1>0
  <2>3. ret = 0 /\ n > 0 /\ l >= 2 /\ (l = 2 \/ l < n)
    BY <2>1, <2>2 DEF SizeInv
  <2>4. l + 1 >= n => l + 1 = IF n = 0 THEN 2 ELSE IF n < 3 THEN 3 ELSE n
    BY <1>0, <2>3
  <2>5. Wanted' = Wanted /\ Len(vlist') = l + 1 /\ ret' = 0
    BY <2>1, <2>2, <2>3 DEF Wanted
  <2>6. CASE l + 1 >= n
    <3>1. pc' = "done" /\ Len(vlist') = Wanted' /\ ret' = 0
      BY <2>1, <2>4, <2>5, <2>6 DEF Wanted
    <3> QED BY <3>1 DEF SizeInv, SizeHonest, DepletedHonest, Returned
  <2>7. CASE ~(l + 1 >= n)
    BY <1>0, <2>1, <2>3, <2>5, <2>7 DEF SizeInv, SizeHonest, DepletedHonest, Returned
  <2> QED BY <2>6, <2>7
<1>8. CASE GrowDepleted
  <2>1. /\ pc = "grow" /\ ret' = -1 /\ pc' = "done" /\ vlist' = vlist /\ Gone' = Gone /\ data' = data
        /\ \A j \in Var : workmem(j) >= Invalid
    BY <1>8 DEF GrowDepleted, Gone
  <2>2. \A v \in Var \ (Gone \union ToSet(vlist)) : Correlation(v, vlist) >= Invalid
    BY <2>1, WeightMeans
  <2>3. \A v, s : Correlation(v, s)' = Correlation(v, s)
    BY <2>1 DEF Correlation
  <2> QED BY <2>1, <2>2, <2>3 DEF SizeInv, SizeHonest, DepletedHonest, Returned
<1>9. CASE Finish
  <2>1. /\ pc = "done" /\ pc' = "idle" /\ data' = data /\ n' = n /\ vlist' = vlist /\ ret' = ret
        /\ Gone' = Gone \union ToSet(vlist)
    BY <1>9 DEF Finish, Gone
  <2>2. \A v, s : Correlation(v, s)' = Correlation(v, s)
    BY <2>1 DEF Correlation
  <2>3. vlist # <<>>
    BY <2>1 DEF IInv, InFindset
  <2>4. SizeHonest'
    BY <2>1 DEF SizeInv, SizeHonest, Wanted
  <2>5. DepletedHonest'
    BY <2>1, <2>2, <2>3 DEF SizeInv, DepletedHonest
  <2> QED BY <2>1, <2>4, <2>5 DEF SizeInv
<1> QED BY <1>1, <1>3, <1>4, <1>5, <1>6, <1>7, <1>8, <1>9 DEF Next

\* Nothing is chosen in the beginning.
LEMMA InitGreedy == Init => GreedyMinimal
  BY DEF Init, GreedyMinimal

\* Every step preserves the choice.
LEMMA NextGreedy == IInv /\ SizeInv /\ GreedyMinimal /\ [Next]_vars => GreedyMinimal'
<1> SUFFICES ASSUME IInv, SizeInv, GreedyMinimal, [Next]_vars PROVE GreedyMinimal'
  OBVIOUS
<1>1. ASSUME pc' \notin {"grow", "done"} PROVE GreedyMinimal'
  BY <1>1 DEF GreedyMinimal
<1>2. ASSUME data' = data, vlist' = vlist, Gone' = Gone, pc \in {"grow", "done"} PROVE GreedyMinimal'
  <2>1. \A v, s : Correlation(v, s)' = Correlation(v, s)
    BY <1>2 DEF Correlation
  <2> QED BY <1>2, <2>1 DEF GreedyMinimal
<1>3. CASE getcorrinfo \/ recoverdgraph \/ snapshotdbgraph \/ Restart \/ loadsnapshot
           \/ (\E k \in Sizes : FindTooLarge(k) \/ FindNothing(k)) \/ Finish
  BY <1>1, <1>3 DEF getcorrinfo, recoverdgraph, snapshotdbgraph, Restart, loadsnapshot,
     FindTooLarge, FindNothing, Finish
<1>4. CASE UNCHANGED vars
  BY <1>1, <1>2, <1>4 DEF vars, Gone
<1>5. CASE GrowDepleted
  BY <1>2, <1>5 DEF GrowDepleted, Gone
<1>6. CASE Grow
  <2>1. Len(vlist) >= 2
    BY <1>6 DEF Grow, SizeInv
  <2> QED BY <1>6, <2>1, GrowGreedy
<1> QED BY <1>3, <1>4, <1>5, <1>6, PairGreedy DEF Next

\* When findset returns 0 the set has the size the caller asked for, within the
\* limits of its first pair and first turn.
THEOREM SizeIsHonest == Spec => []SizeHonest
<1>1. ResultInv => SizeHonest
  BY DEF ResultInv
<1> QED BY <1>1, Inductive, InitResult, NextResult, PTL DEF Spec

\* When findset returns -1 there is no pair left, or nothing whose correlation
\* with the set is below the mark.
THEOREM DepletionIsHonest == Spec => []DepletedHonest
<1>1. ResultInv => DepletedHonest
  BY DEF ResultInv
<1> QED BY <1>1, Inductive, InitResult, NextResult, PTL DEF Spec

\* findset chooses the least correlated pair of those that are left, and then
\* each time the variable least correlated with the set.
THEOREM ChoiceIsGreedy == Spec => []GreedyMinimal
<1>1. ResultInv => SizeInv
  BY DEF ResultInv
<1> QED BY <1>1, Inductive, InitResult, NextResult, InitGreedy, NextGreedy, PTL DEF Spec
=============================================================================
