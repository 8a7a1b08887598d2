-------------------------------- MODULE DGraph --------------------------------
(***************************************************************************)
(* The correlation graph of src/mpi/dgraph.cpp: findset dispatches sets of *)
(* weakly correlated variables until the graph is depleted, recoverdgraph  *)
(* makes all of them available again, and a snapshot in a file replaces    *)
(* the computation of the graph in a later process.                        *)
(*                                                                         *)
(* A correlation is the absolute value of the one in the code, in units of *)
(* the last digit the snapshot file keeps (%2.20lf), so that writing and   *)
(* reading it changes nothing.  Invalid (DGINVALIDENTRY, 1000) marks an    *)
(* entry that must not be used, and is also where findset starts its       *)
(* searches for a minimum.                                                 *)
(* findset is split at its loop, so that the set can be seen to grow.      *)
(*                                                                         *)
(* Definitions named X_<Bug> are X with a plausible programming error.     *)
(***************************************************************************)
EXTENDS Integers, Sequences, FiniteSets, SequencesExt

CONSTANTS features, Corr, Invalid, MAXVARLIST,
          Sizes,     \* the values of n in calls of findset
          MaxCalls   \* bound on the calls of findset between two recoveries

Var == 0 .. features - 1

ASSUME GraphAssumption ==
  /\ features \in Nat
  /\ Invalid \in Nat /\ Corr \subseteq 0 .. Invalid - 1
  /\ MAXVARLIST \in Nat /\ Sizes \subseteq Nat
  /\ MaxCalls \in Nat

VARIABLES
  data,           \* the correlations of the problem (getcorr_pair)
  pc,             \* "new" (initdgraph), "idle", "grow" or "done" (in findset), "exited"
  adj, adjcopy,
  file,           \* the snapshot; <<>> when there is no whole one
  n, vlist, ret,  \* argument and result of the last findset
  dispatched,     \* variables of the sets returned since the last recovery
  saved, lost,    \* variables missing in the snapshot, and in the graph it was loaded into
  calls

vars == <<data, pc, adj, adjcopy, file, n, vlist, ret, dispatched, saved, lost, calls>>

Upper == {p \in Var \X Var : p[1] < p[2]}
Ordered(i, j) == IF i < j THEN <<i, j>> ELSE <<j, i>>

\* initdgraph: every entry invalid; adjcopy is zeroed memory.
NewAdj     == [p \in Var \X Var |-> Invalid]
NewAdjcopy == [p \in Var \X Var |-> 0]

Init ==
  /\ data \in [Upper -> Corr]
  /\ pc = "new"
  /\ adj = NewAdj
  /\ adjcopy = NewAdjcopy
  /\ file = <<>>
  /\ n = 0 /\ vlist = <<>> /\ ret = 0
  /\ dispatched = {} /\ calls = 0
  /\ saved = {} /\ lost = {}

-----------------------------------------------------------------------------
(* Building, keeping and restoring the graph *)

\* The symmetric matrix of the data, its diagonal invalid.
Full == [p \in Var \X Var |-> IF p[1] = p[2] THEN Invalid ELSE data[Ordered(p[1], p[2])]]

getcorrinfo ==
  /\ pc = "new"
  /\ adj' = Full
  /\ adjcopy' = Full
  /\ pc' = "idle"
  /\ lost' = {}
  /\ UNCHANGED <<data, file, n, vlist, ret, dispatched, saved, calls>>

Restored_Current == adj

Restored == adjcopy

recoverdgraph ==
  /\ pc = "idle"
  /\ adj' = Restored
  /\ dispatched' = {}
  /\ calls' = 0
  /\ UNCHANGED <<data, pc, adjcopy, file, n, vlist, ret, saved, lost>>

\* snapshotdbgraph writes adj, not adjcopy: what has been dispatched is missing.
snapshotdbgraph ==
  /\ pc = "idle"
  /\ file' = <<adj>>
  /\ saved' = lost \union dispatched
  /\ UNCHANGED <<data, pc, adj, adjcopy, n, vlist, ret, dispatched, lost, calls>>

\* A later process, which starts with initdgraph.  When the earlier one ended
\* inside snapshotdbgraph, which empties the file before it writes, the file
\* is missing rows or columns: no better for loadsnapshot than no file.
Restart ==
  /\ pc = "idle"
  /\ pc' = "new"
  /\ adj' = NewAdj
  /\ adjcopy' = NewAdjcopy
  /\ n' = 0 /\ vlist' = <<>> /\ ret' = 0
  /\ dispatched' = {} /\ lost' = {} /\ calls' = 0
  /\ file' \in {file, <<>>}
  /\ UNCHANGED <<data, saved>>

\* The assertions refuse a file that is missing or short.
loadsnapshot ==
  /\ pc = "new"
  /\ \/ /\ file # <<>>
        /\ adj' = file[1] /\ adjcopy' = file[1]
        /\ pc' = "idle"
        /\ lost' = saved
     \/ /\ file = <<>>
        /\ pc' = "exited"
        /\ UNCHANGED <<adj, adjcopy, lost>>
  /\ UNCHANGED <<data, file, n, vlist, ret, dispatched, saved, calls>>

-----------------------------------------------------------------------------
(* findset *)

\* Entries of the matrix in the order of the search.
Before(p, q) == p[1] < q[1] \/ (p[1] = q[1] /\ p[2] < q[2])

\* The first pair with the least correlation.
MinPair(p) ==
  /\ p \in Upper /\ adj[p] < Invalid
  /\ \A q \in Upper : adj[p] <= adj[q] /\ (adj[q] = adj[p] => ~Before(q, p))

\* diminishgraphcol of every variable of S.
Cols(m, S) == [p \in Var \X Var |-> IF p[2] \in S THEN Invalid ELSE m[p]]

Dim_ColsOnly(m, S) == Cols(m, S)

Dim_NextRow(m, S) ==
  [p \in Var \X Var |-> IF {p[1], p[1] - 1, p[2]} \cap S # {} THEN Invalid ELSE m[p]]

\* diminishgraphcol and diminishgraphrow.
Dim(m, S) == [p \in Var \X Var |-> IF p[1] \in S \/ p[2] \in S THEN Invalid ELSE m[p]]

\* A set that does not fit into vlist: exit.
FindTooLarge(k) ==
  /\ pc = "idle"
  /\ k > MAXVARLIST
  /\ pc' = "exited"
  /\ UNCHANGED <<data, adj, adjcopy, file, n, vlist, ret, dispatched, saved, lost, calls>>

\* No valid pair: -1 with an empty set.
FindNothing(k) ==
  /\ pc = "idle"
  /\ k <= MAXVARLIST /\ calls < MaxCalls
  /\ \A p \in Upper : adj[p] = Invalid
  /\ n' = k /\ vlist' = <<>> /\ ret' = -1
  /\ calls' = calls + 1
  /\ UNCHANGED <<data, pc, adj, adjcopy, file, dispatched, saved, lost>>

FindPair(k) ==
  /\ pc = "idle"
  /\ k <= MAXVARLIST /\ calls < MaxCalls
  /\ \E p \in Upper :
       /\ MinPair(p)
       /\ vlist' = <<p[1], p[2]>>
       /\ adj' = Cols(adj, {p[1], p[2]})
  /\ n' = k /\ ret' = 0
  /\ pc' = IF k > 0 THEN "grow" ELSE "done"
  /\ calls' = calls + 1
  /\ UNCHANGED <<data, adjcopy, file, dispatched, saved, lost>>

\* The sum of a sequence of numbers.
Total(s) == FoldLeft(LAMBDA acc, x : acc + x, 0, s)

Weight_FirstOnly(j) == adj[<<vlist[1], j>>]

\* workmem[j]: the sum of the correlations with the variables of the set.
Weight(j) == Total([i \in DOMAIN vlist |-> adj[<<vlist[i], j>>]])

\* workmem[j] of a variable that is not available is Invalid.
Available(j) == adj[<<vlist[1], j>>] # Invalid
workmem(j) == IF Available(j) THEN Weight(j) ELSE Invalid

\* The first variable with the least sum.
MinVar(j) ==
  /\ workmem(j) < Invalid
  /\ \A k \in Var : workmem(j) <= workmem(k) /\ (workmem(k) = workmem(j) => j <= k)

SetFull_AtMinusOne(s) == Len(s) >= n - 1

SetFull(s) == Len(s) >= n

Grow ==
  /\ pc = "grow"
  /\ \E j \in Var :
       /\ MinVar(j)
       /\ vlist' = Append(vlist, j)
       /\ adj' = Cols(adj, {j})
  /\ pc' = IF SetFull(vlist') THEN "done" ELSE "grow"
  /\ UNCHANGED <<data, adjcopy, file, n, ret, dispatched, saved, lost, calls>>

\* No sum below Invalid: depleteflag, and the set stays as it is.
GrowDepleted ==
  /\ pc = "grow"
  /\ \A j \in Var : workmem(j) >= Invalid
  /\ ret' = -1
  /\ pc' = "done"
  /\ UNCHANGED <<data, adj, adjcopy, file, n, vlist, dispatched, saved, lost, calls>>

\* The rows and columns of the set become invalid.
Finish ==
  /\ pc = "done"
  /\ adj' = Dim(adj, ToSet(vlist))
  /\ dispatched' = dispatched \union ToSet(vlist)
  /\ pc' = "idle"
  /\ UNCHANGED <<data, adjcopy, file, n, vlist, ret, saved, lost, calls>>

Next ==
  \/ getcorrinfo \/ recoverdgraph \/ snapshotdbgraph \/ Restart \/ loadsnapshot
  \/ \E k \in Sizes : FindTooLarge(k) \/ FindNothing(k) \/ FindPair(k)
  \/ Grow \/ GrowDepleted \/ Finish

Spec == Init /\ [][Next]_vars

-----------------------------------------------------------------------------
(* Properties *)

Matrix == [Var \X Var -> Nat]

\* Every variable has its type.
TypeOK ==
  /\ data \in [Upper -> Corr]
  /\ pc \in {"new", "idle", "grow", "done", "exited"}
  /\ adj \in Matrix /\ adjcopy \in Matrix
  /\ file = <<>> \/ (Len(file) = 1 /\ file[1] \in Matrix)
  /\ n \in Nat /\ vlist \in Seq(Var) /\ ret \in {0, -1}
  /\ dispatched \subseteq Var /\ saved \subseteq Var /\ lost \subseteq Var
  /\ calls \in 0 .. MaxCalls

\* The graph of the data without the variables of D; those of C are not to be
\* chosen either.
Without(D, C) ==
  [p \in Var \X Var |-> IF p[1] = p[2] \/ p[1] \in D \/ p[2] \in D \union C THEN Invalid
                        ELSE data[Ordered(p[1], p[2])]]

Gone == lost \union dispatched

\* Between calls of findset the graph is the correlations of the data without
\* the variables dispatched since the last recovery and those that were already
\* dispatched when the snapshot it was loaded from was taken: recoverdgraph
\* restores exactly the former, and nothing ever the latter.
GraphExact ==
  pc = "idle" => adj = Without(Gone, {})

\* No variable is dispatched twice before the graph is recovered, neither in
\* one set nor in two: workers would update it at the same time.
NoRepeat ==
  pc \in {"grow", "done"} =>
    /\ ToSet(vlist) \cap Gone = {}
    /\ \A a, b \in DOMAIN vlist : a # b => vlist[a] # vlist[b]

\* The correlation of v with the variables of a sequence, from the data.
Correlation(v, s) == Total([i \in DOMAIN s |-> data[Ordered(s[i], v)]])

\* "Try to find n variables with minimal correlation": whatever was dispatched
\* before, the set starts with the least correlated pair of the variables that
\* are left, and each further one is the least correlated with the set so far.
GreedyMinimal ==
  pc \in {"grow", "done"} =>
    LET left == Var \ Gone
    IN  /\ \A v, w \in left : v # w => data[<<vlist[1], vlist[2]>>] <= data[Ordered(v, w)]
        /\ \A k \in 3 .. Len(vlist) :
             LET sofar == SubSeq(vlist, 1, k - 1)
             IN  \A v \in left \ ToSet(sofar) : Correlation(vlist[k], sofar) <= Correlation(v, sofar)

Returned == pc = "idle" /\ calls > 0

\* "0 on success": then the set has the n variables the caller asked for, or
\* three if these are fewer (two for n = 0), as the first pair and one turn of
\* the loop do not look at n.
SizeHonest ==
  Returned /\ ret = 0 => Len(vlist) = (IF n = 0 THEN 2 ELSE IF n < 3 THEN 3 ELSE n)

\* "-1 on failure due to the depletion": then there is no pair of variables
\* left, or none whose correlations with the set add up to less than the mark
\* for invalid entries.
DepletedHonest ==
  Returned /\ ret = -1 =>
    \/ Cardinality(Var \ Gone) <= 1
    \/ vlist # <<>> /\ \A v \in Var \ Gone : Correlation(v, vlist) >= Invalid
=============================================================================
