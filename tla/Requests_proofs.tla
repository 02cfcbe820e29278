-------------------------- MODULE Requests_proofs --------------------------
(***************************************************************************)
(* What a step does to the requests in flight, for any workers.  The       *)
(* proofs about a component speak only of the requests that will write its *)
(* tables; a step spares them when it hands no worker a request whose op   *)
(* is one of theirs.  Then what the proofs keep needing beside requests: a *)
(* row saved in or added to a table, and a count of rows together with the *)
(* workers that have yet to write one.                                     *)
(***************************************************************************)
EXTENDS Requests, Sequences, FiniteSetTheorems, TLAPS

RequestsOK == request = [w \in Workers |-> request[w]]

Spares(ops) ==
    /\ request' = [w \in Workers |-> request'[w]]
    /\ \A w \in Workers : request'[w] = request[w] \/ request'[w].op \notin ops

-----------------------------------------------------------------------------
LEMMA InitRequests == RequestsInit => RequestsOK
BY DEF RequestsInit, RequestsOK

LEMMA StillSpares == ASSUME RequestsOK, request' = request, NEW ops PROVE Spares(ops)
BY DEF RequestsOK, Spares

LEMMA ServeSpares == ASSUME RequestsOK, Serve, NEW ops PROVE Spares(ops)
BY DEF RequestsOK, Serve, Spares

LEMMA ProceedSpares ==
    ASSUME RequestsOK, NEW w \in Workers, NEW held, NEW ops, held.op \notin ops,
           Begin(w, held) \/ TakeUp(w, held) \/ Proceed(w, held) \/ Retry(w, held)
    PROVE  Spares(ops) /\ request' = [request EXCEPT ![w] = held]
BY DEF RequestsOK, Begin, TakeUp, Proceed, Retry, Spares

(* The request a worker goes on with.                                      *)
LEMMA HeldNext ==
    ASSUME RequestsOK, NEW w \in Workers, NEW held,
           Begin(w, held) \/ TakeUp(w, held) \/ Proceed(w, held) \/ Retry(w, held)
    PROVE  /\ RequestsOK' /\ request'[w] = held
           /\ \A v \in Workers : v # w => request'[v] = request[v]
BY DEF RequestsOK, Begin, TakeUp, Proceed, Retry

LEMMA EndSpares ==
    ASSUME RequestsOK, NEW w \in Workers, End(w), NEW ops, "idle" \notin ops
    PROVE  Spares(ops) /\ request' = [request EXCEPT ![w] = Idle]
BY DEF RequestsOK, End, Proceed, Spares, Idle

LEMMA SparesFewer ==
    ASSUME NEW ops, Spares(ops), NEW fewer, fewer \subseteq ops PROVE Spares(fewer)
BY DEF Spares

-----------------------------------------------------------------------------
(* A table's rows, in the order they were inserted.                        *)
LEMMA RowReplaced ==
    ASSUME NEW S, NEW rows \in Seq(S), NEW n \in DOMAIN rows, NEW row \in S
    PROVE  /\ [rows EXCEPT ![n] = row] \in Seq(S)
           /\ DOMAIN [rows EXCEPT ![n] = row] = DOMAIN rows
           /\ \A m \in DOMAIN rows :
                [rows EXCEPT ![n] = row][m] = IF m = n THEN row ELSE rows[m]
OBVIOUS

LEMMA RowInserted ==
    ASSUME NEW S, NEW rows \in Seq(S), NEW row \in S
    PROVE  /\ Append(rows, row) \in Seq(S) /\ Len(rows) + 1 \in Nat \ {0}
           /\ DOMAIN rows = 1 .. Len(rows)
           /\ DOMAIN Append(rows, row) = DOMAIN rows \cup {Len(rows) + 1}
           /\ Len(rows) + 1 \notin DOMAIN rows /\ Append(rows, row)[Len(rows) + 1] = row
           /\ \A m \in DOMAIN rows : Append(rows, row)[m] = rows[m]
OBVIOUS

-----------------------------------------------------------------------------
(* Counting: two sets, of rows written and of workers about to write one,  *)
(* stay within a number when they lose members, when a worker writes its   *)
(* row, and one more is begun for every one the number grows by.           *)
LEMMA PairShrinks ==
    ASSUME NEW A, NEW B, IsFiniteSet(A), IsFiniteSet(B), NEW n \in Nat,
           Cardinality(A) + Cardinality(B) <= n, NEW C \in SUBSET A, NEW D \in SUBSET B
    PROVE  Cardinality(C) + Cardinality(D) <= n
<1>1. /\ IsFiniteSet(C) /\ Cardinality(C) <= Cardinality(A)
      /\ IsFiniteSet(D) /\ Cardinality(D) <= Cardinality(B)
  BY FS_Subset
<1>2. /\ Cardinality(A) \in Nat /\ Cardinality(B) \in Nat
      /\ Cardinality(C) \in Nat /\ Cardinality(D) \in Nat
  BY <1>1, FS_CardinalityType
<1>. QED BY <1>1, <1>2

LEMMA PairMoves ==
    ASSUME NEW A, NEW B, IsFiniteSet(A), IsFiniteSet(B), NEW n \in Nat,
           Cardinality(A) + Cardinality(B) <= n, NEW x, NEW y \in B,
           NEW C \in SUBSET (A \cup {x}), NEW D \in SUBSET (B \ {y})
    PROVE  Cardinality(C) + Cardinality(D) <= n
<1>1. /\ IsFiniteSet(A \cup {x}) /\ IsFiniteSet(B \ {y})
      /\ Cardinality(A \cup {x}) <= Cardinality(A) + 1
      /\ Cardinality(B \ {y}) = Cardinality(B) - 1
  <2>1. /\ IsFiniteSet(A \cup {x})
        /\ Cardinality(A \cup {x}) = IF x \in A THEN Cardinality(A) ELSE Cardinality(A) + 1
    BY FS_AddElement
  <2>2. /\ IsFiniteSet(B \ {y})
        /\ Cardinality(B \ {y}) = IF y \in B THEN Cardinality(B) - 1 ELSE Cardinality(B)
    BY FS_RemoveElement
  <2>3. Cardinality(A) \in Nat
    BY FS_CardinalityType
  <2>. QED BY <2>1, <2>2, <2>3
<1>2. Cardinality(A \cup {x}) + Cardinality(B \ {y}) <= n
  BY <1>1, FS_CardinalityType
<1>. QED BY <1>1, <1>2, PairShrinks

LEMMA PairOfWorkers ==
    ASSUME NEW D \in SUBSET Workers
    PROVE  Cardinality({}) + Cardinality(D) <= Cardinality(Workers)
BY WorkersAreFinite, FS_EmptySet, FS_Subset, FS_CardinalityType

LEMMA PairGrows ==
    ASSUME NEW A, NEW B, IsFiniteSet(A), IsFiniteSet(B), NEW n \in Nat,
           Cardinality(A) + Cardinality(B) <= n, NEW y,
           NEW C \in SUBSET A, NEW D \in SUBSET (B \cup {y})
    PROVE  Cardinality(C) + Cardinality(D) <= n + 1
<1>1. /\ IsFiniteSet(B \cup {y})
      /\ Cardinality(B \cup {y}) = IF y \in B THEN Cardinality(B) ELSE Cardinality(B) + 1
  BY FS_AddElement
<1>2. Cardinality(A) \in Nat /\ Cardinality(B) \in Nat
  BY FS_CardinalityType
<1>3. Cardinality(A) + Cardinality(B \cup {y}) <= n + 1
  BY <1>1, <1>2
<1>4. n + 1 \in Nat
  OBVIOUS
<1>. QED BY <1>1, <1>3, <1>4, PairShrinks
=============================================================================
