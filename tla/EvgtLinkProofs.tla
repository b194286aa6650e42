--------------------------- MODULE EvgtLinkProofs ---------------------------
(* EvgtLink implements Datagrams, for any queues, windows, deadlines and   *)
(* number of faults.  First what may be under way from the client to the   *)
(* server, as a predicate on values, and what each thing that happens to   *)
(* the queue and the stream does to it; then the steps of the two ends.    *)
(* The second half is about time: the deadlines of a healthy link.         *)
EXTENDS EvgtLink, FiniteSetTheorems, TLAPS

Frames == [kind : {"ping", "pong", "data"}, n : Nat, age : Nat]

-----------------------------------------------------------------------------
(* Datagrams under way: S were numbered, M of them lost before the stream, *)
(* L is the last one delivered, G the receiver's gaps, Q the queue, W the  *)
(* stream.                                                                 *)
Carries(W, i) == W[i].kind = "data"

Queued(S, M, L, Q) ==
  /\ \A i \in 1..Len(Q) : Q[i] > L /\ Q[i] <= S /\ Q[i] \notin M
  /\ \A i, j \in 1..Len(Q) : i < j => Q[i] < Q[j]

Streamed(S, M, L, W) ==
  /\ \A i \in 1..Len(W) : Carries(W, i) => W[i].n > L /\ W[i].n <= S /\ W[i].n \notin M
  /\ \A i, j \in 1..Len(W) : i < j /\ Carries(W, i) /\ Carries(W, j) => W[i].n < W[j].n

Before(Q, W) ==
  \A i \in 1..Len(W), j \in 1..Len(Q) : Carries(W, i) => W[i].n < Q[j]

Covered(S, M, L, Q, W) ==
  \A m \in Nat : m > L /\ m <= S =>
    \/ m \in M
    \/ \E i \in 1..Len(Q) : Q[i] = m
    \/ \E i \in 1..Len(W) : Carries(W, i) /\ W[i].n = m

Arrives(W, n) == W # <<>> /\ Head(W).kind = "data" /\ Head(W).n = n

Entries(Q) == {Q[i] : i \in 1..Len(Q)}

Counted(S, M, L, G) ==
  /\ S \in Nat /\ L \in Nat /\ L <= S /\ M \subseteq 1..S
  /\ L \notin M /\ G = Cardinality({m \in M : m < L})

InOrder(S, M, L, G, Q, W) ==
  Counted(S, M, L, G) /\ Queued(S, M, L, Q) /\ Streamed(S, M, L, W) /\ Before(Q, W)

\* The types behind the order.
LEMMA Numbers ==
  ASSUME NEW S, NEW M, NEW L, NEW G, NEW Q \in Seq(Nat), NEW W \in Seq(Frames),
         InOrder(S, M, L, G, Q, W)
  PROVE  /\ S \in Nat /\ L \in Nat /\ L <= S /\ M \subseteq 1..S /\ L \notin M
         /\ Len(Q) \in Nat /\ \A i \in 1..Len(Q) : Q[i] \in Nat
         /\ Len(W) \in Nat /\ \A i \in 1..Len(W) : W[i] \in Frames /\ W[i].n \in Nat
<1>1. \A i \in 1..Len(W) : W[i] \in Frames
  OBVIOUS
<1>2. \A i \in 1..Len(W) : W[i].n \in Nat
  BY <1>1 DEF Frames
<1> QED
  BY <1>1, <1>2 DEF InOrder, Counted

\* A queue and a stream without their head.
LEMMA TailQueued ==
  ASSUME NEW S, NEW M, NEW L, NEW Q \in Seq(Nat), Q # <<>>, Queued(S, M, L, Q)
  PROVE  Queued(S, M, L, Tail(Q))
<1> DEFINE R == Tail(Q)
<1>1. \A i \in 1..Len(R) : i + 1 \in 1..Len(Q) /\ R[i] = Q[i + 1]
  OBVIOUS
<1>2. \A i, j \in 1..Len(R) : i < j => i + 1 < j + 1
  OBVIOUS
<1> HIDE DEF R
<1>3. \A i \in 1..Len(R) : R[i] > L /\ R[i] <= S /\ R[i] \notin M
  BY <1>1 DEF Queued
<1>4. \A i, j \in 1..Len(R) : i < j => R[i] < R[j]
  BY <1>1, <1>2 DEF Queued
<1> QED
  BY <1>3, <1>4 DEF Queued, R

LEMMA TailStreamed ==
  ASSUME NEW S, NEW M, NEW L, NEW W \in Seq(Frames), W # <<>>, Streamed(S, M, L, W)
  PROVE  Streamed(S, M, L, Tail(W))
<1> DEFINE V == Tail(W)
<1>1. \A i \in 1..Len(V) : i + 1 \in 1..Len(W) /\ V[i] = W[i + 1]
  OBVIOUS
<1>2. \A i, j \in 1..Len(V) : i < j => i + 1 < j + 1
  OBVIOUS
<1> HIDE DEF V
<1>3. \A i \in 1..Len(V) : Carries(V, i) => V[i].n > L /\ V[i].n <= S /\ V[i].n \notin M
  BY <1>1 DEF Streamed, Carries
<1>4. \A i, j \in 1..Len(V) : i < j /\ Carries(V, i) /\ Carries(V, j) => V[i].n < V[j].n
  BY <1>1, <1>2 DEF Streamed, Carries
<1> QED
  BY <1>3, <1>4 DEF Streamed, V

\* A number that is taken and lost at once.
LEMMA DropKeeps ==
  ASSUME NEW S, NEW M, NEW L, NEW G, NEW Q \in Seq(Nat), NEW W \in Seq(Frames),
         InOrder(S, M, L, G, Q, W)
  PROVE  /\ InOrder(S + 1, M \cup {S + 1}, L, G, Q, W)
         /\ Covered(S, M, L, Q, W) => Covered(S + 1, M \cup {S + 1}, L, Q, W)
<1>1. S \in Nat /\ L \in Nat /\ L <= S /\ M \subseteq 1..S /\ L \notin M
  BY DEF InOrder, Counted
<1>2. Counted(S + 1, M \cup {S + 1}, L, G)
  <2>1. {m \in M \cup {S + 1} : m < L} = {m \in M : m < L}
    BY <1>1
  <2>2. S + 1 \in Nat /\ L <= S + 1 /\ M \cup {S + 1} \subseteq 1..(S + 1) /\ L \notin M \cup {S + 1}
    BY <1>1
  <2> QED
    BY <1>1, <2>1, <2>2 DEF InOrder, Counted
<1>3. Queued(S + 1, M \cup {S + 1}, L, Q)
  <2>1. \A i \in 1..Len(Q) : Q[i] \in Nat
    OBVIOUS
  <2> QED
    BY <1>1, <2>1 DEF InOrder, Queued
<1>4. Streamed(S + 1, M \cup {S + 1}, L, W)
  <2>1. \A i \in 1..Len(W) : W[i] \in Frames
    OBVIOUS
  <2>2. \A i \in 1..Len(W) : W[i].n \in Nat
    BY <2>1 DEF Frames
  <2> QED
    BY <1>1, <2>2 DEF InOrder, Streamed
<1>5. ASSUME Covered(S, M, L, Q, W)
      PROVE  Covered(S + 1, M \cup {S + 1}, L, Q, W)
  <2>1. \A m \in Nat : m <= S + 1 => m <= S \/ m = S + 1
    BY <1>1
  <2> QED
    BY <1>5, <2>1 DEF Covered
<1> QED
  BY <1>2, <1>3, <1>4, <1>5 DEF InOrder

\* A number that is queued.
LEMMA QueueKeeps ==
  ASSUME NEW S, NEW M, NEW L, NEW G, NEW Q \in Seq(Nat), NEW W \in Seq(Frames),
         InOrder(S, M, L, G, Q, W)
  PROVE  /\ InOrder(S + 1, M, L, G, Append(Q, S + 1), W)
         /\ Covered(S, M, L, Q, W) => Covered(S + 1, M, L, Append(Q, S + 1), W)
<1> DEFINE R == Append(Q, S + 1)
<1>1. /\ S \in Nat /\ L \in Nat /\ L <= S /\ M \subseteq 1..S
      /\ Len(Q) \in Nat /\ \A i \in 1..Len(Q) : Q[i] \in Nat
      /\ Len(W) \in Nat /\ \A i \in 1..Len(W) : W[i].n \in Nat
  BY Numbers
<1>2. Len(R) = Len(Q) + 1 /\ R[Len(Q) + 1] = S + 1 /\ \A i \in 1..Len(Q) : R[i] = Q[i]
  BY <1>1
<1>3. \A i \in 1..Len(R) : i \in 1..Len(Q) \/ i = Len(Q) + 1
  BY <1>1, <1>2
<1> HIDE DEF R
<1>4. Counted(S + 1, M, L, G)
  BY <1>1 DEF InOrder, Counted
<1>5. Queued(S + 1, M, L, R)
  <2>1. \A i \in 1..Len(R) : R[i] > L /\ R[i] <= S + 1 /\ R[i] \notin M
    BY <1>1, <1>2, <1>3 DEF InOrder, Queued
  <2>2. \A i, j \in 1..Len(R) : i < j => R[i] < R[j]
    <3>1. \A i, j \in 1..Len(Q) : i < j => R[i] < R[j]
      BY <1>2 DEF InOrder, Queued
    <3>2. \A i \in 1..Len(Q) : R[i] < R[Len(Q) + 1]
      BY <1>1, <1>2 DEF InOrder, Queued
    <3>3. \A i, j \in 1..Len(R) : i < j => i \in 1..Len(Q)
      BY <1>1, <1>2
    <3> QED
      BY <1>3, <3>1, <3>2, <3>3
  <2> QED
    BY <2>1, <2>2 DEF Queued
<1>6. Streamed(S + 1, M, L, W)
  BY <1>1 DEF InOrder, Streamed
<1>7. Before(R, W)
  <2>1. \A i \in 1..Len(W) : Carries(W, i) => W[i].n < S + 1
    BY <1>1 DEF InOrder, Streamed
  <2> QED
    BY <1>2, <1>3, <2>1 DEF InOrder, Before
<1>8. ASSUME Covered(S, M, L, Q, W)
      PROVE  Covered(S + 1, M, L, R, W)
  <2>1. \A m \in Nat : m <= S + 1 => m <= S \/ m = S + 1
    BY <1>1
  <2>2. Len(Q) + 1 \in 1..Len(R)
    BY <1>1, <1>2
  <2>3. \A i \in 1..Len(Q) : i \in 1..Len(R)
    BY <1>1, <1>2
  <2> QED
    BY <1>2, <1>8, <2>1, <2>2, <2>3 DEF Covered
<1> QED
  BY <1>4, <1>5, <1>6, <1>7, <1>8 DEF InOrder, R

\* The head of the queue is written to the stream.
LEMMA SendKeeps ==
  ASSUME NEW S, NEW M, NEW L, NEW G, NEW Q \in Seq(Nat), NEW W \in Seq(Frames),
         InOrder(S, M, L, G, Q, W), Q # <<>>
  PROVE  LET V == Append(W, Frame("data", Head(Q)))
         IN  /\ InOrder(S, M, L, G, Tail(Q), V)
             /\ Covered(S, M, L, Q, W) => Covered(S, M, L, Tail(Q), V)
<1> DEFINE R == Tail(Q)
           V == Append(W, Frame("data", Head(Q)))
<1>1. /\ S \in Nat /\ L \in Nat /\ L <= S /\ M \subseteq 1..S
      /\ Len(Q) \in Nat /\ \A i \in 1..Len(Q) : Q[i] \in Nat
      /\ Len(W) \in Nat /\ \A i \in 1..Len(W) : W[i].n \in Nat
  BY Numbers
<1>2. /\ 1 \in 1..Len(Q) /\ Len(R) = Len(Q) - 1
      /\ \A i \in 1..Len(R) : i \in 1..Len(Q) /\ i + 1 \in 1..Len(Q) /\ R[i] = Q[i + 1]
  BY <1>1
<1>3. /\ Len(V) = Len(W) + 1 /\ \A i \in 1..Len(W) : V[i] = W[i]
      /\ V[Len(W) + 1].kind = "data" /\ V[Len(W) + 1].n = Q[1]
  BY <1>1, <1>2 DEF Frame
<1>4. \A i \in 1..Len(V) : i \in 1..Len(W) \/ i = Len(W) + 1
  BY <1>1, <1>3
<1> HIDE DEF R, V
<1>5. Queued(S, M, L, R)
  BY <1>2, TailQueued DEF InOrder, R
<1>6. Q[1] > L /\ Q[1] <= S /\ Q[1] \notin M
  BY <1>2 DEF InOrder, Queued
<1>7. Streamed(S, M, L, V)
  <2>1. \A i \in 1..Len(V) : Carries(V, i) => V[i].n > L /\ V[i].n <= S /\ V[i].n \notin M
    BY <1>3, <1>4, <1>6 DEF InOrder, Streamed, Carries
  <2>2. \A i, j \in 1..Len(V) : i < j /\ Carries(V, i) /\ Carries(V, j) => V[i].n < V[j].n
    <3>1. \A i, j \in 1..Len(W) : i < j /\ Carries(V, i) /\ Carries(V, j) => V[i].n < V[j].n
      BY <1>3 DEF InOrder, Streamed, Carries
    <3>2. \A i \in 1..Len(W) : Carries(V, i) => V[i].n < V[Len(W) + 1].n
      BY <1>2, <1>3 DEF InOrder, Before, Carries
    <3>3. \A i, j \in 1..Len(V) : i < j => i \in 1..Len(W)
      BY <1>1, <1>3
    <3> QED
      BY <1>4, <3>1, <3>2, <3>3
  <2> QED
    BY <2>1, <2>2 DEF Streamed
<1>8. Before(R, V)
  <2>1. \A j \in 1..Len(R) : V[Len(W) + 1].n < R[j]
    <3>1. \A j \in 1..Len(R) : 1 < j + 1
      BY <1>1, <1>2
    <3>2. \A j \in 1..Len(R) : Q[1] < Q[j + 1]
      BY <1>2, <3>1 DEF InOrder, Queued
    <3> QED
      BY <1>2, <1>3, <3>2
  <2>2. \A i \in 1..Len(W), j \in 1..Len(R) : Carries(V, i) => V[i].n < R[j]
    BY <1>2, <1>3 DEF InOrder, Before, Carries
  <2> QED
    BY <1>4, <2>1, <2>2 DEF Before
<1>9. ASSUME Covered(S, M, L, Q, W)
      PROVE  Covered(S, M, L, R, V)
  <2>1. \A i \in 1..Len(W) : i \in 1..Len(V)
    BY <1>1, <1>3
  <2>2. Len(W) + 1 \in 1..Len(V)
    BY <1>1, <1>3
  <2>3. \A i \in 1..Len(Q) : i = 1 \/ (i - 1 \in 1..Len(R) /\ R[i - 1] = Q[i])
    BY <1>1, <1>2
  <2>4. ASSUME NEW m \in Nat, m > L, m <= S, m \notin M,
               ~\E i \in 1..Len(V) : Carries(V, i) /\ V[i].n = m
        PROVE  \E i \in 1..Len(R) : R[i] = m
    <3>1. ~\E i \in 1..Len(W) : Carries(W, i) /\ W[i].n = m
      BY <1>3, <2>1, <2>4 DEF Carries
    <3>2. PICK i \in 1..Len(Q) : Q[i] = m
      BY <1>9, <2>4, <3>1 DEF Covered
    <3>3. i # 1
      BY <1>3, <2>2, <2>4, <3>2 DEF Carries
    <3> QED
      BY <2>3, <3>2, <3>3
  <2> QED
    BY <2>4 DEF Covered
<1> QED
  BY <1>5, <1>7, <1>8, <1>9 DEF InOrder, R, V

\* The head of the queue is given up.
LEMMA StaleKeeps ==
  ASSUME NEW S, NEW M, NEW L, NEW G, NEW Q \in Seq(Nat), NEW W \in Seq(Frames),
         InOrder(S, M, L, G, Q, W), Q # <<>>
  PROVE  /\ InOrder(S, M \cup {Head(Q)}, L, G, Tail(Q), W)
         /\ Covered(S, M, L, Q, W) => Covered(S, M \cup {Head(Q)}, L, Tail(Q), W)
         /\ Head(Q) \in (L + 1)..S
<1> DEFINE R == Tail(Q)
           K == M \cup {Q[1]}
<1>1. /\ S \in Nat /\ L \in Nat /\ L <= S /\ M \subseteq 1..S /\ L \notin M
      /\ Len(Q) \in Nat /\ \A i \in 1..Len(Q) : Q[i] \in Nat
      /\ Len(W) \in Nat /\ \A i \in 1..Len(W) : W[i].n \in Nat
  BY Numbers
<1>2. /\ 1 \in 1..Len(Q) /\ Head(Q) = Q[1]
      /\ \A i \in 1..Len(R) : i + 1 \in 1..Len(Q) /\ 1 < i + 1 /\ R[i] = Q[i + 1]
  BY <1>1
<1>3. \A i \in 1..Len(Q) : i = 1 \/ (i - 1 \in 1..Len(R) /\ R[i - 1] = Q[i])
  BY <1>1, <1>2
<1>4. Queued(S, M, L, R)
  BY <1>2, TailQueued DEF InOrder
<1> HIDE DEF R
<1>5. Q[1] > L /\ Q[1] <= S /\ Q[1] \in Nat
  BY <1>1, <1>2 DEF InOrder, Queued
<1>6. Counted(S, K, L, G)
  <2>1. {m \in K : m < L} = {m \in M : m < L}
    BY <1>1, <1>5
  <2>2. K \subseteq 1..S /\ L \notin K
    <3>1. Q[1] \in 1..S /\ Q[1] # L
      BY <1>1, <1>5
    <3> QED
      BY <1>1, <3>1
  <2> QED
    BY <2>1, <2>2 DEF InOrder, Counted
<1>7. Queued(S, K, L, R)
  <2>1. \A i \in 1..Len(R) : Q[1] < Q[i + 1]
    BY <1>2 DEF InOrder, Queued
  <2>2. \A i \in 1..Len(R) : R[i] # Q[1]
    BY <1>1, <1>2, <2>1
  <2> QED
    BY <1>4, <2>2 DEF Queued
<1>8. Streamed(S, K, L, W)
  <2>1. \A i \in 1..Len(W) : Carries(W, i) => W[i].n < Q[1]
    BY <1>2 DEF InOrder, Before
  <2>2. \A i \in 1..Len(W) : Carries(W, i) => W[i].n # Q[1]
    BY <1>1, <1>2, <2>1
  <2> QED
    BY <2>2 DEF InOrder, Streamed
<1>9. Before(R, W)
  BY <1>2 DEF InOrder, Before
<1>10. ASSUME Covered(S, M, L, Q, W)
       PROVE  Covered(S, K, L, R, W)
  <2>1. ASSUME NEW m \in Nat, m > L, m <= S, m \notin K,
               ~\E i \in 1..Len(W) : Carries(W, i) /\ W[i].n = m
        PROVE  \E i \in 1..Len(R) : R[i] = m
    <3>1. PICK i \in 1..Len(Q) : Q[i] = m
      BY <1>10, <2>1 DEF Covered
    <3>2. i # 1
      BY <2>1, <3>1
    <3> QED
      BY <1>3, <3>1, <3>2
  <2> QED
    BY <2>1 DEF Covered
<1>11. Q[1] \in (L + 1)..S
  BY <1>1, <1>5
<1> QED
  BY <1>2, <1>6, <1>7, <1>8, <1>9, <1>10, <1>11 DEF InOrder, R

\* Frames of the heartbeat come and go.
LEMMA BeatKeeps ==
  ASSUME NEW S, NEW M, NEW L, NEW G, NEW Q \in Seq(Nat), NEW W \in Seq(Frames),
         InOrder(S, M, L, G, Q, W), NEW f \in Frames, f.kind # "data"
  PROVE  /\ InOrder(S, M, L, G, Q, Append(W, f))
         /\ Covered(S, M, L, Q, W) => Covered(S, M, L, Q, Append(W, f))
<1> DEFINE V == Append(W, f)
<1>1. Len(W) \in Nat
  OBVIOUS
<1>2. /\ Len(V) = Len(W) + 1 /\ \A i \in 1..Len(W) : V[i] = W[i]
      /\ V[Len(W) + 1].kind # "data"
  OBVIOUS
<1>3. \A i \in 1..Len(V) : i \in 1..Len(W) \/ i = Len(W) + 1
  BY <1>1, <1>2
<1>4. \A i \in 1..Len(W) : i \in 1..Len(V)
  BY <1>1, <1>2
<1> HIDE DEF V
<1>5. \A i \in 1..Len(V) : Carries(V, i) => i \in 1..Len(W) /\ V[i] = W[i] /\ Carries(W, i)
  BY <1>2, <1>3 DEF Carries
<1>6. Streamed(S, M, L, V)
  BY <1>5 DEF InOrder, Streamed
<1>7. Before(Q, V)
  BY <1>5 DEF InOrder, Before
<1>8. Covered(S, M, L, Q, W) => Covered(S, M, L, Q, V)
  BY <1>2, <1>4 DEF Covered, Carries
<1> QED
  BY <1>6, <1>7, <1>8 DEF InOrder, V

LEMMA BeatReadKeeps ==
  ASSUME NEW S, NEW M, NEW L, NEW G, NEW Q \in Seq(Nat), NEW W \in Seq(Frames),
         InOrder(S, M, L, G, Q, W), W # <<>>, Head(W).kind # "data"
  PROVE  /\ InOrder(S, M, L, G, Q, Tail(W))
         /\ Covered(S, M, L, Q, W) => Covered(S, M, L, Q, Tail(W))
<1> DEFINE V == Tail(W)
<1>1. /\ W[1].kind # "data"
      /\ \A i \in 1..Len(V) : i + 1 \in 1..Len(W) /\ V[i] = W[i + 1]
      /\ \A i \in 1..Len(W) : i = 1 \/ (i - 1 \in 1..Len(V) /\ V[i - 1] = W[i])
  OBVIOUS
<1>2. Streamed(S, M, L, V)
  BY TailStreamed DEF InOrder
<1> HIDE DEF V
<1>3. Before(Q, V)
  <2>1. \A i \in 1..Len(V) : Carries(V, i) => Carries(W, i + 1)
    BY <1>1 DEF Carries
  <2> QED
    BY <1>1, <2>1 DEF InOrder, Before
<1>4. ASSUME NEW i \in 1..Len(W), Carries(W, i)
      PROVE  \E j \in 1..Len(V) : Carries(V, j) /\ V[j].n = W[i].n
  <2>1. i - 1 \in 1..Len(V) /\ V[i - 1] = W[i]
    BY <1>1, <1>4 DEF Carries
  <2> QED
    BY <1>4, <2>1 DEF Carries
<1>5. Covered(S, M, L, Q, W) => Covered(S, M, L, Q, V)
  <2> SUFFICES ASSUME Covered(S, M, L, Q, W), NEW m \in Nat, m > L, m <= S, m \notin M,
                      ~\E i \in 1..Len(Q) : Q[i] = m
               PROVE  \E j \in 1..Len(V) : Carries(V, j) /\ V[j].n = m
    BY DEF Covered
  <2>1. PICK i \in 1..Len(W) : Carries(W, i) /\ W[i].n = m
    BY DEF Covered
  <2> QED
    BY <1>4, <2>1
<1> QED
  BY <1>2, <1>3, <1>5 DEF InOrder, V

\* A datagram arrives: what is between it and the one before it is lost.
LEMMA DeliverKeeps ==
  ASSUME NEW S, NEW M, NEW L, NEW G, NEW Q \in Seq(Nat), NEW W \in Seq(Frames),
         InOrder(S, M, L, G, Q, W), NEW n, Arrives(W, n)
  PROVE  /\ n \in (L + 1)..S /\ n \notin M
         /\ Covered(S, M, L, Q, W) =>
              /\ (L + 1)..(n - 1) \subseteq M
              /\ InOrder(S, M, n, G + n - L - 1, Q, Tail(W))
              /\ Covered(S, M, n, Q, Tail(W))
<1> DEFINE V == Tail(W)
           H == G + n - L - 1
<1>1. /\ S \in Nat /\ L \in Nat /\ L <= S /\ M \subseteq 1..S /\ L \notin M
      /\ Len(Q) \in Nat /\ \A i \in 1..Len(Q) : Q[i] \in Nat
      /\ Len(W) \in Nat /\ \A i \in 1..Len(W) : W[i].n \in Nat
  BY Numbers
<1>2. /\ 1 \in 1..Len(W) /\ n = W[1].n /\ Carries(W, 1)
      /\ \A i \in 1..Len(V) : i + 1 \in 1..Len(W) /\ 1 < i + 1 /\ V[i] = W[i + 1]
      /\ \A i \in 1..Len(W) : i = 1 \/ (i - 1 \in 1..Len(V) /\ V[i - 1] = W[i])
  BY DEF Arrives, Carries
<1>3. Streamed(S, M, L, V)
  BY TailStreamed DEF Arrives, InOrder
<1>4. n > L /\ n <= S /\ n \notin M /\ n \in Nat
  BY <1>1, <1>2 DEF InOrder, Streamed
<1> HIDE DEF V, H
<1>5. \A j \in 1..Len(Q) : n < Q[j]
  BY <1>2 DEF InOrder, Before
<1>6. \A i \in 2..Len(W) : Carries(W, i) => n < W[i].n
  <2>1. \A i \in 2..Len(W) : 1 < i /\ i \in 1..Len(W)
    BY <1>1
  <2> QED
    BY <1>2, <2>1 DEF InOrder, Streamed
<1>7. \A i \in 1..Len(V) : Carries(V, i) => n < V[i].n /\ Carries(W, i + 1)
  <2>1. \A i \in 1..Len(V) : i + 1 \in 2..Len(W)
    BY <1>1, <1>2
  <2> QED
    BY <1>2, <1>6, <2>1 DEF Carries
<1>8. ASSUME Covered(S, M, L, Q, W)
      PROVE  /\ (L + 1)..(n - 1) \subseteq M
             /\ InOrder(S, M, n, H, Q, V)
             /\ Covered(S, M, n, Q, V)
  <2>1. (L + 1)..(n - 1) \subseteq M
    <3> SUFFICES ASSUME NEW m \in (L + 1)..(n - 1), m \notin M
                 PROVE  FALSE
      OBVIOUS
    <3>1. m \in Nat /\ m > L /\ m < n /\ m <= S
      BY <1>1, <1>4
    <3>2. CASE \E i \in 1..Len(Q) : Q[i] = m
      BY <1>1, <1>4, <1>5, <3>1, <3>2
    <3>3. ASSUME NEW i \in 1..Len(W), Carries(W, i), W[i].n = m
          PROVE  FALSE
      <4>1. CASE i = 1
        BY <1>2, <1>4, <3>1, <3>3, <4>1
      <4>2. CASE i # 1
        <5>1. i \in 2..Len(W)
          BY <1>1, <4>2
        <5> QED
          BY <1>4, <1>6, <3>1, <3>3, <5>1
      <4> QED
        BY <4>1, <4>2
    <3> QED
      BY <1>8, <3>1, <3>2, <3>3 DEF Covered
  <2>2. H = Cardinality({m \in M : m < n})
    <3> DEFINE A == {m \in M : m < L}
               B == (L + 1)..(n - 1)
    <3>1. {m \in M : m < n} = A \cup B
      <4>1. \A m \in M : m \in Nat /\ m # L
        BY <1>1
      <4>2. \A m \in M : m < n => m < L \/ m \in B
        BY <1>1, <1>4, <4>1
      <4>3. \A m \in M : m < L => m < n
        BY <1>1, <1>4, <4>1
      <4>4. \A m \in B : m < n
        BY <1>1, <1>4
      <4> QED
        BY <2>1, <4>2, <4>3, <4>4
    <3>2. A \cap B = {}
      BY <1>1
    <3>3. IsFiniteSet(1..S)
      BY <1>1, FS_Interval
    <3>4. IsFiniteSet(A)
      <4>1. A \subseteq 1..S
        BY <1>1
      <4> QED
        BY <3>3, <4>1, FS_Subset
    <3>5. IsFiniteSet(B) /\ Cardinality(B) = n - L - 1
      <4>1. L + 1 \in Int /\ n - 1 \in Int /\ (n - 1) - (L + 1) + 1 = n - L - 1 /\ n - L - 1 >= 0
        BY <1>1, <1>4
      <4>2. IsFiniteSet(B) /\ Cardinality(B) = IF (L + 1) > (n - 1) THEN 0 ELSE (n - 1) - (L + 1) + 1
        BY <4>1, FS_Interval
      <4> QED
        BY <1>1, <1>4, <4>1, <4>2
    <3>6. Cardinality(A \cup B) = Cardinality(A) + Cardinality(B) - Cardinality(A \cap B)
      BY <3>4, <3>5, FS_Union
    <3>7. Cardinality(A \cap B) = 0
      BY <3>2, FS_EmptySet
    <3>8. Cardinality(A) \in Nat /\ G = Cardinality(A)
      BY <3>4, FS_CardinalityType DEF InOrder, Counted
    <3> HIDE DEF A, B
    <3>9. Cardinality(A \cup B) = G + (n - L - 1)
      BY <1>1, <1>4, <3>5, <3>6, <3>7, <3>8
    <3>10. G \in Nat /\ H = G + (n - L - 1)
      BY <1>1, <1>4, <3>8 DEF H
    <3> QED
      BY <3>1, <3>9, <3>10
  <2>3. Counted(S, M, n, H)
    BY <1>1, <1>4, <2>2 DEF Counted
  <2>4. Queued(S, M, n, Q)
    BY <1>1, <1>4, <1>5 DEF InOrder, Queued
  <2>5. Streamed(S, M, n, V)
    BY <1>2, <1>3, <1>4, <1>7 DEF Streamed
  <2>6. Before(Q, V)
    BY <1>2, <1>7 DEF InOrder, Before
  <2>7. Covered(S, M, n, Q, V)
    <3> SUFFICES ASSUME NEW m \in Nat, m > n, m <= S, m \notin M, ~\E i \in 1..Len(Q) : Q[i] = m
                 PROVE  \E j \in 1..Len(V) : Carries(V, j) /\ V[j].n = m
      BY DEF Covered
    <3>1. m > L
      BY <1>1, <1>4
    <3>2. PICK i \in 1..Len(W) : Carries(W, i) /\ W[i].n = m
      BY <1>8, <3>1 DEF Covered
    <3>3. i # 1
      BY <1>2, <1>4, <3>2
    <3> QED
      BY <1>2, <3>2, <3>3 DEF Carries
  <2> QED
    BY <2>1, <2>3, <2>4, <2>5, <2>6, <2>7 DEF InOrder
<1>9. n \in (L + 1)..S
  BY <1>1, <1>4
<1> QED
  BY <1>4, <1>8, <1>9 DEF V, H

\* The receiver has closed the stream.
LEMMA CloseKeeps ==
  ASSUME NEW S, NEW M, NEW L, NEW G, NEW Q \in Seq(Nat), NEW W \in Seq(Frames),
         InOrder(S, M, L, G, Q, W)
  PROVE  InOrder(S, M, L, G, Q, <<>>)
<1>1. \A i \in 1..Len(<<>>) : FALSE
  OBVIOUS
<1> QED
  BY <1>1 DEF InOrder, Streamed, Before

\* The sender gives up the whole queue.
LEMMA JoinKeeps ==
  ASSUME NEW S, NEW M, NEW L, NEW G, NEW Q \in Seq(Nat), NEW W \in Seq(Frames),
         InOrder(S, M, L, G, Q, W)
  PROVE  /\ Entries(Q) \subseteq (L + 1)..S
         /\ InOrder(S, M \cup Entries(Q), L, G, <<>>, W)
         /\ Covered(S, M, L, Q, W) => Covered(S, M \cup Entries(Q), L, <<>>, W)
<1> DEFINE D == {Q[i] : i \in 1..Len(Q)}
           K == M \cup D
<1>1. /\ S \in Nat /\ L \in Nat /\ L <= S /\ M \subseteq 1..S /\ L \notin M
      /\ Len(Q) \in Nat /\ \A i \in 1..Len(Q) : Q[i] \in Nat
      /\ Len(W) \in Nat /\ \A i \in 1..Len(W) : W[i].n \in Nat
  BY Numbers
<1>2. \A i \in 1..Len(<<>>) : FALSE
  OBVIOUS
<1>3. \A d \in D : d \in Nat /\ d > L /\ d <= S
  BY <1>1 DEF InOrder, Queued
<1>4. D \subseteq (L + 1)..S /\ D \subseteq 1..S /\ L \notin D
  <2>1. \A d \in D : d \in (L + 1)..S /\ d \in 1..S /\ d # L
    BY <1>1, <1>3
  <2> QED
    BY <2>1
<1>5. Streamed(S, K, L, W)
  <2>1. \A i \in 1..Len(W) : Carries(W, i) => \A j \in 1..Len(Q) : W[i].n # Q[j]
    BY <1>1 DEF InOrder, Before
  <2>2. \A i \in 1..Len(W) : Carries(W, i) => W[i].n \notin D
    BY <2>1
  <2> QED
    BY <2>2 DEF InOrder, Streamed
<1>6. ASSUME Covered(S, M, L, Q, W)
      PROVE  Covered(S, K, L, <<>>, W)
  BY <1>6 DEF Covered
<1>7. Counted(S, K, L, G)
  <2>1. {m \in K : m < L} = {m \in M : m < L}
    BY <1>1, <1>3
  <2>2. K \subseteq 1..S /\ L \notin K
    BY <1>1, <1>4
  <2> QED
    BY <2>1, <2>2 DEF InOrder, Counted
<1>8. Queued(S, K, L, <<>>) /\ Before(<<>>, W)
  BY <1>2 DEF Queued, Before
<1> QED
  BY <1>4, <1>5, <1>6, <1>7, <1>8 DEF InOrder, Entries

\* Frames grow older.
LEMMA AgeKeeps ==
  ASSUME NEW S, NEW M, NEW L, NEW G, NEW Q \in Seq(Nat), NEW W \in Seq(Frames),
         InOrder(S, M, L, G, Q, W), NEW V, Len(V) = Len(W),
         \A i \in 1..Len(W) : V[i].kind = W[i].kind /\ (Carries(W, i) => V[i].n = W[i].n)
  PROVE  /\ InOrder(S, M, L, G, Q, V)
         /\ Covered(S, M, L, Q, W) => Covered(S, M, L, Q, V)
<1>1. \A i \in 1..Len(V) : /\ i \in 1..Len(W) /\ (Carries(V, i) <=> Carries(W, i))
                           /\ Carries(W, i) => V[i].n = W[i].n
  BY DEF Carries
<1>2. Streamed(S, M, L, V)
  BY <1>1 DEF InOrder, Streamed
<1>3. Before(Q, V)
  BY <1>1 DEF InOrder, Before
<1>4. Covered(S, M, L, Q, W) => Covered(S, M, L, Q, V)
  BY <1>1 DEF Covered
<1> QED
  BY <1>2, <1>3, <1>4 DEF InOrder
-----------------------------------------------------------------------------
Types ==
  /\ seq \in [Ends -> Nat] /\ q \in [Ends -> Seq(Nat)] /\ dropped \in [Ends -> SUBSET Nat]
  /\ control \in [Ends -> Seq(Nat)] /\ wire \in [Ends -> Seq(Frames)]
  /\ last \in [Ends -> Nat] /\ gaps \in [Ends -> Int]
  /\ live \in [Ends -> SUBSET Workers]
  /\ phase \in [Ends -> {"open", "cancelled", "closed", "over"}]

\* What the types of the state rest on.
LEMMA PeerIsEnd ==
  /\ \A e \in Ends : Peer(e) \in Ends
  /\ Peer("client") = "server" /\ Peer("server") = "client"
BY DEF Ends, Peer

LEMMA FrameIsFrame ==
  ASSUME NEW k \in {"ping", "pong", "data"}, NEW n \in Nat
  PROVE  Frame(k, n) \in Frames /\ Frame(k, n).kind = k
BY DEF Frame, Frames

LEMMA HeadArrives ==
  ASSUME Types, NEW e \in Ends, NEW k, Arrived(e, k)
  PROVE  /\ wire[Peer(e)] \in Seq(Frames) /\ wire[Peer(e)] # <<>>
         /\ Arriving(e) \in Nat /\ Tail(wire[Peer(e)]) \in Seq(Frames)
         /\ wire' \in [Ends -> Seq(Frames)]
<1>1. Peer(e) \in Ends
  BY PeerIsEnd
<1>2. wire[Peer(e)] \in Seq(Frames) /\ wire[Peer(e)] # <<>>
  BY <1>1 DEF Types, Arrived
<1>3. Head(wire[Peer(e)]) \in Frames /\ Tail(wire[Peer(e)]) \in Seq(Frames)
  BY <1>2
<1>4. Arriving(e) \in Nat
  BY <1>3 DEF Arriving, Frames
<1>5. wire' \in [Ends -> Seq(Frames)]
  BY <1>1, <1>3 DEF Types, Arrived
<1> QED
  BY <1>2, <1>3, <1>4, <1>5

LEMMA Elements ==
  ASSUME NEW s \in Seq(Nat)
  PROVE  Len(s) \in Nat /\ \A i \in 1..Len(s) : s[i] \in Nat
OBVIOUS

LEMMA TypesStep ==
  ASSUME Types, [Next]_vars, LinkConstants
  PROVE  Types'
<1> USE DEF data, beat, receiver, limits, session, broken
<1>1. ASSUME NEW e \in Ends, Receive(e)
      PROVE  Types'
  <2>1. seq[e] + 1 \in Nat /\ seq'[e] = seq[e] + 1
    BY <1>1 DEF Types, Receive
  <2>2. q[e] \in Seq(Nat)
    BY DEF Types
  <2>3. Append(q[e], seq'[e]) \in Seq(Nat) /\ dropped[e] \cup {seq'[e]} \in SUBSET Nat
    BY <2>1, <2>2 DEF Types
  <2> QED
    BY <1>1, <2>1, <2>3 DEF Types, Receive
<1>2. ASSUME NEW e \in Ends, NEW f \in Frames, Put(e, f)
      PROVE  wire' \in [Ends -> Seq(Frames)]
  <2>1. Append(wire[e], f) \in Seq(Frames)
    BY DEF Types
  <2> QED
    BY <1>2, <2>1 DEF Types, Put
<1>3. ASSUME NEW e \in Ends, SendProbe(e)
      PROVE  Types'
  <2>1. wire' \in [Ends -> Seq(Frames)]
    BY <1>2, <1>3, FrameIsFrame DEF SendProbe
  <2> QED
    BY <1>3, <2>1 DEF Types, SendProbe
<1>4. ASSUME NEW e \in Ends, SendPong(e)
      PROVE  Types'
  <2>1. control[e] \in Seq(Nat) /\ control[e] # <<>>
    BY <1>4 DEF Types, SendPong
  <2>2. Head(control[e]) \in Nat /\ Tail(control[e]) \in Seq(Nat)
    BY <2>1
  <2>3. wire' \in [Ends -> Seq(Frames)]
    BY <1>2, <1>4, <2>2, FrameIsFrame DEF SendPong
  <2> QED
    BY <1>4, <2>2, <2>3 DEF Types, SendPong
<1>5. ASSUME NEW e \in Ends, SendData(e) \/ Stale(e)
      PROVE  Types'
  <2>1. q[e] \in Seq(Nat) /\ q[e] # <<>>
    BY <1>5 DEF Types, SendData, Stale
  <2>2. Head(q[e]) \in Nat /\ Tail(q[e]) \in Seq(Nat)
    BY <2>1
  <2>3. CASE SendData(e)
    <3>1. wire' \in [Ends -> Seq(Frames)]
      BY <1>2, <2>2, <2>3, FrameIsFrame DEF SendData
    <3> QED
      BY <2>2, <2>3, <3>1 DEF Types, SendData
  <2>4. CASE Stale(e)
    <3>1. dropped[e] \cup {Head(q[e])} \in SUBSET Nat
      BY <2>2 DEF Types
    <3> QED
      BY <2>2, <2>4, <3>1 DEF Types, Stale
  <2> QED
    BY <1>5, <2>3, <2>4
<1>6. ASSUME NEW e \in Ends, ReadPing(e)
      PROVE  Types'
  <2>1. Arriving(e) \in Nat /\ wire' \in [Ends -> Seq(Frames)]
    BY <1>6, HeadArrives DEF ReadPing
  <2>2. Append(control[e], Arriving(e)) \in Seq(Nat)
    BY <2>1 DEF Types
  <2>3. control' \in [Ends -> Seq(Nat)]
    BY <1>6, <2>2 DEF Types, ReadPing
  <2> QED
    BY <1>6, <2>1, <2>3 DEF Types, ReadPing
<1>7. ASSUME NEW e \in Ends, ReadPong(e)
      PROVE  Types'
  <2>1. wire' \in [Ends -> Seq(Frames)]
    BY <1>7, HeadArrives DEF ReadPong
  <2> QED
    BY <1>7, <2>1 DEF Types, ReadPong
<1>8. ASSUME NEW e \in Ends, NEW w, Ended(e, w)
      PROVE  live' \in [Ends -> SUBSET Workers]
  BY <1>8 DEF Types, Ended
<1>9. ASSUME NEW e \in Ends, ReadData(e)
      PROVE  Types'
  <2>1. Arriving(e) \in Nat /\ wire' \in [Ends -> Seq(Frames)]
    BY <1>9, HeadArrives DEF ReadData
  <2>2. gaps[e] + Arriving(e) - last[e] - 1 \in Int
    <3>1. gaps[e] \in Int /\ last[e] \in Int /\ Arriving(e) \in Int
      BY <2>1 DEF Types
    <3> QED
      BY <3>1
  <2>3. last' \in [Ends -> Nat] /\ gaps' \in [Ends -> Int] /\ live' \in [Ends -> SUBSET Workers]
    <3>1. CASE Arriving(e) <= last[e]
      BY <1>8, <1>9, <3>1 DEF Types, ReadData
    <3>2. CASE ~(Arriving(e) <= last[e])
      <4>1. /\ last' = [last EXCEPT ![e] = Arriving(e)] /\ live' = live
            /\ gaps' = [gaps EXCEPT ![e] = gaps[e] + Arriving(e) - last[e] - 1]
        BY <1>9, <3>2 DEF ReadData
      <4> QED
        BY <2>1, <2>2, <4>1 DEF Types
    <3> QED
      BY <3>1, <3>2
  <2> QED
    BY <1>9, <2>1, <2>3 DEF Types, ReadData
<1>10. ASSUME NEW e \in Ends, WorkerEnds(e)
       PROVE  Types'
  <2>1. live' \in [Ends -> SUBSET Workers]
    BY <1>8, <1>10 DEF WorkerEnds
  <2> QED
    BY <1>10, <2>1 DEF Types, WorkerEnds
<1>11. ASSUME NEW e \in Ends, UdpFails(e)
       PROVE  Types'
  <2>1. live' \in [Ends -> SUBSET Workers]
    BY <1>8, <1>11 DEF UdpFails
  <2> QED
    BY <1>11, <2>1 DEF Types, UdpFails
<1>12. ASSUME NEW e \in Ends, Cancel(e)
       PROVE  Types'
  BY <1>12 DEF Types, Cancel
<1>13. ASSUME NEW e \in Ends, Close(e)
       PROVE  Types'
  <2>1. <<>> \in Seq(Frames) /\ Peer(e) \in Ends
    BY PeerIsEnd
  <2>2. wire' \in [Ends -> Seq(Frames)]
    BY <1>13, <2>1 DEF Types, Close
  <2> QED
    BY <1>13, <2>2 DEF Types, Close
<1>14. ASSUME NEW e \in Ends, Interrupted(e)
       PROVE  Types'
  BY <1>14 DEF Types, Interrupted
<1>15. ASSUME NEW e \in Ends, Join(e)
       PROVE  Types'
  <2>0. q[e] \in Seq(Nat)
    BY DEF Types
  <2>1. \A i \in 1..Len(q[e]) : q[e][i] \in Nat
    BY <2>0, Elements
  <2>2. dropped' \in [Ends -> SUBSET Nat]
    BY <1>15, <2>1 DEF Types, Join
  <2>3. <<>> \in Seq(Nat)
    OBVIOUS
  <2>4. q' \in [Ends -> Seq(Nat)] /\ control' \in [Ends -> Seq(Nat)]
    BY <1>15, <2>3 DEF Types, Join
  <2> QED
    BY <1>15, <2>2, <2>4 DEF Types, Join
<1>16. ASSUME NEW e \in Ends, Cut(e)
       PROVE  Types'
  BY <1>16 DEF Types, Cut
<1>17. ASSUME Tick
       PROVE  Types'
  <2>1. Latency \in Nat /\ NoProbe \in Nat
    BY DEF LinkConstants, NoProbe
  <2>2. \A n \in Nat, m \in Nat : Up(n, m) \in Nat
    BY DEF Up
  <2>3. ASSUME NEW f \in Frames
        PROVE  Older(f) \in Frames
    <3>1. f.kind \in {"ping", "pong", "data"} /\ f.n \in Nat /\ f.age \in Nat
      BY DEF Frames
    <3>2. Up(f.age, Latency) \in Nat /\ (IF f.kind = "data" THEN f.n ELSE Up(f.n, NoProbe)) \in Nat
      BY <2>1, <2>2, <3>1
    <3> QED
      BY <3>1, <3>2 DEF Older, Frames
  <2>4. \A e \in Ends : [i \in 1..Len(wire[e]) |-> Older(wire[e][i])] \in Seq(Frames)
    <3> SUFFICES ASSUME NEW e \in Ends
                 PROVE  [i \in 1..Len(wire[e]) |-> Older(wire[e][i])] \in Seq(Frames)
      OBVIOUS
    <3>1. Len(wire[e]) \in Nat /\ \A i \in 1..Len(wire[e]) : wire[e][i] \in Frames
      BY DEF Types
    <3> QED
      BY <2>3, <3>1
  <2>5. \A e \in Ends : [i \in 1..Len(control[e]) |-> Up(control[e][i], NoProbe)] \in Seq(Nat)
    <3> SUFFICES ASSUME NEW e \in Ends
                 PROVE  [i \in 1..Len(control[e]) |-> Up(control[e][i], NoProbe)] \in Seq(Nat)
      OBVIOUS
    <3>1. control[e] \in Seq(Nat)
      BY DEF Types
    <3>2. Len(control[e]) \in Nat /\ \A i \in 1..Len(control[e]) : control[e][i] \in Nat
      BY <3>1
    <3>3. \A i \in 1..Len(control[e]) : Up(control[e][i], NoProbe) \in Nat
      BY <2>1, <2>2, <3>2
    <3> QED
      BY <3>2, <3>3
  <2>6. wire' \in [Ends -> Seq(Frames)] /\ control' \in [Ends -> Seq(Nat)]
    BY <1>17, <2>4, <2>5 DEF Tick
  <2> QED
    BY <1>17, <2>6 DEF Types, Tick
<1>18. CASE UNCHANGED vars
  BY <1>18 DEF Types, vars
<1> QED
  BY <1>1, <1>3, <1>4, <1>5, <1>6, <1>7, <1>9, <1>10, <1>11, <1>12, <1>13, <1>14,
     <1>15, <1>16, <1>17, <1>18 DEF Next, Read, Write, End
-----------------------------------------------------------------------------
\* The direction that Datagrams describes: the client writes, the server reads.
Pipe == InOrder(seq["client"], dropped["client"], last["server"], gaps["server"],
                q["client"], wire["client"])
Whole == Covered(seq["client"], dropped["client"], last["server"], q["client"], wire["client"])
Reading == Works("server", "read")

LinkInv == Types /\ Pipe /\ (Reading => Whole)

Kept == Pipe /\ (Reading => Whole)

Moves == [Upstream!Submit \/ Upstream!Lose \/ Upstream!Deliver]_
           <<seq["client"], dropped["client"], last["server"], gaps["server"]>>

\* Datagrams brings its own FiniteSets.
LEMMA SameCardinality ==
  ASSUME NEW A
  PROVE  Upstream!Cardinality(A) = Cardinality(A)
BY DEF Cardinality, Upstream!Cardinality

\* A step that leaves the ends of the pipe alone.
Aside ==
  /\ seq'["client"] = seq["client"] /\ dropped'["client"] = dropped["client"]
  /\ last'["server"] = last["server"] /\ gaps'["server"] = gaps["server"]

LEMMA AsideStutters ==
  ASSUME Aside
  PROVE  Moves
BY DEF Aside, Moves

LEMMA PipeTypes ==
  ASSUME LinkInv
  PROVE  /\ Types /\ Pipe /\ q["client"] \in Seq(Nat) /\ wire["client"] \in Seq(Frames)
         /\ "client" \in Ends /\ "server" \in Ends
         /\ Peer("client") = "server" /\ Peer("server") = "client"
BY PeerIsEnd DEF LinkInv, Types, Ends

\* One lemma per action, for either end.
LEMMA ReceiveStep ==
  ASSUME LinkInv, NEW e \in Ends, Receive(e)
  PROVE  Kept' /\ Moves
<1> USE DEF data, beat, receiver, limits, session, broken
<1>1. /\ q["client"] \in Seq(Nat) /\ wire["client"] \in Seq(Frames) /\ Types
      /\ Pipe /\ (Reading => Whole)
  BY PipeTypes DEF LinkInv
<1>2. /\ last' = last /\ gaps' = gaps /\ wire' = wire /\ live' = live /\ phase' = phase
  BY DEF Receive
<1>3. CASE e = "server"
  <2>1. /\ seq'["client"] = seq["client"] /\ q'["client"] = q["client"]
        /\ dropped'["client"] = dropped["client"]
    BY <1>1, <1>3 DEF Receive, Types, Ends
  <2> QED
    BY <1>1, <1>2, <2>1, AsideStutters DEF Kept, Pipe, Whole, Reading, Works, Aside
<1>4. CASE e = "client"
  <2>1. seq'["client"] = seq["client"] + 1
    BY <1>1, <1>4 DEF Receive, Types, Ends
  <2>2. CASE Len(q["client"]) < Queue
    <3>1. /\ q'["client"] = Append(q["client"], seq["client"] + 1)
          /\ dropped'["client"] = dropped["client"]
      BY <1>1, <1>4, <2>1, <2>2 DEF Receive, Types, Ends
    <3>2. Pipe' /\ (Whole => Whole')
      BY <1>1, <1>2, <2>1, <3>1, QueueKeeps DEF Pipe, Whole
    <3>3. Reading' <=> Reading
      BY <1>2 DEF Reading, Works
    <3>4. Kept'
      BY <1>1, <3>2, <3>3 DEF Kept
    <3>5. Upstream!Submit
      BY <1>2, <2>1, <3>1 DEF Upstream!Submit
    <3> QED
      BY <3>4, <3>5 DEF Moves
  <2>3. CASE ~(Len(q["client"]) < Queue)
    <3>1. /\ q'["client"] = q["client"]
          /\ dropped'["client"] = dropped["client"] \cup {seq["client"] + 1}
      BY <1>1, <1>4, <2>1, <2>3 DEF Receive, Types, Ends
    <3>2. Pipe' /\ (Whole => Whole')
      BY <1>1, <1>2, <2>1, <3>1, DropKeeps DEF Pipe, Whole
    <3>3. Reading' <=> Reading
      BY <1>2 DEF Reading, Works
    <3>4. Kept'
      BY <1>1, <3>2, <3>3 DEF Kept
    <3>5. Upstream!Submit
      BY <1>2, <2>1, <3>1 DEF Upstream!Submit
    <3> QED
      BY <3>4, <3>5 DEF Moves
  <2> QED
    BY <2>2, <2>3
<1> QED
  BY <1>3, <1>4 DEF Ends

LEMMA SendStep ==
  ASSUME LinkInv, NEW e \in Ends, SendProbe(e) \/ SendPong(e) \/ SendData(e)
  PROVE  Kept' /\ Moves
<1> USE DEF data, beat, receiver, limits, session, broken
<1>1. /\ q["client"] \in Seq(Nat) /\ wire["client"] \in Seq(Frames) /\ Types
      /\ Pipe /\ (Reading => Whole)
  BY PipeTypes DEF LinkInv
<1>2. /\ seq' = seq /\ dropped' = dropped /\ last' = last /\ gaps' = gaps
      /\ live' = live /\ phase' = phase
  BY DEF SendProbe, SendPong, SendData
<1>3. Moves
  BY <1>2, AsideStutters DEF Aside
<1>4. CASE e = "server"
  <2>1. q'["client"] = q["client"] /\ wire'["client"] = wire["client"]
    BY <1>1, <1>4 DEF SendProbe, SendPong, SendData, Put, Types, Ends
  <2> QED
    BY <1>1, <1>2, <1>3, <2>1 DEF Kept, Pipe, Whole, Reading, Works
<1>5. ASSUME e = "client", NEW f \in Frames, f.kind # "data", q' = q,
             wire'["client"] = Append(wire["client"], f)
      PROVE  Kept'
  BY <1>1, <1>2, <1>5, BeatKeeps DEF Kept, Pipe, Whole, Reading, Works
<1>6. CASE e = "client" /\ SendProbe(e)
  <2>1. Frame("ping", 0) \in Frames /\ Frame("ping", 0).kind # "data"
    BY FrameIsFrame
  <2>2. q' = q /\ wire'["client"] = Append(wire["client"], Frame("ping", 0))
    BY <1>1, <1>6 DEF SendProbe, Put, Types, Ends
  <2> QED
    BY <1>3, <1>5, <1>6, <2>1, <2>2
<1>7. CASE e = "client" /\ SendPong(e)
  <2>1. Head(control[e]) \in Nat
    <3>1. control[e] \in Seq(Nat) /\ control[e] # <<>>
      BY <1>1, <1>7 DEF Types, SendPong
    <3> QED
      BY <3>1
  <2>2. Frame("pong", Head(control[e])) \in Frames /\ Frame("pong", Head(control[e])).kind # "data"
    BY <2>1, FrameIsFrame
  <2>3. q' = q /\ wire'["client"] = Append(wire["client"], Frame("pong", Head(control[e])))
    BY <1>1, <1>7 DEF SendPong, Put, Types, Ends
  <2> QED
    BY <1>3, <1>5, <1>7, <2>2, <2>3
<1>8. CASE e = "client" /\ SendData(e)
  <2>1. /\ q["client"] # <<>> /\ q'["client"] = Tail(q["client"])
        /\ wire'["client"] = Append(wire["client"], Frame("data", Head(q["client"])))
    BY <1>1, <1>8 DEF SendData, Put, Types, Ends
  <2>2. Kept'
    BY <1>1, <1>2, <2>1, SendKeeps DEF Kept, Pipe, Whole, Reading, Works
  <2> QED
    BY <1>3, <2>2
<1> QED
  BY <1>4, <1>6, <1>7, <1>8 DEF Ends

LEMMA StaleStep ==
  ASSUME LinkInv, NEW e \in Ends, Stale(e)
  PROVE  Kept' /\ Moves
<1> USE DEF data, beat, receiver, limits, session, broken
<1>1. /\ q["client"] \in Seq(Nat) /\ wire["client"] \in Seq(Frames) /\ Types
      /\ Pipe /\ (Reading => Whole)
  BY PipeTypes DEF LinkInv
<1>2. /\ seq' = seq /\ wire' = wire /\ last' = last /\ gaps' = gaps
      /\ live' = live /\ phase' = phase
  BY DEF Stale
<1>3. CASE e = "server"
  <2>1. q'["client"] = q["client"] /\ dropped'["client"] = dropped["client"]
    BY <1>1, <1>3 DEF Stale, Types, Ends
  <2> QED
    BY <1>1, <1>2, <2>1, AsideStutters DEF Kept, Pipe, Whole, Reading, Works, Aside
<1>4. CASE e = "client"
  <2>1. /\ q["client"] # <<>> /\ q'["client"] = Tail(q["client"])
        /\ dropped'["client"] = dropped["client"] \cup {Head(q["client"])}
    BY <1>1, <1>4 DEF Stale, Types, Ends
  <2>2. Pipe' /\ (Whole => Whole')
    BY <1>1, <1>2, <2>1, StaleKeeps DEF Pipe, Whole
  <2>3. Kept'
    BY <1>1, <1>2, <2>2 DEF Kept, Reading, Works
  <2>4. Head(q["client"]) \in (last["server"] + 1)..seq["client"]
    BY <1>1, <2>1, StaleKeeps DEF Pipe
  <2>5. Upstream!Lose
    BY <1>2, <2>1, <2>4 DEF Upstream!Lose
  <2> QED
    BY <2>3, <2>5 DEF Moves
<1> QED
  BY <1>3, <1>4 DEF Ends

\* What a reader takes from the stream of the other end.
LEMMA TakesHead ==
  ASSUME LinkInv, NEW k, Arrived("server", k)
  PROVE  /\ wire["client"] # <<>> /\ Head(wire["client"]).kind = k
         /\ wire'["client"] = Tail(wire["client"]) /\ Reading
         /\ Arriving("server") = Head(wire["client"]).n
BY PipeTypes DEF Arrived, Arriving, Reading, Types

LEMMA TakesAside ==
  ASSUME LinkInv, NEW k, Arrived("client", k)
  PROVE  wire'["client"] = wire["client"]
<1>1. Types /\ Peer("client") = "server" /\ "client" \in Ends
  BY PipeTypes
<1> QED
  BY <1>1 DEF Arrived, Types

LEMMA ReadBeatStep ==
  ASSUME LinkInv, NEW e \in Ends, ReadPing(e) \/ ReadPong(e)
  PROVE  Kept' /\ Moves
<1> USE DEF data, beat, receiver, limits, session, broken
<1>1. /\ q["client"] \in Seq(Nat) /\ wire["client"] \in Seq(Frames) /\ Types
      /\ Pipe /\ (Reading => Whole)
  BY PipeTypes DEF LinkInv
<1>2. /\ seq' = seq /\ dropped' = dropped /\ q' = q /\ last' = last /\ gaps' = gaps
      /\ live' = live /\ phase' = phase
  BY DEF ReadPing, ReadPong
<1>3. Moves
  BY <1>2, AsideStutters DEF Aside
<1>4. Reading' <=> Reading
  BY <1>2 DEF Reading, Works
<1>5. PICK k \in {"ping", "pong"} : Arrived(e, k)
  BY DEF ReadPing, ReadPong
<1>6. CASE e = "client"
  <2>1. wire'["client"] = wire["client"]
    BY <1>5, <1>6, TakesAside
  <2>2. Pipe' /\ (Whole => Whole')
    BY <1>1, <1>2, <2>1 DEF Pipe, Whole
  <2> QED
    BY <1>1, <1>3, <1>4, <2>2 DEF Kept
<1>7. CASE e = "server"
  <2>1. /\ wire["client"] # <<>> /\ Head(wire["client"]).kind # "data"
        /\ wire'["client"] = Tail(wire["client"])
    BY <1>5, <1>7, TakesHead
  <2>2. Pipe' /\ (Whole => Whole')
    BY <1>1, <1>2, <2>1, BeatReadKeeps DEF Pipe, Whole
  <2> QED
    BY <1>1, <1>3, <1>4, <2>2 DEF Kept
<1> QED
  BY <1>6, <1>7 DEF Ends

LEMMA ReadDataStep ==
  ASSUME LinkInv, NEW e \in Ends, ReadData(e)
  PROVE  Kept' /\ Moves
<1> USE DEF data, beat, receiver, limits, session, broken
<1>1. /\ q["client"] \in Seq(Nat) /\ wire["client"] \in Seq(Frames) /\ Types
      /\ Pipe /\ (Reading => Whole)
  BY PipeTypes DEF LinkInv
<1>2. seq' = seq /\ dropped' = dropped /\ q' = q /\ phase' = phase /\ Arrived(e, "data")
  BY DEF ReadData
<1>3. CASE e = "client"
  <2>1. wire'["client"] = wire["client"]
    BY <1>2, <1>3, TakesAside
  <2>2. /\ last'["server"] = last["server"] /\ gaps'["server"] = gaps["server"]
        /\ live'["server"] = live["server"]
    BY <1>1, <1>3 DEF ReadData, Ended, Types, Ends
  <2>3. Pipe' /\ (Whole => Whole')
    BY <1>1, <1>2, <2>1, <2>2 DEF Pipe, Whole
  <2>4. Reading' <=> Reading
    BY <1>2, <2>2 DEF Reading, Works
  <2>5. Moves
    BY <1>2, <2>2, AsideStutters DEF Aside
  <2> QED
    BY <1>1, <2>3, <2>4, <2>5 DEF Kept
<1>4. CASE e = "server"
  <2> DEFINE W == wire["client"]
             n == Head(W).n
             S == seq["client"]
             M == dropped["client"]
             L == last["server"]
             G == gaps["server"]
             Q == q["client"]
  <2>1. /\ W # <<>> /\ Head(W).kind = "data" /\ wire'["client"] = Tail(W)
        /\ Arriving("server") = n /\ Whole
    BY <1>1, <1>2, <1>4, TakesHead
  <2>2. /\ n \in (L + 1)..S /\ n \notin M
        /\ (L + 1)..(n - 1) \subseteq M
        /\ InOrder(S, M, n, G + n - L - 1, Q, Tail(W))
        /\ Covered(S, M, n, Q, Tail(W))
    <3>1. /\ W \in Seq(Frames) /\ Q \in Seq(Nat) /\ Arrives(W, n)
          /\ InOrder(S, M, L, G, Q, W) /\ Covered(S, M, L, Q, W)
      BY <1>1, <2>1 DEF Pipe, Whole, Arrives
    <3> HIDE DEF W, n, S, M, L, G, Q
    <3> QED
      BY <3>1, DeliverKeeps
  <2>3. ~(n <= L)
    <3>1. L \in Nat /\ S \in Nat
      BY <1>1 DEF Types, Ends
    <3> HIDE DEF n, S, L
    <3> QED
      BY <2>2, <3>1
  <2>4. last'["server"] = n /\ gaps'["server"] = G + n - L - 1 /\ live' = live
    BY <1>1, <1>4, <2>1, <2>3 DEF ReadData, Types, Ends
  <2>5. Pipe' /\ Whole'
    BY <1>2, <2>1, <2>2, <2>4 DEF Pipe, Whole
  <2>6. Upstream!Deliver
    <3>1. gaps'["server"] = Upstream!Cardinality({m \in M : m < last'["server"]})
      BY <2>2, <2>4, SameCardinality DEF InOrder, Counted
    <3>2. n \in ((L + 1)..S) \ M
      BY <2>2
    <3>3. \E m \in ((L + 1)..S) \ M : (L + 1)..(m - 1) \subseteq M /\ last'["server"] = m
      BY <2>2, <2>4, <3>2
    <3>4. seq'["client"] = S /\ dropped'["client"] = M
      BY <1>2
    <3> QED
      BY <3>1, <3>3, <3>4 DEF Upstream!Deliver
  <2> QED
    BY <2>5, <2>6 DEF Kept, Moves
<1> QED
  BY <1>3, <1>4 DEF Ends

\* Workers that end read no more.
LEMMA EndingStep ==
  ASSUME LinkInv, NEW e \in Ends,
         WorkerEnds(e) \/ UdpFails(e) \/ Cancel(e) \/ Interrupted(e) \/ Cut(e)
  PROVE  Kept' /\ Moves
<1> USE DEF data, beat, receiver, limits, session, broken
<1>1. Types /\ Pipe /\ (Reading => Whole)
  BY DEF LinkInv
<1>2. /\ seq' = seq /\ dropped' = dropped /\ q' = q /\ wire' = wire
      /\ last' = last /\ gaps' = gaps
  BY DEF WorkerEnds, UdpFails, Cancel, Interrupted, Cut
<1>3. live'["server"] \subseteq live["server"]
  BY <1>1 DEF WorkerEnds, UdpFails, Cancel, Interrupted, Cut, Ended, Types, Ends
<1>4. phase'["server"] \in {"open", "cancelled"} => phase["server"] \in {"open", "cancelled"}
  BY <1>1 DEF WorkerEnds, UdpFails, Cancel, Interrupted, Cut, Types, Ends
<1>5. Reading' => Reading
  BY <1>3, <1>4 DEF Reading, Works
<1>6. Pipe' /\ (Whole => Whole')
  BY <1>1, <1>2 DEF Pipe, Whole
<1>7. Moves
  BY <1>2, AsideStutters DEF Aside
<1> QED
  BY <1>1, <1>5, <1>6, <1>7 DEF Kept

LEMMA CloseStep ==
  ASSUME LinkInv, NEW e \in Ends, Close(e)
  PROVE  Kept' /\ Moves
<1> USE DEF data, beat, receiver, limits, session, broken
<1>1. /\ q["client"] \in Seq(Nat) /\ wire["client"] \in Seq(Frames) /\ Types
      /\ Pipe /\ (Reading => Whole)
  BY PipeTypes DEF LinkInv
<1>2. seq' = seq /\ dropped' = dropped /\ q' = q /\ last' = last /\ gaps' = gaps /\ live' = live
  BY DEF Close
<1>3. Moves
  BY <1>2, AsideStutters DEF Aside
<1>4. CASE e = "client"
  <2>1. wire'["client"] = wire["client"] /\ phase'["server"] = phase["server"]
    BY <1>1, <1>4, PipeTypes DEF Close, Types
  <2>2. Pipe' /\ (Whole => Whole') /\ (Reading' <=> Reading)
    BY <1>1, <1>2, <2>1 DEF Pipe, Whole, Reading, Works
  <2> QED
    BY <1>1, <1>3, <2>2 DEF Kept
<1>5. CASE e = "server"
  <2>1. wire'["client"] = <<>> /\ phase'["server"] = "closed"
    BY <1>1, <1>5, PipeTypes DEF Close, Types
  <2>2. Pipe'
    BY <1>1, <1>2, <2>1, CloseKeeps DEF Pipe
  <2>3. ~Reading'
    BY <2>1 DEF Reading, Works
  <2> QED
    BY <1>3, <2>2, <2>3 DEF Kept
<1> QED
  BY <1>4, <1>5 DEF Ends

LEMMA JoinStep ==
  ASSUME LinkInv, NEW e \in Ends, Join(e)
  PROVE  Kept' /\ Moves
<1> USE DEF data, beat, receiver, limits, session, broken
<1>1. /\ q["client"] \in Seq(Nat) /\ wire["client"] \in Seq(Frames) /\ Types
      /\ Pipe /\ (Reading => Whole)
  BY PipeTypes DEF LinkInv
<1>2. seq' = seq /\ wire' = wire /\ last' = last /\ gaps' = gaps /\ live' = live
  BY DEF Join
<1>3. phase'["server"] \in {"open", "cancelled"} => phase["server"] \in {"open", "cancelled"}
  BY <1>1 DEF Join, Types, Ends
<1>4. Reading' => Reading
  BY <1>2, <1>3 DEF Reading, Works
<1>5. CASE e = "server"
  <2>1. q'["client"] = q["client"] /\ dropped'["client"] = dropped["client"]
    BY <1>1, <1>5 DEF Join, Types, Ends
  <2>2. Pipe' /\ (Whole => Whole')
    BY <1>1, <1>2, <2>1 DEF Pipe, Whole
  <2>3. Moves
    BY <1>2, <2>1, AsideStutters DEF Aside
  <2> QED
    BY <1>1, <1>4, <2>2, <2>3 DEF Kept
<1>6. CASE e = "client"
  <2> DEFINE D == Entries(q["client"])
  <2>1. q'["client"] = <<>> /\ dropped'["client"] = dropped["client"] \cup D
    BY <1>1, <1>6 DEF Join, Types, Ends, Entries
  <2>2. Pipe' /\ (Whole => Whole')
    <3>1. /\ InOrder(seq["client"], dropped["client"] \cup D, last["server"], gaps["server"],
                     <<>>, wire["client"])
          /\ Whole => Covered(seq["client"], dropped["client"] \cup D, last["server"],
                              <<>>, wire["client"])
      BY <1>1, JoinKeeps DEF Pipe, Whole
    <3> HIDE DEF D
    <3> QED
      BY <1>2, <2>1, <3>1 DEF Pipe, Whole
  <2>3. D \subseteq (last["server"] + 1)..seq["client"]
    BY <1>1, JoinKeeps DEF Pipe
  <2>4. Upstream!Lose
    <3> HIDE DEF D
    <3> QED
      BY <1>2, <2>1, <2>3 DEF Upstream!Lose
  <2> QED
    BY <1>1, <1>4, <2>2, <2>4 DEF Kept, Moves
<1> QED
  BY <1>5, <1>6 DEF Ends

LEMMA TickStep ==
  ASSUME LinkInv, Tick
  PROVE  Kept' /\ Moves
<1> USE DEF data, beat, receiver, limits, session, broken
<1>1. /\ q["client"] \in Seq(Nat) /\ wire["client"] \in Seq(Frames) /\ Types
      /\ Pipe /\ (Reading => Whole) /\ "client" \in Ends
  BY PipeTypes DEF LinkInv
<1>2. /\ seq' = seq /\ dropped' = dropped /\ q' = q /\ last' = last /\ gaps' = gaps
      /\ live' = live /\ phase' = phase
  BY DEF Tick
<1> DEFINE W == wire["client"]
           V == wire'["client"]
<1>3. V = [i \in 1..Len(W) |-> Older(W[i])]
  BY <1>1 DEF Tick
<1>4. Len(W) \in Nat
  BY <1>1
<1>5. Len(V) = Len(W) /\ \A i \in 1..Len(W) : V[i] = Older(W[i])
  BY <1>3, <1>4
<1>6. \A i \in 1..Len(W) : V[i].kind = W[i].kind /\ (Carries(W, i) => V[i].n = W[i].n)
  <2>1. \A f : Older(f).kind = f.kind /\ (f.kind = "data" => Older(f).n = f.n)
    BY DEF Older
  <2> HIDE DEF V, W
  <2> QED
    BY <1>5, <2>1 DEF Carries
<1>7. Pipe' /\ (Whole => Whole')
  <2> HIDE DEF V
  <2>1. /\ InOrder(seq["client"], dropped["client"], last["server"], gaps["server"], q["client"], V)
        /\ Whole => Covered(seq["client"], dropped["client"], last["server"], q["client"], V)
    BY <1>1, <1>5, <1>6, AgeKeeps DEF Pipe, Whole
  <2> QED
    BY <1>2, <2>1 DEF Pipe, Whole, V
<1>8. Reading' <=> Reading
  BY <1>2 DEF Reading, Works
<1>9. Moves
  BY <1>2, AsideStutters DEF Aside
<1> QED
  BY <1>1, <1>7, <1>8, <1>9 DEF Kept

LEMMA LinkStep ==
  ASSUME LinkInv, [Next]_vars, LinkConstants
  PROVE  LinkInv' /\ Moves
<1>1. Types'
  BY TypesStep DEF LinkInv
<1>2. CASE UNCHANGED vars
  <2>1. /\ seq' = seq /\ dropped' = dropped /\ q' = q /\ wire' = wire
        /\ last' = last /\ gaps' = gaps /\ live' = live /\ phase' = phase
    BY <1>2 DEF vars, data, receiver, session
  <2>2. Pipe' /\ (Reading' => Whole')
    BY <2>1 DEF LinkInv, Pipe, Whole, Reading, Works
  <2>3. Moves
    BY <2>1, AsideStutters DEF Aside
  <2> QED
    BY <1>1, <2>2, <2>3 DEF LinkInv
<1>3. Next => Kept' /\ Moves
  BY ReceiveStep, SendStep, StaleStep, ReadBeatStep, ReadDataStep, EndingStep, CloseStep,
     JoinStep, TickStep DEF Next, Read, Write, End
<1> QED
  BY <1>1, <1>2, <1>3 DEF Kept, LinkInv

LEMMA LinkInit ==
  ASSUME Init
  PROVE  LinkInv /\ Upstream!Init
<1>1. Types
  BY DEF Init, Types, Ends
<1>2. /\ seq["client"] = 0 /\ dropped["client"] = {} /\ last["server"] = 0 /\ gaps["server"] = 0
      /\ q["client"] = <<>> /\ wire["client"] = <<>>
  BY DEF Init, Ends
<1>3. Pipe
  <2>1. \A i \in 1..Len(<<>>) : FALSE
    OBVIOUS
  <2>2. Cardinality({m \in {} : m < 0}) = 0
    <3>1. {m \in {} : m < 0} = {}
      OBVIOUS
    <3> QED
      BY <3>1, FS_EmptySet
  <2>3. Counted(0, {}, 0, 0)
    BY <2>2 DEF Counted
  <2> QED
    BY <1>2, <2>1, <2>3 DEF Pipe, InOrder, Queued, Streamed, Before
<1>4. Whole
  BY <1>2 DEF Whole, Covered
<1>5. Upstream!Init
  BY <1>2 DEF Upstream!Init
<1> QED
  BY <1>1, <1>3, <1>4, <1>5 DEF LinkInv

(* Whatever either end does, the numbers in the client's queue and stream  *)
(* ascend, lie after what the server delivered and are not lost; as long   *)
(* as the server reads, every number is under way, lost or delivered, and  *)
(* its gap counter is the number of those lost (receiveUDP, writeFrames,   *)
(* readFrames, and session's closing of the stream).                       *)
THEOREM LinkCarriesInOrder == Spec => []LinkInv
<1>1. Init => LinkInv
  BY LinkInit
<1>2. LinkInv /\ [Next]_vars => LinkInv'
  BY LinkStep, LinkConstants
<1> QED
  BY <1>1, <1>2, PTL DEF Spec

(* DatagramsArrive: the session, its heartbeat, either side ending and the  *)
(* faults of the network included, implements the lossy pipe: what is      *)
(* lost is lost before the stream, the rest arrives once and in order.     *)
THEOREM LinkImplementsDatagrams == Spec => DatagramsArrive
<1>1. Init => Upstream!Init
  BY LinkInit
<1>2. LinkInv /\ [Next]_vars => Moves
  BY LinkStep, LinkConstants
<1> QED
  BY <1>1, <1>2, LinkCarriesInOrder, PTL DEF Spec, DatagramsArrive, Upstream!Spec, Moves
-----------------------------------------------------------------------------
(* A healthy link.  Where the probe of an end is, as a predicate on values: *)
(* S is the age the prober keeps, W and V the streams to and from the other *)
(* end, C the answers that end has yet to write.                           *)
None(W, k) == \A i \in 1..Len(W) : W[i].kind # k
One(W, k, n) == \E i \in 1..Len(W) :
  W[i].kind = k /\ W[i].n = n /\ \A j \in 1..Len(W) : W[j].kind = k => j = i

Tracked(S, W, C, V) ==
  \/ S = NoProbe /\ None(W, "ping") /\ C = <<>> /\ None(V, "pong")
  \/ One(W, "ping", S) /\ C = <<>> /\ None(V, "pong")
  \/ S <= Latency /\ None(W, "ping") /\ C = <<S>> /\ None(V, "pong")
  \/ None(W, "ping") /\ C = <<>> /\ One(V, "pong", S)

\* The oldest frame comes first, and a beat is as old as its way took at most.
Fresh(W) ==
  /\ \A i \in 1..Len(W) : W[i].age <= Latency
  /\ \A i, j \in 1..Len(W) : i < j => W[j].age <= W[i].age
  /\ \A i \in 1..Len(W) : W[i].kind = "ping" => W[i].n = W[i].age
  /\ \A i \in 1..Len(W) : W[i].kind = "pong" => W[i].n <= Latency + W[i].age

(* At either end: nothing has ended; the reader was silent for the interval *)
(* and the age of its own probe at most; the stream, the probe and the     *)
(* datagrams are in order.                                                 *)
Alive(e)  == live[e] = Workers /\ phase[e] = "open"
Timer(e)  == /\ stuck[e] = 0 /\ next[e] <= Interval
             /\ IF sent[e] = NoProbe THEN silent[e] + next[e] <= Interval
                                     ELSE silent[e] <= Interval + sent[e]
Stream(e) == Len(wire[e]) <= Window /\ Fresh(wire[e])
Probe(e)  == Tracked(sent[e], wire[e], control[Peer(e)], wire[Peer(e)])
Flow(e)   == /\ InOrder(seq[e], dropped[e], last[Peer(e)], gaps[Peer(e)], q[e], wire[e])
             /\ Covered(seq[e], dropped[e], last[Peer(e)], q[e], wire[e])
Well(e)   == Alive(e) /\ Timer(e) /\ Stream(e) /\ Probe(e) /\ Flow(e)

Healthy == faults = 0 /\ ~jammed
Clocks  == /\ faults \in Nat /\ jammed \in BOOLEAN
           /\ sent \in [Ends -> Nat] /\ next \in [Ends -> Nat]
           /\ stuck \in [Ends -> Nat] /\ silent \in [Ends -> Nat]
AllWell == cut = {} /\ \A e \in Ends : Well(e)
HealthInv == Types /\ Clocks /\ (Healthy => AllWell)

LEMMA TwoEnds ==
  ASSUME NEW e \in Ends
  PROVE  /\ Peer(e) \in Ends /\ Peer(e) # e /\ Peer(Peer(e)) = e
         /\ \A x \in Ends : x = e \/ x = Peer(e)
BY DEF Ends, Peer

\* A frame is written.
LEMMA AppendBeats ==
  ASSUME NEW W \in Seq(Frames), NEW f \in Frames, NEW k
  PROVE  LET V == Append(W, f) IN
         /\ f.kind # k /\ None(W, k) => None(V, k)
         /\ \A n : f.kind # k /\ One(W, k, n) => One(V, k, n)
         /\ f.kind = k /\ None(W, k) => One(V, k, f.n)
<1> DEFINE V == Append(W, f)
<1>1. /\ Len(W) \in Nat /\ Len(V) = Len(W) + 1 /\ V[Len(W) + 1] = f
      /\ \A i \in 1..Len(W) : V[i] = W[i]
  OBVIOUS
<1> HIDE DEF V
<1>2. /\ \A i \in 1..Len(V) : i \in 1..Len(W) \/ i = Len(W) + 1
      /\ \A i \in 1..Len(W) : i \in 1..Len(V)
      /\ Len(W) + 1 \in 1..Len(V)
  BY <1>1
<1>3. f.kind # k /\ None(W, k) => None(V, k)
  BY <1>1, <1>2 DEF None
<1>4. ASSUME NEW n, f.kind # k, One(W, k, n)
      PROVE  One(V, k, n)
  <2>1. PICK i \in 1..Len(W) :
          W[i].kind = k /\ W[i].n = n /\ \A j \in 1..Len(W) : W[j].kind = k => j = i
    BY <1>4 DEF One
  <2>2. i \in 1..Len(V) /\ V[i].kind = k /\ V[i].n = n
    BY <1>1, <1>2, <2>1
  <2>3. \A j \in 1..Len(V) : V[j].kind = k => j = i
    BY <1>1, <1>2, <1>4, <2>1
  <2> QED
    BY <2>2, <2>3 DEF One
<1>5. ASSUME f.kind = k, None(W, k)
      PROVE  One(V, k, f.n)
  <2>1. V[Len(W) + 1].kind = k /\ V[Len(W) + 1].n = f.n
    BY <1>1, <1>5
  <2>2. \A j \in 1..Len(V) : V[j].kind = k => j = Len(W) + 1
    BY <1>1, <1>2, <1>5 DEF None
  <2> QED
    BY <1>2, <2>1, <2>2 DEF One
<1> QED
  BY <1>3, <1>4, <1>5 DEF V

\* A frame is read.
LEMMA TailBeats ==
  ASSUME NEW W \in Seq(Frames), W # <<>>, NEW k
  PROVE  /\ None(W, k) => None(Tail(W), k) /\ Head(W).kind # k
         /\ \A n : Head(W).kind # k /\ One(W, k, n) => One(Tail(W), k, n)
         /\ \A n : Head(W).kind = k /\ One(W, k, n) => Head(W).n = n /\ None(Tail(W), k)
<1> DEFINE V == Tail(W)
<1>1. /\ Len(W) \in Nat /\ Len(V) \in Nat /\ Len(W) = Len(V) + 1 /\ Head(W) = W[1]
      /\ \A i \in 1..Len(V) : V[i] = W[i + 1]
  OBVIOUS
<1> HIDE DEF V
<1>2. /\ \A i \in 1..Len(V) : i + 1 \in 1..Len(W) /\ i + 1 # 1
      /\ \A i \in 1..Len(W) : i # 1 => i - 1 \in 1..Len(V) /\ V[i - 1] = W[i]
      /\ 1 \in 1..Len(W)
  <2>1. \A i \in 1..Len(W) : i # 1 => i - 1 \in 1..Len(V) /\ (i - 1) + 1 = i
    BY <1>1
  <2> QED
    BY <1>1, <2>1
<1>3. None(W, k) => None(V, k) /\ Head(W).kind # k
  BY <1>1, <1>2 DEF None
<1>4. ASSUME NEW n, Head(W).kind # k, One(W, k, n)
      PROVE  One(V, k, n)
  <2>1. PICK i \in 1..Len(W) :
          W[i].kind = k /\ W[i].n = n /\ \A j \in 1..Len(W) : W[j].kind = k => j = i
    BY <1>4 DEF One
  <2>2. i # 1
    BY <1>1, <1>4, <2>1
  <2>3. i - 1 \in 1..Len(V) /\ V[i - 1].kind = k /\ V[i - 1].n = n
    BY <1>2, <2>1, <2>2
  <2>4. ASSUME NEW j \in 1..Len(V), V[j].kind = k
        PROVE  j = i - 1
    <3>1. j + 1 \in 1..Len(W) /\ W[j + 1].kind = k
      BY <1>1, <1>2, <2>4
    <3>2. j + 1 = i
      BY <2>1, <3>1
    <3> QED
      BY <3>2
  <2> QED
    BY <2>3, <2>4 DEF One
<1>5. ASSUME NEW n, Head(W).kind = k, One(W, k, n)
      PROVE  Head(W).n = n /\ None(V, k)
  <2>1. PICK i \in 1..Len(W) :
          W[i].kind = k /\ W[i].n = n /\ \A j \in 1..Len(W) : W[j].kind = k => j = i
    BY <1>5 DEF One
  <2>2. i = 1
    BY <1>1, <1>2, <1>5, <2>1
  <2>3. \A j \in 1..Len(V) : V[j].kind # k
    BY <1>1, <1>2, <2>1, <2>2
  <2> QED
    BY <1>1, <2>1, <2>2, <2>3 DEF None
<1> QED
  BY <1>3, <1>4, <1>5 DEF V

\* The ages on a stream that is written and read.
LEMMA FreshKeeps ==
  ASSUME NEW W \in Seq(Frames), Fresh(W), Latency \in Nat
  PROVE  /\ \A f \in Frames : /\ f.age = 0
                              /\ f.kind = "ping" => f.n = 0
                              /\ f.kind = "pong" => f.n <= Latency
                              => Fresh(Append(W, f))
         /\ W # <<>> => Fresh(Tail(W))
<1>1. \A i \in 1..Len(W) : W[i] \in Frames /\ W[i].age \in Nat /\ W[i].n \in Nat
  <2>1. \A i \in 1..Len(W) : W[i] \in Frames
    OBVIOUS
  <2> QED
    BY <2>1 DEF Frames
<1>2. ASSUME NEW f \in Frames, f.age = 0, f.kind = "ping" => f.n = 0,
             f.kind = "pong" => f.n <= Latency
      PROVE  Fresh(Append(W, f))
  <2> DEFINE V == Append(W, f)
  <2>1. /\ Len(W) \in Nat /\ Len(V) = Len(W) + 1 /\ V[Len(W) + 1] = f
        /\ \A i \in 1..Len(W) : V[i] = W[i]
    OBVIOUS
  <2>2. f.n \in Nat
    BY DEF Frames
  <2> HIDE DEF V
  <2>3. \A i \in 1..Len(V) : i \in 1..Len(W) \/ i = Len(W) + 1
    BY <2>1
  <2>4. \A i \in 1..Len(V) : V[i].age <= Latency
    BY <1>2, <2>1, <2>3 DEF Fresh
  <2>5. \A i, j \in 1..Len(V) : i < j => V[j].age <= V[i].age
    <3> SUFFICES ASSUME NEW i \in 1..Len(V), NEW j \in 1..Len(V), i < j
                 PROVE  V[j].age <= V[i].age
      OBVIOUS
    <3>1. i \in 1..Len(W)
      BY <2>1, <2>3
    <3>2. CASE j \in 1..Len(W)
      BY <2>1, <3>1, <3>2 DEF Fresh
    <3>3. CASE j = Len(W) + 1
      BY <1>1, <1>2, <2>1, <3>1, <3>3
    <3> QED
      BY <2>3, <3>2, <3>3
  <2>6. \A i \in 1..Len(V) : V[i].kind = "ping" => V[i].n = V[i].age
    BY <1>2, <2>1, <2>3 DEF Fresh
  <2>7. \A i \in 1..Len(V) : V[i].kind = "pong" => V[i].n <= Latency + V[i].age
    BY <1>2, <2>1, <2>2, <2>3 DEF Fresh
  <2> QED
    BY <2>4, <2>5, <2>6, <2>7 DEF Fresh, V
<1>3. ASSUME W # <<>>
      PROVE  Fresh(Tail(W))
  <2> DEFINE V == Tail(W)
  <2>1. /\ Len(W) \in Nat /\ Len(V) \in Nat /\ Len(W) = Len(V) + 1
        /\ \A i \in 1..Len(V) : V[i] = W[i + 1]
    BY <1>3
  <2> HIDE DEF V
  <2>2. \A i \in 1..Len(V) : i + 1 \in 1..Len(W)
    BY <2>1
  <2>3. \A i, j \in 1..Len(V) : i < j => i + 1 < j + 1
    BY <2>1
  <2>4. \A i, j \in 1..Len(V) : i < j => V[j].age <= V[i].age
    BY <2>1, <2>2, <2>3 DEF Fresh
  <2> QED
    BY <2>1, <2>2, <2>4 DEF Fresh, V
<1> QED
  BY <1>2, <1>3

\* A tick passes on a stream whose oldest frame may still be under way.
LEMMA FreshAges ==
  ASSUME NEW W \in Seq(Frames), Fresh(W), {Latency, Timeout} \subseteq Nat,
         2 * Latency < Timeout, W # <<>> => Head(W).age # Latency,
         NEW V, V = [i \in 1..Len(W) |-> Older(W[i])]
  PROVE  /\ Len(V) = Len(W) /\ Fresh(V)
         /\ \A k : None(W, k) => None(V, k)
         /\ \A n : One(W, "ping", n) => n + 1 <= Latency /\ One(V, "ping", n + 1)
         /\ \A n : One(W, "pong", n) => n + 1 <= 2 * Latency /\ One(V, "pong", n + 1)
<1>1. \A i \in 1..Len(W) : W[i] \in Frames /\ W[i].age \in Nat /\ W[i].n \in Nat
  <2>1. \A i \in 1..Len(W) : W[i] \in Frames
    OBVIOUS
  <2> QED
    BY <2>1 DEF Frames
<1>2. Len(W) \in Nat /\ Len(V) = Len(W) /\ \A i \in 1..Len(W) : V[i] = Older(W[i])
  BY Z3
<1>3. \A i \in 1..Len(W) : W[i].age < Latency
  <2> SUFFICES ASSUME NEW i \in 1..Len(W)
               PROVE  W[i].age < Latency
    OBVIOUS
  <2>1. W # <<>> /\ Head(W) = W[1] /\ 1 \in 1..Len(W) /\ (i = 1 \/ 1 < i)
    BY <1>2
  <2>2. W[1].age < Latency
    BY <1>1, <2>1 DEF Fresh
  <2>3. W[i].age <= W[1].age
    BY <1>1, <2>1 DEF Fresh
  <2> QED
    BY <1>1, <2>1, <2>2, <2>3
<1>4. \A i \in 1..Len(W) : V[i].kind = W[i].kind /\ V[i].age = W[i].age + 1
  BY <1>1, <1>2, <1>3 DEF Older, Up
<1>5. \A i \in 1..Len(W) : W[i].kind = "ping" => W[i].n < Latency /\ V[i].n = W[i].n + 1
  BY <1>1, <1>2, <1>3 DEF Fresh, Older, Up, NoProbe
<1>6. \A i \in 1..Len(W) : W[i].kind = "pong" => W[i].n < 2 * Latency /\ V[i].n = W[i].n + 1
  BY <1>1, <1>2, <1>3 DEF Fresh, Older, Up, NoProbe
<1>7. Fresh(V)
  <2>1. \A i \in 1..Len(V) : V[i].age <= Latency
    BY <1>1, <1>2, <1>3, <1>4
  <2>2. \A i, j \in 1..Len(V) : i < j => V[j].age <= V[i].age
    <3> SUFFICES ASSUME NEW i \in 1..Len(W), NEW j \in 1..Len(W), i < j
                 PROVE  V[j].age <= V[i].age
      BY <1>2
    <3>1. W[j].age <= W[i].age
      BY DEF Fresh
    <3>2. V[i].age = W[i].age + 1 /\ V[j].age = W[j].age + 1
      BY <1>4
    <3> QED
      BY <1>1, <3>1, <3>2
  <2>3. \A i \in 1..Len(V) : V[i].kind = "ping" => V[i].n = V[i].age
    BY <1>2, <1>4, <1>5 DEF Fresh
  <2>4. \A i \in 1..Len(V) : V[i].kind = "pong" => V[i].n <= Latency + V[i].age
    <3> SUFFICES ASSUME NEW i \in 1..Len(W), W[i].kind = "pong"
                 PROVE  V[i].n <= Latency + V[i].age
      BY <1>2, <1>4
    <3>1. W[i].n <= Latency + W[i].age
      BY DEF Fresh
    <3>2. V[i].age = W[i].age + 1 /\ V[i].n = W[i].n + 1
      BY <1>4, <1>6
    <3> QED
      BY <1>1, <3>1, <3>2
  <2> QED
    BY <2>1, <2>2, <2>3, <2>4 DEF Fresh
<1>8. \A k : None(W, k) => None(V, k)
  BY <1>2, <1>4 DEF None
<1>9. ASSUME NEW k \in {"ping", "pong"}, NEW n, One(W, k, n)
      PROVE  /\ n + 1 <= (IF k = "ping" THEN Latency ELSE 2 * Latency)
             /\ One(V, k, n + 1)
  <2>1. PICK i \in 1..Len(W) :
          W[i].kind = k /\ W[i].n = n /\ \A j \in 1..Len(W) : W[j].kind = k => j = i
    BY <1>9 DEF One
  <2>2. V[i].kind = k /\ V[i].n = n + 1 /\ i \in 1..Len(V)
    BY <1>2, <1>4, <1>5, <1>6, <2>1
  <2>3. \A j \in 1..Len(V) : V[j].kind = k => j = i
    BY <1>2, <1>4, <2>1
  <2>4. n + 1 <= (IF k = "ping" THEN Latency ELSE 2 * Latency)
    BY <1>1, <1>5, <1>6, <2>1
  <2> QED
    BY <2>2, <2>3, <2>4 DEF One
<1> QED
  BY <1>2, <1>7, <1>8, <1>9

\* A probe is answered in time: it is under way for two latencies at most.
LEMMA TrackedInTime ==
  ASSUME Latency \in Nat, Timeout \in Nat, 2 * Latency < Timeout,
         NEW S, NEW C \in Seq(Nat), NEW W \in Seq(Frames), NEW V \in Seq(Frames),
         Tracked(S, W, C, V), Fresh(W), Fresh(V)
  PROVE  \/ S = NoProbe /\ None(W, "ping") /\ C = <<>> /\ None(V, "pong")
         \/ S # NoProbe /\ S \in Nat /\ S <= 2 * Latency
<1>1. /\ \A i \in 1..Len(W) : W[i] \in Frames /\ W[i].age \in Nat /\ W[i].n \in Nat
      /\ \A i \in 1..Len(V) : V[i] \in Frames /\ V[i].age \in Nat /\ V[i].n \in Nat
  <2>1. /\ \A i \in 1..Len(W) : W[i] \in Frames
        /\ \A i \in 1..Len(V) : V[i] \in Frames
    OBVIOUS
  <2> QED
    BY <2>1 DEF Frames
<1>2. ASSUME One(W, "ping", S)
      PROVE  S \in Nat /\ S <= Latency
  BY <1>1, <1>2 DEF One, Fresh
<1>3. ASSUME One(V, "pong", S)
      PROVE  S \in Nat /\ S <= 2 * Latency
  <2>1. PICK i \in 1..Len(V) : V[i].kind = "pong" /\ V[i].n = S
    BY <1>3 DEF One
  <2>2. V[i].n <= Latency + V[i].age /\ V[i].age <= Latency
    BY <2>1 DEF Fresh
  <2> QED
    BY <1>1, <2>1, <2>2
<1>4. ASSUME C = <<S>>, S <= Latency
      PROVE  S \in Nat /\ S <= 2 * Latency
  <2>1. C[1] \in Nat /\ C[1] = S
    BY <1>4
  <2> QED
    BY <1>4, <2>1
<1> QED
  BY <1>2, <1>3, <1>4 DEF Tracked, NoProbe

\* Frames of another kind do not disturb it.
LEMMA TrackedBeside ==
  ASSUME NEW S, NEW C, NEW W \in Seq(Frames), NEW V \in Seq(Frames), Tracked(S, W, C, V)
  PROVE  /\ \A f \in Frames : f.kind # "ping" => Tracked(S, Append(W, f), C, V)
         /\ \A f \in Frames : f.kind # "pong" => Tracked(S, W, C, Append(V, f))
         /\ W # <<>> /\ Head(W).kind # "ping" => Tracked(S, Tail(W), C, V)
         /\ V # <<>> /\ Head(V).kind # "pong" => Tracked(S, W, C, Tail(V))
<1>1. ASSUME NEW f \in Frames, f.kind # "ping"
      PROVE  Tracked(S, Append(W, f), C, V)
  <2>1. /\ None(W, "ping") => None(Append(W, f), "ping")
        /\ \A n : One(W, "ping", n) => One(Append(W, f), "ping", n)
    BY <1>1, AppendBeats
  <2> QED
    BY <2>1 DEF Tracked
<1>2. ASSUME NEW f \in Frames, f.kind # "pong"
      PROVE  Tracked(S, W, C, Append(V, f))
  <2>1. /\ None(V, "pong") => None(Append(V, f), "pong")
        /\ \A n : One(V, "pong", n) => One(Append(V, f), "pong", n)
    BY <1>2, AppendBeats
  <2> QED
    BY <2>1 DEF Tracked
<1>3. ASSUME W # <<>>, Head(W).kind # "ping"
      PROVE  Tracked(S, Tail(W), C, V)
  <2>1. /\ None(W, "ping") => None(Tail(W), "ping")
        /\ \A n : One(W, "ping", n) => One(Tail(W), "ping", n)
    BY <1>3, TailBeats
  <2> QED
    BY <2>1 DEF Tracked
<1>4. ASSUME V # <<>>, Head(V).kind # "pong"
      PROVE  Tracked(S, W, C, Tail(V))
  <2>1. /\ None(V, "pong") => None(Tail(V), "pong")
        /\ \A n : One(V, "pong", n) => One(Tail(V), "pong", n)
    BY <1>4, TailBeats
  <2> QED
    BY <2>1 DEF Tracked
<1> QED
  BY <1>1, <1>2, <1>3, <1>4

\* The way of a probe: written, answered, its answer written and read.
LEMMA TrackedMoves ==
  ASSUME Latency \in Nat, Timeout \in Nat, 2 * Latency < Timeout,
         NEW S, NEW C \in Seq(Nat), NEW W \in Seq(Frames), NEW V \in Seq(Frames),
         Tracked(S, W, C, V), Fresh(W), Fresh(V)
  PROVE  /\ S = NoProbe => Tracked(0, Append(W, Frame("ping", 0)), C, V)
         /\ W # <<>> /\ Head(W).kind = "ping" =>
              C = <<>> /\ Tracked(S, Tail(W), Append(C, Head(W).n), V)
         /\ C # <<>> => /\ Head(C) \in Nat /\ Head(C) <= Latency
                        /\ Tracked(S, W, Tail(C), Append(V, Frame("pong", Head(C))))
         /\ V # <<>> /\ Head(V).kind = "pong" =>
              S # NoProbe /\ Head(V).n = S /\ Tracked(NoProbe, W, C, Tail(V))
<1> USE TrackedInTime
<1>1. ASSUME S = NoProbe
      PROVE  Tracked(0, Append(W, Frame("ping", 0)), C, V)
  <2>1. None(W, "ping") /\ C = <<>> /\ None(V, "pong")
    BY <1>1
  <2>2. Frame("ping", 0) \in Frames /\ Frame("ping", 0).kind = "ping" /\ Frame("ping", 0).n = 0
    BY DEF Frame, Frames
  <2>3. One(Append(W, Frame("ping", 0)), "ping", 0)
    BY <2>1, <2>2, AppendBeats
  <2> QED
    BY <2>1, <2>3 DEF Tracked
<1>2. ASSUME W # <<>>, Head(W).kind = "ping"
      PROVE  C = <<>> /\ Tracked(S, Tail(W), Append(C, Head(W).n), V)
  <2>1. ~None(W, "ping")
    BY <1>2, TailBeats
  <2>2. One(W, "ping", S) /\ C = <<>> /\ None(V, "pong")
    BY <2>1 DEF Tracked
  <2>3. Head(W).n = S /\ None(Tail(W), "ping")
    BY <1>2, <2>2, TailBeats
  <2>4. S <= Latency
    <3>1. /\ 1 \in 1..Len(W) /\ Head(W) = W[1]
      BY <1>2
    <3> QED
      BY <1>2, <2>3, <3>1 DEF Fresh
  <2>5. Append(C, Head(W).n) = <<S>>
    BY <2>2, <2>3
  <2> QED
    BY <2>2, <2>3, <2>4, <2>5 DEF Tracked
<1>3. ASSUME C # <<>>
      PROVE  /\ Head(C) \in Nat /\ Head(C) <= Latency
             /\ Tracked(S, W, Tail(C), Append(V, Frame("pong", Head(C))))
  <2>1. S <= Latency /\ None(W, "ping") /\ C = <<S>> /\ None(V, "pong")
    BY <1>3 DEF Tracked
  <2>2. Head(C) = S /\ Tail(C) = <<>> /\ S \in Nat
    <3>1. Head(C) \in Nat
      BY <1>3
    <3> QED
      BY <2>1, <3>1
  <2>3. Frame("pong", S) \in Frames /\ Frame("pong", S).kind = "pong" /\ Frame("pong", S).n = S
    BY <2>2 DEF Frame, Frames
  <2>4. One(Append(V, Frame("pong", S)), "pong", S)
    BY <2>1, <2>3, AppendBeats
  <2> QED
    BY <2>1, <2>2, <2>4 DEF Tracked
<1>4. ASSUME V # <<>>, Head(V).kind = "pong"
      PROVE  S # NoProbe /\ Head(V).n = S /\ Tracked(NoProbe, W, C, Tail(V))
  <2>1. ~None(V, "pong")
    BY <1>4, TailBeats
  <2>2. One(V, "pong", S) /\ C = <<>> /\ None(W, "ping")
    BY <2>1 DEF Tracked
  <2>3. Head(V).n = S /\ None(Tail(V), "pong")
    BY <1>4, <2>2, TailBeats
  <2> QED
    BY <2>1, <2>2, <2>3 DEF Tracked
<1> QED
  BY <1>1, <1>2, <1>3, <1>4

\* A tick on the way of a probe, while nothing waits to be answered.
LEMMA TrackedAges ==
  ASSUME {Latency, Timeout} \subseteq Nat, 2 * Latency < Timeout,
         NEW S, NEW W \in Seq(Frames), NEW V \in Seq(Frames),
         Tracked(S, W, <<>>, V), Fresh(W), Fresh(V),
         W # <<>> => Head(W).age # Latency, V # <<>> => Head(V).age # Latency
  PROVE  LET X == [i \in 1..Len(W) |-> Older(W[i])]
             Y == [i \in 1..Len(V) |-> Older(V[i])]
         IN  IF S = NoProbe THEN Tracked(S, X, <<>>, Y)
                            ELSE S + 1 <= 2 * Latency /\ Tracked(S + 1, X, <<>>, Y)
<1> DEFINE X == [i \in 1..Len(W) |-> Older(W[i])]
           Y == [i \in 1..Len(V) |-> Older(V[i])]
<1>1. \/ S = NoProbe /\ None(W, "ping") /\ None(V, "pong")
      \/ S # NoProbe /\ S \in Nat /\ S <= 2 * Latency
  <2>1. <<>> \in Seq(Nat)
    OBVIOUS
  <2> QED
    BY <2>1, TrackedInTime
<1>2. /\ \A k : None(W, k) => None(X, k)
      /\ \A n : One(W, "ping", n) => n + 1 <= Latency /\ One(X, "ping", n + 1)
  BY FreshAges
<1>3. /\ \A k : None(V, k) => None(Y, k)
      /\ \A n : One(V, "pong", n) => n + 1 <= 2 * Latency /\ One(Y, "pong", n + 1)
  BY FreshAges
<1> HIDE DEF X, Y
<1>4. CASE S = NoProbe
  BY <1>1, <1>2, <1>3, <1>4 DEF Tracked, X, Y
<1>5. CASE S # NoProbe
  <2>1. \/ One(W, "ping", S) /\ None(V, "pong")
        \/ None(W, "ping") /\ One(V, "pong", S)
    <3>1. <<>> # <<S>>
      OBVIOUS
    <3> QED
      BY <1>5, <3>1 DEF Tracked
  <2>2. S + 1 <= 2 * Latency /\ Tracked(S + 1, X, <<>>, Y)
    <3>1. CASE One(W, "ping", S) /\ None(V, "pong")
      BY <1>1, <1>2, <1>3, <1>5, <3>1 DEF Tracked
    <3>2. CASE None(W, "ping") /\ One(V, "pong", S)
      BY <1>1, <1>2, <1>3, <1>5, <3>2 DEF Tracked
    <3> QED
      BY <2>1, <3>1, <3>2
  <2> QED
    BY <1>5, <2>2 DEF X, Y
<1> QED
  BY <1>4, <1>5

-----------------------------------------------------------------------------
(* The steps of a healthy link, by the end e that takes them.              *)
LEMMA WellFacts ==
  ASSUME HealthInv, Healthy, LinkConstants, NEW e \in Ends
  PROVE  /\ Types /\ Clocks /\ cut = {} /\ Well(e) /\ faults = 0 /\ jammed = FALSE
         /\ seq[e] \in Nat /\ last[e] \in Nat /\ q[e] \in Seq(Nat)
         /\ control[e] \in Seq(Nat) /\ wire[e] \in Seq(Frames) /\ Len(wire[e]) \in Nat
         /\ sent[e] \in Nat /\ next[e] \in Nat /\ silent[e] \in Nat
         /\ {Latency, Interval, Timeout, ReadLimit, WriteLimit, Control, Window} \subseteq Nat
         /\ \A w \in Workers : Works(e, w)
         /\ ~Gone(e) /\ (Room(e) <=> Len(wire[e]) < Window)
<1>1. /\ Types /\ Clocks /\ cut = {} /\ \A x \in Ends : Well(x)
      /\ faults = 0 /\ jammed = FALSE
  BY DEF HealthInv, AllWell, Healthy, Clocks
<1>2. Peer(e) \in Ends
  BY TwoEnds
<1>3. wire[e] \in Seq(Frames)
  BY <1>1 DEF Types
<1>4. ~Gone(e)
  BY <1>1, <1>2 DEF Gone, Well, Alive
<1>5. \A w \in Workers : Works(e, w)
  BY <1>1 DEF Works, Well, Alive
<1>6. Len(wire[e]) \in Nat
  BY <1>3
<1>7. /\ seq[e] \in Nat /\ last[e] \in Nat /\ q[e] \in Seq(Nat) /\ control[e] \in Seq(Nat)
      /\ sent[e] \in Nat /\ next[e] \in Nat /\ silent[e] \in Nat
  BY <1>1 DEF Types, Clocks
<1> QED
  BY <1>1, <1>3, <1>4, <1>5, <1>6, <1>7 DEF Room, LinkConstants

\* What a step leaves alone stays well.
LEMMA AliveStays ==
  ASSUME NEW x \in Ends, Alive(x), live' = live, phase' = phase
  PROVE  Alive(x)'
BY DEF Alive

LEMMA TimerStays ==
  ASSUME NEW x \in Ends, Timer(x), sent'[x] = sent[x], next'[x] = next[x],
         stuck'[x] = stuck[x], silent'[x] = silent[x]
  PROVE  Timer(x)'
BY DEF Timer

LEMMA StreamStays ==
  ASSUME NEW x \in Ends, Stream(x), wire'[x] = wire[x]
  PROVE  Stream(x)'
BY DEF Stream

LEMMA ProbeStays ==
  ASSUME NEW x \in Ends, Probe(x), sent'[x] = sent[x], wire'[x] = wire[x],
         control'[Peer(x)] = control[Peer(x)], wire'[Peer(x)] = wire[Peer(x)]
  PROVE  Probe(x)'
BY DEF Probe

LEMMA FlowStays ==
  ASSUME NEW x \in Ends, Flow(x), seq'[x] = seq[x], dropped'[x] = dropped[x],
         last'[Peer(x)] = last[Peer(x)], gaps'[Peer(x)] = gaps[Peer(x)],
         q'[x] = q[x], wire'[x] = wire[x]
  PROVE  Flow(x)'
BY DEF Flow

LEMMA BothWell ==
  ASSUME NEW e \in Ends, cut' = {},
         Alive(e)', Timer(e)', Stream(e)', Probe(e)', Flow(e)',
         Alive(Peer(e))', Timer(Peer(e))', Stream(Peer(e))', Probe(Peer(e))', Flow(Peer(e))'
  PROVE  AllWell'
<1>1. \A x \in Ends : x = e \/ x = Peer(e)
  BY TwoEnds
<1>2. Well(e)' /\ Well(Peer(e))'
  BY DEF Well
<1>3. \A x \in Ends : Well(x)'
  BY <1>1, <1>2
<1> QED
  BY <1>3 DEF AllWell

\* A datagram is read from the local socket.
LEMMA ReceiveWell ==
  ASSUME HealthInv, Healthy, LinkConstants, NEW e \in Ends, Receive(e)
  PROVE  AllWell'
<1> DEFINE p == Peer(e)
<1>1. p \in Ends /\ p # e /\ Peer(p) = e
  BY TwoEnds
<1>2. /\ Well(e) /\ cut = {} /\ Types /\ q[e] \in Seq(Nat) /\ wire[e] \in Seq(Frames)
  BY WellFacts
<1>3. Well(p)
  BY <1>1, WellFacts
<1> HIDE DEF p
<1>4. /\ control' = control /\ wire' = wire /\ last' = last /\ gaps' = gaps
      /\ sent' = sent /\ next' = next /\ stuck' = stuck /\ silent' = silent
      /\ live' = live /\ phase' = phase /\ cut' = cut
  BY DEF Receive, receiver, beat, limits, session, broken
<1>5. /\ seq'[p] = seq[p] /\ q'[p] = q[p] /\ dropped'[p] = dropped[p]
  BY <1>1, <1>2 DEF Receive, Types
<1>6. seq'[e] = seq[e] + 1
  BY <1>2 DEF Receive, Types
<1>7. Flow(e)'
  <2>1. CASE Len(q[e]) < Queue
    <3>1. q'[e] = Append(q[e], seq[e] + 1) /\ dropped'[e] = dropped[e]
      BY <1>2, <1>6, <2>1 DEF Receive, Types
    <3> QED
      BY <1>2, <1>4, <1>6, <3>1, QueueKeeps DEF Flow, Well
  <2>2. CASE ~(Len(q[e]) < Queue)
    <3>1. q'[e] = q[e] /\ dropped'[e] = dropped[e] \cup {seq[e] + 1}
      BY <1>2, <1>6, <2>2 DEF Receive, Types
    <3>2. /\ InOrder(seq[e] + 1, dropped[e] \cup {seq[e] + 1}, last[p], gaps[p], q[e], wire[e])
          /\ Covered(seq[e] + 1, dropped[e] \cup {seq[e] + 1}, last[p], q[e], wire[e])
      BY <1>2, DropKeeps DEF Flow, Well, p
    <3> QED
      BY <1>4, <1>6, <3>1, <3>2 DEF Flow, p
  <2> QED
    BY <2>1, <2>2
<1>8. Flow(p)'
  BY <1>1, <1>3, <1>4, <1>5, FlowStays DEF Well
<1>9. /\ Alive(e)' /\ Timer(e)' /\ Stream(e)' /\ Probe(e)'
      /\ Alive(p)' /\ Timer(p)' /\ Stream(p)' /\ Probe(p)'
  BY <1>1, <1>2, <1>3, <1>4, AliveStays, TimerStays, StreamStays, ProbeStays DEF Well
<1> QED
  BY <1>2, <1>4, <1>7, <1>8, <1>9, BothWell DEF p

\* A datagram that waited too long.
LEMMA StaleWell ==
  ASSUME HealthInv, Healthy, LinkConstants, NEW e \in Ends, Stale(e)
  PROVE  AllWell'
<1> DEFINE p == Peer(e)
<1>1. p \in Ends /\ p # e /\ Peer(p) = e
  BY TwoEnds
<1>2. /\ Well(e) /\ cut = {} /\ Types /\ q[e] \in Seq(Nat) /\ wire[e] \in Seq(Frames)
  BY WellFacts
<1>3. Well(p)
  BY <1>1, WellFacts
<1> HIDE DEF p
<1>4. /\ control' = control /\ wire' = wire /\ last' = last /\ gaps' = gaps /\ seq' = seq
      /\ sent' = sent /\ next' = next /\ stuck' = stuck /\ silent' = silent
      /\ live' = live /\ phase' = phase /\ cut' = cut
  BY DEF Stale, receiver, beat, limits, session, broken
<1>5. q'[p] = q[p] /\ dropped'[p] = dropped[p]
  BY <1>1, <1>2 DEF Stale, Types
<1>6. /\ q[e] # <<>> /\ q'[e] = Tail(q[e]) /\ dropped'[e] = dropped[e] \cup {Head(q[e])}
  BY <1>2 DEF Stale, Types
<1>7. Flow(e)'
  <2>1. /\ InOrder(seq[e], dropped[e] \cup {Head(q[e])}, last[p], gaps[p], Tail(q[e]), wire[e])
        /\ Covered(seq[e], dropped[e] \cup {Head(q[e])}, last[p], Tail(q[e]), wire[e])
    BY <1>2, <1>6, StaleKeeps DEF Flow, Well, p
  <2> QED
    BY <1>4, <1>6, <2>1 DEF Flow, p
<1>8. Flow(p)'
  BY <1>1, <1>3, <1>4, <1>5, FlowStays DEF Well
<1>9. /\ Alive(e)' /\ Timer(e)' /\ Stream(e)' /\ Probe(e)'
      /\ Alive(p)' /\ Timer(p)' /\ Stream(p)' /\ Probe(p)'
  BY <1>1, <1>2, <1>3, <1>4, AliveStays, TimerStays, StreamStays, ProbeStays DEF Well
<1> QED
  BY <1>2, <1>4, <1>7, <1>8, <1>9, BothWell DEF p

\* A frame is written: a probe, a pong or a datagram.
LEMMA WriteStream ==
  ASSUME HealthInv, Healthy, LinkConstants, NEW e \in Ends, Room(e),
         NEW k \in {"ping", "pong", "data"}, NEW n \in Nat, Put(e, Frame(k, n)),
         k = "ping" => n = 0, k = "pong" => n <= Latency
  PROVE  /\ Frame(k, n) \in Frames /\ Frame(k, n).kind = k
         /\ wire'[e] = Append(wire[e], Frame(k, n)) /\ wire'[Peer(e)] = wire[Peer(e)]
         /\ stuck'[e] = 0 /\ stuck'[Peer(e)] = stuck[Peer(e)]
         /\ Stream(e)' /\ Stream(Peer(e))'
<1>1. Peer(e) \in Ends /\ Peer(e) # e
  BY TwoEnds
<1>2. /\ Well(e) /\ Types /\ Clocks /\ wire[e] \in Seq(Frames) /\ Len(wire[e]) < Window
      /\ Len(wire[e]) \in Nat /\ Latency \in Nat /\ Window \in Nat
  BY WellFacts
<1>3. Well(Peer(e))
  BY <1>1, WellFacts
<1>4. /\ Frame(k, n) \in Frames /\ Frame(k, n).kind = k
      /\ Frame(k, n).n = n /\ Frame(k, n).age = 0
  BY DEF Frame, Frames
<1>5. /\ wire'[e] = Append(wire[e], Frame(k, n)) /\ wire'[Peer(e)] = wire[Peer(e)]
      /\ stuck'[e] = 0 /\ stuck'[Peer(e)] = stuck[Peer(e)]
  BY <1>1, <1>2 DEF Put, Types, Clocks
<1>6. Fresh(Append(wire[e], Frame(k, n)))
  BY <1>2, <1>4, FreshKeeps DEF Well, Stream
<1>7. Len(Append(wire[e], Frame(k, n))) <= Window
  BY <1>2, <1>4
<1>8. Stream(e)'
  BY <1>5, <1>6, <1>7 DEF Stream
<1>9. Stream(Peer(e))'
  BY <1>1, <1>3, <1>5, StreamStays DEF Well
<1> QED
  BY <1>4, <1>5, <1>8, <1>9

LEMMA SendProbeWell ==
  ASSUME HealthInv, Healthy, LinkConstants, Timing, NEW e \in Ends, SendProbe(e)
  PROVE  AllWell'
<1> DEFINE p == Peer(e)
           f == Frame("ping", 0)
<1>1. p \in Ends /\ p # e /\ Peer(p) = e
  BY TwoEnds
<1>2. /\ Well(e) /\ cut = {} /\ Types /\ Clocks /\ q[e] \in Seq(Nat)
      /\ wire[e] \in Seq(Frames) /\ control[e] \in Seq(Nat)
      /\ sent[e] \in Nat /\ silent[e] \in Nat
      /\ Latency \in Nat /\ Timeout \in Nat /\ Interval \in Nat
  BY WellFacts
<1>3. Well(p) /\ wire[p] \in Seq(Frames) /\ control[p] \in Seq(Nat)
  BY <1>1, WellFacts
<1>4. /\ f \in Frames /\ f.kind = "ping"
      /\ wire'[e] = Append(wire[e], f) /\ wire'[p] = wire[p]
      /\ stuck'[e] = 0 /\ stuck'[p] = stuck[p] /\ Stream(e)' /\ Stream(p)'
  BY WriteStream DEF SendProbe
<1> HIDE DEF p, f
<1>5. /\ control' = control /\ last' = last /\ gaps' = gaps /\ seq' = seq /\ q' = q
      /\ dropped' = dropped /\ silent' = silent /\ live' = live /\ phase' = phase /\ cut' = cut
  BY DEF SendProbe, data, receiver, session, broken
<1>6. /\ sent[e] = NoProbe /\ next[e] = 0 /\ sent'[e] = 0 /\ next'[e] = Interval
      /\ sent'[p] = sent[p] /\ next'[p] = next[p]
  BY <1>1, <1>2 DEF SendProbe, ProbeDue, Clocks
<1>7. Timer(e)'
  BY <1>2, <1>4, <1>5, <1>6 DEF Timer, Well, NoProbe
<1>8. Timer(p)'
  BY <1>1, <1>3, <1>4, <1>5, <1>6, TimerStays DEF Well
<1>9. Probe(e)'
  <2>1. Tracked(sent[e], wire[e], control[p], wire[p]) /\ Fresh(wire[e]) /\ Fresh(wire[p])
    BY <1>2, <1>3 DEF Well, Probe, Stream, p
  <2>2. Tracked(0, Append(wire[e], f), control[p], wire[p])
    BY <1>2, <1>3, <1>6, <2>1, TrackedMoves DEF f, Timing
  <2> QED
    BY <1>4, <1>5, <1>6, <2>2 DEF Probe, p
<1>10. Probe(p)'
  <2>1. Tracked(sent[p], wire[p], control[e], wire[e])
    BY <1>1, <1>3 DEF Well, Probe
  <2>2. Tracked(sent[p], wire[p], control[e], Append(wire[e], f))
    BY <1>2, <1>3, <1>4, <2>1, TrackedBeside
  <2> QED
    BY <1>1, <1>4, <1>5, <1>6, <2>2 DEF Probe
<1>11. Flow(e)'
  BY <1>2, <1>4, <1>5, BeatKeeps DEF Flow, Well
<1>12. Flow(p)'
  BY <1>1, <1>3, <1>4, <1>5, FlowStays DEF Well
<1>13. Alive(e)' /\ Alive(p)'
  BY <1>1, <1>2, <1>3, <1>5, AliveStays DEF Well
<1> QED
  BY <1>2, <1>4, <1>5, <1>7, <1>8, <1>9, <1>10, <1>11, <1>12, <1>13, BothWell DEF p

LEMMA SendPongWell ==
  ASSUME HealthInv, Healthy, LinkConstants, Timing, NEW e \in Ends, SendPong(e)
  PROVE  AllWell'
<1> DEFINE p == Peer(e)
           n == Head(control[e])
           f == Frame("pong", n)
<1>1. p \in Ends /\ p # e /\ Peer(p) = e
  BY TwoEnds
<1>2. /\ Well(e) /\ cut = {} /\ Types /\ Clocks /\ q[e] \in Seq(Nat)
      /\ wire[e] \in Seq(Frames) /\ control[e] \in Seq(Nat) /\ control[e] # <<>>
      /\ Latency \in Nat /\ Timeout \in Nat
  BY WellFacts DEF SendPong
<1>3. Well(p) /\ wire[p] \in Seq(Frames) /\ control[p] \in Seq(Nat)
  BY <1>1, WellFacts
<1>4. Tracked(sent[p], wire[p], control[e], wire[e]) /\ Fresh(wire[e]) /\ Fresh(wire[p])
  BY <1>1, <1>2, <1>3 DEF Well, Probe, Stream
<1>5. n \in Nat /\ n <= Latency /\ Tracked(sent[p], wire[p], Tail(control[e]), Append(wire[e], f))
  BY <1>2, <1>3, <1>4, TrackedMoves DEF Timing
<1>6. Room(e) /\ Put(e, f)
  BY DEF SendPong
<1>7. /\ f \in Frames /\ f.kind = "pong"
      /\ wire'[e] = Append(wire[e], f) /\ wire'[p] = wire[p]
      /\ stuck'[e] = 0 /\ stuck'[p] = stuck[p] /\ Stream(e)' /\ Stream(p)'
  <2> HIDE DEF n
  <2> QED
    BY <1>5, <1>6, WriteStream
<1> HIDE DEF p, f, n
<1>8. /\ last' = last /\ gaps' = gaps /\ seq' = seq /\ q' = q /\ dropped' = dropped
      /\ sent' = sent /\ next' = next /\ silent' = silent
      /\ live' = live /\ phase' = phase /\ cut' = cut
  BY DEF SendPong, data, receiver, beat, session, broken
<1>9. control'[e] = Tail(control[e]) /\ control'[p] = control[p]
  BY <1>1, <1>2 DEF SendPong, Types
<1>10. Timer(e)'
  BY <1>2, <1>7, <1>8 DEF Timer, Well
<1>11. Timer(p)'
  BY <1>1, <1>3, <1>7, <1>8, TimerStays DEF Well
<1>12. Probe(p)'
  BY <1>1, <1>5, <1>7, <1>8, <1>9 DEF Probe
<1>13. Probe(e)'
  <2>1. Tracked(sent[e], wire[e], control[p], wire[p])
    BY <1>2 DEF Well, Probe, p
  <2>2. Tracked(sent[e], Append(wire[e], f), control[p], wire[p])
    BY <1>2, <1>3, <1>7, <2>1, TrackedBeside
  <2> QED
    BY <1>7, <1>8, <1>9, <2>2 DEF Probe, p
<1>14. Flow(e)'
  BY <1>2, <1>7, <1>8, BeatKeeps DEF Flow, Well
<1>15. Flow(p)'
  BY <1>1, <1>3, <1>7, <1>8, FlowStays DEF Well
<1>16. Alive(e)' /\ Alive(p)'
  BY <1>1, <1>2, <1>3, <1>8, AliveStays DEF Well
<1> QED
  BY <1>2, <1>7, <1>8, <1>10, <1>11, <1>12, <1>13, <1>14, <1>15, <1>16, BothWell DEF p

LEMMA SendDataWell ==
  ASSUME HealthInv, Healthy, LinkConstants, NEW e \in Ends, SendData(e)
  PROVE  AllWell'
<1> DEFINE p == Peer(e)
           n == Head(q[e])
           f == Frame("data", n)
<1>1. p \in Ends /\ p # e /\ Peer(p) = e
  BY TwoEnds
<1>2. /\ Well(e) /\ cut = {} /\ Types /\ Clocks /\ q[e] \in Seq(Nat) /\ q[e] # <<>>
      /\ wire[e] \in Seq(Frames)
  BY WellFacts DEF SendData
<1>3. Well(p) /\ wire[p] \in Seq(Frames)
  BY <1>1, WellFacts
<1>4. n \in Nat
  BY <1>2
<1>5. Room(e) /\ Put(e, f)
  BY DEF SendData
<1>6. /\ f \in Frames /\ f.kind = "data"
      /\ wire'[e] = Append(wire[e], f) /\ wire'[p] = wire[p]
      /\ stuck'[e] = 0 /\ stuck'[p] = stuck[p] /\ Stream(e)' /\ Stream(p)'
  <2> HIDE DEF n
  <2> QED
    BY <1>4, <1>5, WriteStream
<1>7. /\ last' = last /\ gaps' = gaps /\ seq' = seq /\ control' = control /\ dropped' = dropped
      /\ sent' = sent /\ next' = next /\ silent' = silent
      /\ live' = live /\ phase' = phase /\ cut' = cut
  BY DEF SendData, receiver, beat, session, broken
<1>8. Flow(e)'
  <2>1. /\ InOrder(seq[e], dropped[e], last[p], gaps[p], Tail(q[e]), Append(wire[e], f))
        /\ Covered(seq[e], dropped[e], last[p], Tail(q[e]), Append(wire[e], f))
    BY <1>2, SendKeeps DEF Flow, Well
  <2>2. q'[e] = Tail(q[e])
    BY <1>2 DEF SendData, Types
  <2> HIDE DEF f
  <2> QED
    BY <1>6, <1>7, <2>1, <2>2 DEF Flow
<1> HIDE DEF p, f, n
<1>9. q'[p] = q[p]
  BY <1>1, <1>2 DEF SendData, Types
<1>10. Timer(e)'
  BY <1>2, <1>6, <1>7 DEF Timer, Well
<1>11. Timer(p)'
  BY <1>1, <1>3, <1>6, <1>7, TimerStays DEF Well
<1>12. Probe(e)' /\ Probe(p)'
  <2>1. /\ Tracked(sent[e], wire[e], control[p], wire[p])
        /\ Tracked(sent[p], wire[p], control[e], wire[e])
    BY <1>1, <1>2, <1>3 DEF Well, Probe, p
  <2>2. /\ Tracked(sent[e], Append(wire[e], f), control[p], wire[p])
        /\ Tracked(sent[p], wire[p], control[e], Append(wire[e], f))
    BY <1>2, <1>3, <1>6, <2>1, TrackedBeside
  <2> QED
    BY <1>1, <1>6, <1>7, <2>2 DEF Probe, p
<1>13. Flow(p)'
  BY <1>1, <1>3, <1>6, <1>7, <1>9, FlowStays DEF Well
<1>14. Alive(e)' /\ Alive(p)'
  BY <1>1, <1>2, <1>3, <1>7, AliveStays DEF Well
<1> QED
  BY <1>2, <1>6, <1>7, <1>8, <1>10, <1>11, <1>12, <1>13, <1>14, BothWell DEF p

\* A frame is read: what it does to the stream of the other end.
LEMMA ReadStream ==
  ASSUME HealthInv, Healthy, LinkConstants, NEW e \in Ends, NEW k, Arrived(e, k)
  PROVE  LET p == Peer(e) IN
         /\ wire[p] # <<>> /\ Head(wire[p]).kind = k /\ Arriving(e) = Head(wire[p]).n
         /\ Arriving(e) \in Nat
         /\ wire'[p] = Tail(wire[p]) /\ wire'[e] = wire[e]
         /\ silent'[e] = 0 /\ silent'[p] = silent[p]
         /\ Stream(e)' /\ Stream(p)'
<1> DEFINE p == Peer(e)
<1>1. p \in Ends /\ p # e
  BY TwoEnds
<1>2. Well(e) /\ Types /\ Clocks /\ Latency \in Nat /\ Window \in Nat
  BY WellFacts
<1>3. Well(p) /\ wire[p] \in Seq(Frames) /\ Len(wire[p]) \in Nat
  BY <1>1, WellFacts
<1>4. wire[p] # <<>> /\ Head(wire[p]).kind = k /\ Arriving(e) = Head(wire[p]).n
  BY DEF Arrived, Arriving
<1>5. Arriving(e) \in Nat
  BY <1>2, HeadArrives
<1>6. /\ wire'[p] = Tail(wire[p]) /\ wire'[e] = wire[e]
      /\ silent'[e] = 0 /\ silent'[p] = silent[p]
  <2>1. wire' = [wire EXCEPT ![p] = Tail(@)] /\ silent' = [silent EXCEPT ![e] = 0]
    BY DEF Arrived
  <2>2. wire \in [Ends -> Seq(Frames)] /\ silent \in [Ends -> Nat]
    BY <1>2 DEF Types, Clocks
  <2> HIDE DEF p
  <2> QED
    BY <1>1, <2>1, <2>2
<1>7. Fresh(Tail(wire[p])) /\ Len(Tail(wire[p])) <= Window
  <2>1. Fresh(wire[p]) /\ Len(wire[p]) <= Window
    BY <1>3 DEF Well, Stream
  <2> HIDE DEF p
  <2>2. Len(Tail(wire[p])) = Len(wire[p]) - 1
    BY <1>3, <1>4
  <2> QED
    BY <1>2, <1>3, <1>4, <2>1, <2>2, FreshKeeps
<1> HIDE DEF p
<1>8. Stream(p)'
  BY <1>6, <1>7 DEF Stream
<1>9. Stream(e)'
  BY <1>2, <1>6, StreamStays DEF Well
<1> QED
  BY <1>4, <1>5, <1>6, <1>8, <1>9 DEF p

LEMMA ReadPingWell ==
  ASSUME HealthInv, Healthy, LinkConstants, Timing, NEW e \in Ends, ReadPing(e)
  PROVE  AllWell'
<1> DEFINE p == Peer(e)
<1>1. p \in Ends /\ p # e /\ Peer(p) = e
  BY TwoEnds
<1>2. /\ Well(e) /\ cut = {} /\ Types /\ Clocks /\ wire[e] \in Seq(Frames)
      /\ control[e] \in Seq(Nat) /\ sent[e] \in Nat /\ next[e] \in Nat
      /\ {Latency, Timeout, Interval, Control} \subseteq Nat
  BY WellFacts
<1>3. Well(p) /\ wire[p] \in Seq(Frames) /\ q[p] \in Seq(Nat) /\ control[p] \in Seq(Nat)
  BY <1>1, WellFacts
<1>4. /\ wire[p] # <<>> /\ Head(wire[p]).kind = "ping" /\ Arriving(e) = Head(wire[p]).n
      /\ wire'[p] = Tail(wire[p]) /\ wire'[e] = wire[e]
      /\ silent'[e] = 0 /\ silent'[p] = silent[p] /\ Stream(e)' /\ Stream(p)'
  BY ReadStream DEF ReadPing
<1> HIDE DEF p
<1>5. /\ last' = last /\ gaps' = gaps /\ seq' = seq /\ q' = q /\ dropped' = dropped
      /\ sent' = sent /\ next' = next /\ stuck' = stuck
      /\ live' = live /\ phase' = phase /\ cut' = cut
  BY DEF ReadPing, data, receiver, beat, session, broken
<1>6. /\ control[e] = <<>>
      /\ Tracked(sent[p], Tail(wire[p]), Append(control[e], Arriving(e)), wire[e])
  <2>1. Tracked(sent[p], wire[p], control[e], wire[e]) /\ Fresh(wire[e]) /\ Fresh(wire[p])
    BY <1>1, <1>2, <1>3 DEF Well, Probe, Stream
  <2>2. 2 * Latency < Timeout
    BY DEF Timing
  <2>3. wire[p] # <<>> /\ Head(wire[p]).kind = "ping" =>
          /\ control[e] = <<>>
          /\ Tracked(sent[p], Tail(wire[p]), Append(control[e], Head(wire[p]).n), wire[e])
    BY <1>2, <1>3, <2>1, <2>2, TrackedMoves
  <2> QED
    BY <1>4, <2>3 DEF Arriving, p
<1>7. control'[e] = Append(control[e], Arriving(e)) /\ control'[p] = control[p]
  <2>1. Len(control[e]) < Control
    BY <1>2, <1>6 DEF Timing
  <2> QED
    BY <1>1, <1>2, <2>1 DEF ReadPing, Types
<1>8. Timer(e)'
  BY <1>2, <1>4, <1>5 DEF Timer, Well
<1>9. Timer(p)'
  BY <1>1, <1>3, <1>4, <1>5, TimerStays DEF Well
<1>10. Probe(p)'
  BY <1>1, <1>4, <1>5, <1>6, <1>7 DEF Probe
<1>11. Probe(e)'
  <2>1. Tracked(sent[e], wire[e], control[p], wire[p])
    BY <1>2 DEF Well, Probe, p
  <2>2. Tracked(sent[e], wire[e], control[p], Tail(wire[p]))
    BY <1>2, <1>3, <1>4, <2>1, TrackedBeside
  <2> QED
    BY <1>4, <1>5, <1>7, <2>2 DEF Probe, p
<1>12. Flow(p)'
  <2>1. /\ InOrder(seq[p], dropped[p], last[e], gaps[e], q[p], Tail(wire[p]))
        /\ Covered(seq[p], dropped[p], last[e], q[p], Tail(wire[p]))
    BY <1>1, <1>3, <1>4, BeatReadKeeps DEF Flow, Well
  <2> QED
    BY <1>1, <1>4, <1>5, <2>1 DEF Flow
<1>13. Flow(e)'
  BY <1>2, <1>4, <1>5, FlowStays DEF Well
<1>14. Alive(e)' /\ Alive(p)'
  BY <1>1, <1>2, <1>3, <1>5, AliveStays DEF Well
<1> QED
  BY <1>2, <1>4, <1>5, <1>8, <1>9, <1>10, <1>11, <1>12, <1>13, <1>14, BothWell DEF p

LEMMA ReadPongWell ==
  ASSUME HealthInv, Healthy, LinkConstants, Timing, NEW e \in Ends, ReadPong(e)
  PROVE  AllWell'
<1> DEFINE p == Peer(e)
<1>1. p \in Ends /\ p # e /\ Peer(p) = e
  BY TwoEnds
<1>2. /\ Well(e) /\ cut = {} /\ Types /\ Clocks /\ wire[e] \in Seq(Frames)
      /\ control[e] \in Seq(Nat) /\ sent[e] \in Nat /\ next[e] \in Nat
      /\ {Latency, Timeout, Interval} \subseteq Nat
  BY WellFacts
<1>3. Well(p) /\ wire[p] \in Seq(Frames) /\ q[p] \in Seq(Nat) /\ control[p] \in Seq(Nat)
  BY <1>1, WellFacts
<1>4. /\ wire[p] # <<>> /\ Head(wire[p]).kind = "pong" /\ Arriving(e) = Head(wire[p]).n
      /\ wire'[p] = Tail(wire[p]) /\ wire'[e] = wire[e]
      /\ silent'[e] = 0 /\ silent'[p] = silent[p] /\ Stream(e)' /\ Stream(p)'
  BY ReadStream DEF ReadPong
<1> HIDE DEF p
<1>5. /\ last' = last /\ gaps' = gaps /\ seq' = seq /\ q' = q /\ dropped' = dropped
      /\ control' = control /\ stuck' = stuck
      /\ live' = live /\ phase' = phase /\ cut' = cut
  BY DEF ReadPong, data, receiver, session, broken
<1>6. /\ sent[e] # NoProbe /\ Arriving(e) = sent[e]
      /\ Tracked(NoProbe, wire[e], control[p], Tail(wire[p]))
  <2>1. Tracked(sent[e], wire[e], control[p], wire[p]) /\ Fresh(wire[e]) /\ Fresh(wire[p])
    BY <1>2, <1>3 DEF Well, Probe, Stream, p
  <2>2. 2 * Latency < Timeout
    BY DEF Timing
  <2>3. wire[p] # <<>> /\ Head(wire[p]).kind = "pong" =>
          sent[e] # NoProbe /\ Head(wire[p]).n = sent[e]
          /\ Tracked(NoProbe, wire[e], control[p], Tail(wire[p]))
    BY <1>2, <1>3, <2>1, <2>2, TrackedMoves
  <2> QED
    BY <1>4, <2>3 DEF Arriving, p
<1>7. /\ sent'[e] = NoProbe /\ next'[e] = Interval
      /\ sent'[p] = sent[p] /\ next'[p] = next[p]
  BY <1>1, <1>2, <1>6 DEF ReadPong, Clocks
<1>8. Timer(e)'
  BY <1>2, <1>4, <1>5, <1>7 DEF Timer, Well
<1>9. Timer(p)'
  BY <1>1, <1>3, <1>4, <1>5, <1>7, TimerStays DEF Well
<1>10. Probe(e)'
  BY <1>4, <1>5, <1>6, <1>7 DEF Probe, p
<1>11. Probe(p)'
  <2>1. Tracked(sent[p], wire[p], control[e], wire[e])
    BY <1>1, <1>3 DEF Well, Probe
  <2>2. Tracked(sent[p], Tail(wire[p]), control[e], wire[e])
    BY <1>2, <1>3, <1>4, <2>1, TrackedBeside
  <2> QED
    BY <1>1, <1>4, <1>5, <1>7, <2>2 DEF Probe
<1>12. Flow(p)'
  <2>1. /\ InOrder(seq[p], dropped[p], last[e], gaps[e], q[p], Tail(wire[p]))
        /\ Covered(seq[p], dropped[p], last[e], q[p], Tail(wire[p]))
    BY <1>1, <1>3, <1>4, BeatReadKeeps DEF Flow, Well
  <2> QED
    BY <1>1, <1>4, <1>5, <2>1 DEF Flow
<1>13. Flow(e)'
  BY <1>2, <1>4, <1>5, FlowStays DEF Well
<1>14. Alive(e)' /\ Alive(p)'
  BY <1>1, <1>2, <1>3, <1>5, AliveStays DEF Well
<1> QED
  BY <1>2, <1>4, <1>5, <1>8, <1>9, <1>10, <1>11, <1>12, <1>13, <1>14, BothWell DEF p


\* A datagram is delivered: it is no replay, the reader goes on.
LEMMA ReadDataWell ==
  ASSUME HealthInv, Healthy, LinkConstants, NEW e \in Ends, ReadData(e)
  PROVE  AllWell'
<1> DEFINE p == Peer(e)
<1>1. p \in Ends /\ p # e /\ Peer(p) = e
  BY TwoEnds
<1>2. /\ Well(e) /\ cut = {} /\ Types /\ Clocks /\ wire[e] \in Seq(Frames)
      /\ sent[e] \in Nat /\ next[e] \in Nat /\ last[e] \in Nat /\ Interval \in Nat
  BY WellFacts
<1>3. Well(p) /\ wire[p] \in Seq(Frames) /\ q[p] \in Seq(Nat) /\ seq[p] \in Nat
  BY <1>1, WellFacts
<1>4. /\ wire[p] # <<>> /\ Head(wire[p]).kind = "data" /\ Arriving(e) = Head(wire[p]).n
      /\ wire'[p] = Tail(wire[p]) /\ wire'[e] = wire[e]
      /\ silent'[e] = 0 /\ silent'[p] = silent[p] /\ Stream(e)' /\ Stream(p)'
  BY ReadStream DEF ReadData
<1> HIDE DEF p
<1>5. /\ seq' = seq /\ q' = q /\ dropped' = dropped /\ control' = control
      /\ sent' = sent /\ next' = next /\ stuck' = stuck
      /\ phase' = phase /\ cut' = cut
  BY DEF ReadData, data, beat, broken
<1> DEFINE n == Head(wire[p]).n
           G == gaps[e] + n - last[e] - 1
<1>6. /\ n \in (last[e] + 1)..seq[p]
      /\ InOrder(seq[p], dropped[p], n, G, q[p], Tail(wire[p]))
      /\ Covered(seq[p], dropped[p], n, q[p], Tail(wire[p]))
  <2>1. /\ InOrder(seq[p], dropped[p], last[e], gaps[e], q[p], wire[p])
        /\ Covered(seq[p], dropped[p], last[e], q[p], wire[p])
    BY <1>1, <1>3 DEF Flow, Well
  <2>2. Arrives(wire[p], n)
    BY <1>4 DEF Arrives
  <2> HIDE DEF n
  <2> DEFINE W == wire[p]
             S == seq[p]
             M == dropped[p]
             L == last[e]
             H == gaps[e]
             Q == q[p]
  <2>3. /\ InOrder(S, M, L, H, Q, W) /\ Covered(S, M, L, Q, W) /\ Arrives(W, n)
        /\ Q \in Seq(Nat) /\ W \in Seq(Frames)
    BY <1>3, <2>1, <2>2
  <2> HIDE DEF W, S, M, L, H, Q
  <2>4. /\ n \in (L + 1)..S
        /\ InOrder(S, M, n, H + n - L - 1, Q, Tail(W))
        /\ Covered(S, M, n, Q, Tail(W))
    BY <2>3, DeliverKeeps
  <2> QED
    BY <2>4 DEF W, S, M, L, H, Q
<1>7. ~(Arriving(e) <= last[e])
  <2> HIDE DEF n
  <2>1. n \in Nat /\ n > last[e]
    BY <1>2, <1>3, <1>6
  <2>2. Arriving(e) = n
    BY <1>4 DEF n
  <2> QED
    BY <1>2, <2>1, <2>2
<1>8. /\ live' = live /\ last' = [last EXCEPT ![e] = Arriving(e)]
      /\ gaps' = [gaps EXCEPT ![e] = @ + Arriving(e) - last[e] - 1]
  BY <1>7 DEF ReadData
<1>9. /\ last'[e] = n /\ last'[p] = last[p] /\ gaps'[e] = G /\ gaps'[p] = gaps[p]
  BY <1>1, <1>2, <1>4, <1>8 DEF Types
<1> HIDE DEF n, G
<1>10. Timer(e)'
  BY <1>2, <1>4, <1>5 DEF Timer, Well
<1>11. Timer(p)'
  BY <1>1, <1>3, <1>4, <1>5, TimerStays DEF Well
<1>12. Probe(e)'
  <2>1. Tracked(sent[e], wire[e], control[p], wire[p])
    BY <1>2 DEF Well, Probe, p
  <2>2. Tracked(sent[e], wire[e], control[p], Tail(wire[p]))
    BY <1>2, <1>3, <1>4, <2>1, TrackedBeside
  <2> QED
    BY <1>4, <1>5, <2>2 DEF Probe, p
<1>13. Probe(p)'
  <2>1. Tracked(sent[p], wire[p], control[e], wire[e])
    BY <1>1, <1>3 DEF Well, Probe
  <2>2. Tracked(sent[p], Tail(wire[p]), control[e], wire[e])
    BY <1>2, <1>3, <1>4, <2>1, TrackedBeside
  <2> QED
    BY <1>1, <1>4, <1>5, <2>2 DEF Probe
<1>14. Flow(p)'
  BY <1>1, <1>4, <1>5, <1>6, <1>9 DEF Flow
<1>15. Flow(e)'
  BY <1>2, <1>4, <1>5, <1>9, FlowStays DEF Well, p
<1>16. Alive(e)' /\ Alive(p)'
  BY <1>1, <1>2, <1>3, <1>5, <1>8, AliveStays DEF Well
<1> QED
  BY <1>2, <1>4, <1>5, <1>10, <1>11, <1>12, <1>13, <1>14, <1>15, <1>16, BothWell DEF p

\* The open probe of a healthy link is younger than the timeout, and the
\* reader has heard something.
LEMMA InTime ==
  ASSUME HealthInv, Healthy, LinkConstants, Timing, NEW e \in Ends
  PROVE  /\ sent[e] = NoProbe \/ sent[e] <= 2 * Latency
         /\ sent[e] # Timeout /\ silent[e] < ReadLimit
<1>1. /\ Well(e) /\ wire[e] \in Seq(Frames) /\ sent[e] \in Nat /\ next[e] \in Nat
      /\ silent[e] \in Nat /\ {Latency, Interval, Timeout, ReadLimit} \subseteq Nat
  BY WellFacts
<1>2. /\ Peer(e) \in Ends /\ Well(Peer(e))
      /\ wire[Peer(e)] \in Seq(Frames) /\ control[Peer(e)] \in Seq(Nat)
  BY TwoEnds, WellFacts
<1>3. /\ Tracked(sent[e], wire[e], control[Peer(e)], wire[Peer(e)])
      /\ Fresh(wire[e]) /\ Fresh(wire[Peer(e)])
  BY <1>1, <1>2 DEF Well, Probe, Stream
<1>4. 2 * Latency < Timeout /\ Interval + 2 * Latency < ReadLimit
  BY DEF Timing
<1>5. sent[e] = NoProbe \/ sent[e] <= 2 * Latency
  BY <1>1, <1>2, <1>3, <1>4, TrackedInTime
<1>6. IF sent[e] = NoProbe THEN silent[e] + next[e] <= Interval
                           ELSE silent[e] <= Interval + sent[e]
  BY <1>1 DEF Well, Timer
<1>7. NoProbe = Timeout + 1
  BY DEF NoProbe
<1>8. sent[e] # Timeout
  BY <1>1, <1>4, <1>5, <1>7
<1>9. silent[e] < ReadLimit
  <2> DEFINE S == sent[e]
             N == silent[e]
             X == next[e]
  <2>1. /\ S \in Nat /\ N \in Nat /\ X \in Nat
        /\ Latency \in Nat /\ Interval \in Nat /\ ReadLimit \in Nat
    BY <1>1
  <2>2. \/ N + X <= Interval
        \/ N <= Interval + S /\ S <= 2 * Latency
    BY <1>5, <1>6
  <2> HIDE DEF S, N, X
  <2>3. N < ReadLimit
    BY <1>4, <2>1, <2>2
  <2> QED
    BY <2>3 DEF N
<1> QED
  BY <1>5, <1>8, <1>9

\* Nothing ends at an end of a healthy link.
LEMMA NothingEnds ==
  ASSUME HealthInv, Healthy, LinkConstants, Timing, NEW e \in Ends
  PROVE  MustEnd(e) = {} /\ ~End(e)
<1>1. /\ Well(e) /\ ~Gone(e) /\ stuck[e] = 0
      /\ live[e] = Workers /\ phase[e] = "open"
  BY WellFacts DEF Well, Alive, Timer
<1>2. sent[e] # Timeout /\ silent[e] # ReadLimit /\ stuck[e] # WriteLimit
  <2>1. silent[e] \in Nat /\ ReadLimit \in Nat /\ WriteLimit \in Nat
    BY WellFacts
  <2>2. sent[e] # Timeout /\ silent[e] < ReadLimit
    BY InTime
  <2> QED
    BY <1>1, <2>1, <2>2 DEF Timing
<1>3. MustEnd(e) = {}
  BY <1>1, <1>2 DEF MustEnd, Expired
<1>4. Unblocked(e) = {}
  BY <1>1 DEF Unblocked
<1>5. ~WorkerEnds(e)
  BY <1>3 DEF WorkerEnds
<1>6. ~Cancel(e) /\ ~Close(e) /\ ~Join(e)
  BY <1>1 DEF Cancel, Close, Join
<1>7. ~Interrupted(e)
  BY <1>4 DEF Interrupted
<1> QED
  BY <1>3, <1>5, <1>6, <1>7 DEF End

\* A tick in which no stream is full: both ends have written what they had.
LEMMA TickTimer ==
  ASSUME HealthInv, Healthy, LinkConstants, Timing, Tick, ~jammed', NEW e \in Ends
  PROVE  /\ control[e] = <<>> /\ control'[e] = <<>>
         /\ wire[e] # <<>> => Head(wire[e]).age # Latency
         /\ wire'[e] = [i \in 1..Len(wire[e]) |-> Older(wire[e][i])]
         /\ sent'[e] = IF sent[e] = NoProbe THEN NoProbe ELSE sent[e] + 1
         /\ Timer(e)'
<1>1. /\ Well(e) /\ Clocks /\ Types /\ (Room(e) <=> Len(wire[e]) < Window)
      /\ ~Gone(e) /\ cut = {} /\ Len(wire[e]) \in Nat /\ Window \in Nat
      /\ control[e] \in Seq(Nat) /\ phase[e] = "open"
  BY WellFacts DEF Well, Alive
<1>2. /\ sent[e] \in Nat /\ next[e] \in Nat /\ silent[e] \in Nat
      /\ {Latency, Interval, Timeout, ReadLimit} \subseteq Nat
  BY WellFacts
<1>3. Room(e)
  <2>1. Len(wire[e]) # Window
    BY DEF Tick
  <2>2. Len(wire[e]) <= Window
    BY WellFacts DEF Well, Stream
  <2> QED
    BY <1>1, <2>1, <2>2, WellFacts
<1>4. ~ProbeDue(e) /\ control[e] = <<>>
  <2>1. ~Busy(e)
    BY DEF Tick
  <2> QED
    BY <1>1, <1>3, <2>1 DEF Busy, Waiting
<1>5. control'[e] = <<>>
  <2>1. control'[e] = [i \in 1..Len(control[e]) |-> Up(control[e][i], NoProbe)]
    BY DEF Tick
  <2>2. 1..Len(control[e]) = {}
    BY <1>4
  <2> QED
    BY <1>4, <2>1, <2>2
<1>6. wire[e] # <<>> => Head(wire[e]).age # Latency
  <2>1. ~Overdue(e)
    BY DEF Tick
  <2>2. phase[Peer(e)] = "open"
    BY TwoEnds, WellFacts DEF Well, Alive
  <2> QED
    BY <1>1, <2>1, <2>2 DEF Overdue
<1>7. wire'[e] = [i \in 1..Len(wire[e]) |-> Older(wire[e][i])]
  BY DEF Tick
<1>8. /\ sent'[e] = IF sent[e] # NoProbe THEN Up(sent[e], Timeout) ELSE sent[e]
      /\ next'[e] = IF next[e] > 0 THEN next[e] - 1 ELSE next[e]
      /\ stuck'[e] = stuck[e] /\ silent'[e] = Up(silent[e], ReadLimit)
  BY <1>1, <1>3 DEF Tick, Opened
<1>9. sent[e] = NoProbe \/ sent[e] <= 2 * Latency
  BY InTime
<1>10. sent'[e] = IF sent[e] = NoProbe THEN NoProbe ELSE sent[e] + 1
  BY <1>2, <1>8, <1>9 DEF Up, Timing
<1>11. Timer(e)'
  <2>1. silent'[e] <= silent[e] + 1
    BY <1>2, <1>8 DEF Up
  <2>2. silent'[e] \in Nat
    BY <1>2, <1>8 DEF Up
  <2>3. Timer(e)
    BY <1>1 DEF Well
  <2>4. CASE sent[e] = NoProbe
    <3>1. next[e] > 0 /\ next'[e] = next[e] - 1 /\ sent'[e] = NoProbe
      BY <1>2, <1>4, <1>8, <2>4 DEF ProbeDue
    <3> QED
      BY <1>2, <1>8, <2>1, <2>2, <2>3, <2>4, <3>1 DEF Timer
  <2>5. CASE sent[e] # NoProbe
    <3>1. sent'[e] = sent[e] + 1 /\ sent'[e] # NoProbe
      BY <1>2, <1>9, <1>10, <2>5 DEF Timing, NoProbe
    <3>2. next'[e] <= Interval
      BY <1>2, <1>8, <2>3 DEF Timer
    <3>3. silent'[e] <= Interval + sent'[e]
      BY <1>2, <2>1, <2>2, <2>3, <2>5, <3>1 DEF Timer
    <3> QED
      BY <1>8, <2>3, <3>1, <3>2, <3>3 DEF Timer
  <2> QED
    BY <2>4, <2>5
<1> QED
  BY <1>4, <1>5, <1>6, <1>7, <1>10, <1>11

LEMMA TickEnd ==
  ASSUME HealthInv, Healthy, LinkConstants, Timing, Tick, ~jammed', NEW e \in Ends
  PROVE  Well(e)'
<1> DEFINE p == Peer(e)
           W == wire[e]
           V == wire[p]
           X == [i \in 1..Len(W) |-> Older(W[i])]
           Y == [i \in 1..Len(V) |-> Older(V[i])]
<1>1. p \in Ends
  BY TwoEnds
<1>2. /\ Well(e) /\ W \in Seq(Frames) /\ Len(W) \in Nat /\ q[e] \in Seq(Nat)
      /\ {Latency, Timeout} \subseteq Nat /\ 2 * Latency < Timeout
  BY WellFacts DEF Timing
<1>3. Well(p) /\ V \in Seq(Frames)
  BY <1>1, WellFacts
<1>4. /\ W # <<>> => Head(W).age # Latency
      /\ wire'[e] = X /\ Timer(e)'
      /\ sent'[e] = IF sent[e] = NoProbe THEN NoProbe ELSE sent[e] + 1
  BY TickTimer
<1>5. /\ V # <<>> => Head(V).age # Latency
      /\ wire'[p] = Y /\ control[p] = <<>> /\ control'[p] = <<>>
  BY <1>1, TickTimer
<1>6. /\ seq' = seq /\ dropped' = dropped /\ q' = q /\ last' = last /\ gaps' = gaps
      /\ live' = live /\ phase' = phase
  BY DEF Tick, data, receiver, session
<1>7. Fresh(W) /\ Fresh(V) /\ Len(W) <= Window
  BY <1>2, <1>3 DEF Well, Stream
<1>8. Tracked(sent[e], W, <<>>, V)
  BY <1>2, <1>5 DEF Well, Probe
<1>9. Len(X) = Len(W) /\ Fresh(X)
  <2> HIDE DEF W, X
  <2>1. X = [i \in 1..Len(W) |-> Older(W[i])]
    BY DEF X
  <2> QED
    BY <1>2, <1>4, <1>7, <2>1, FreshAges
<1>10. Tracked(sent'[e], X, <<>>, Y)
  <2> HIDE DEF W, V
  <2>1. IF sent[e] = NoProbe THEN Tracked(sent[e], X, <<>>, Y) ELSE Tracked(sent[e] + 1, X, <<>>, Y)
    BY <1>2, <1>3, <1>4, <1>5, <1>7, <1>8, TrackedAges
  <2> HIDE DEF X, Y
  <2> QED
    BY <1>4, <2>1
<1>11. Flow(e)'
  <2>1. \A i \in 1..Len(W) : X[i].kind = W[i].kind /\ (Carries(W, i) => X[i].n = W[i].n)
    <3>1. \A f : Older(f).kind = f.kind /\ (f.kind = "data" => Older(f).n = f.n)
      BY DEF Older
    <3> HIDE DEF W
    <3> QED
      BY <3>1 DEF Carries
  <2>2. /\ InOrder(seq[e], dropped[e], last[p], gaps[p], q[e], W)
        /\ Covered(seq[e], dropped[e], last[p], q[e], W)
    BY <1>2 DEF Well, Flow
  <2> HIDE DEF p, W, X
  <2>3. /\ InOrder(seq[e], dropped[e], last[p], gaps[p], q[e], X)
        /\ Covered(seq[e], dropped[e], last[p], q[e], X)
    BY <1>2, <1>9, <2>1, <2>2, AgeKeeps
  <2> QED
    BY <1>4, <1>6, <2>3 DEF Flow, p
<1> HIDE DEF X, Y
<1>12. Stream(e)'
  BY <1>4, <1>7, <1>9 DEF Stream
<1>13. Probe(e)'
  BY <1>4, <1>5, <1>10 DEF Probe
<1>14. Alive(e)'
  BY <1>2, <1>6, AliveStays DEF Well
<1> QED
  BY <1>4, <1>11, <1>12, <1>13, <1>14 DEF Well

\* Clocks and counters keep their types, and what failed has failed.
LEMMA ClocksStep ==
  ASSUME Types, Clocks, [Next]_vars, LinkConstants
  PROVE  Clocks' /\ (Healthy' => Healthy)
<1> DEFINE C == sent' \in [Ends -> Nat] /\ next' \in [Ends -> Nat]
                /\ stuck' \in [Ends -> Nat] /\ silent' \in [Ends -> Nat]
           B == faults' = faults /\ jammed' = jammed
<1>1. {Interval, Timeout, ReadLimit, WriteLimit} \subseteq Nat /\ NoProbe \in Nat
  BY DEF LinkConstants, NoProbe
<1>2. B /\ C => Clocks' /\ (Healthy' => Healthy)
  BY DEF Clocks, Healthy
<1>3. CASE UNCHANGED vars
  BY <1>2, <1>3 DEF vars, beat, limits, broken, Clocks
<1>4. CASE Tick
  <2>1. \A n \in Nat, m \in Nat : Up(n, m) \in Nat
    BY DEF Up
  <2>2. C
    <3>1. sent' \in [Ends -> Nat]
      BY <1>1, <1>4, <2>1 DEF Tick, Clocks
    <3>2. next' \in [Ends -> Nat]
      BY <1>4 DEF Tick, Clocks
    <3>3. stuck' \in [Ends -> Nat]
      BY <1>1, <1>4, <2>1 DEF Tick, Clocks
    <3>4. silent' \in [Ends -> Nat]
      BY <1>1, <1>4, <2>1 DEF Tick, Clocks
    <3> QED
      BY <3>1, <3>2, <3>3, <3>4
  <2>3. faults' = faults /\ jammed' \in BOOLEAN /\ (jammed => jammed')
    BY <1>4 DEF Tick, Clocks
  <2> QED
    BY <2>2, <2>3 DEF Clocks, Healthy
<1>5. ASSUME NEW e \in Ends, Receive(e) \/ Stale(e) \/ WorkerEnds(e) \/ Cancel(e) \/ Close(e)
                             \/ Interrupted(e)
      PROVE  B /\ C
  BY <1>5 DEF Receive, Stale, WorkerEnds, Cancel, Close, Interrupted, beat, limits, broken, Clocks
<1>6. ASSUME NEW e \in Ends, SendProbe(e) \/ SendPong(e) \/ SendData(e)
      PROVE  B /\ C
  <2>1. B /\ silent' = silent /\ stuck' = [stuck EXCEPT ![e] = 0]
    BY <1>6 DEF SendProbe, SendPong, SendData, Put, broken
  <2>2. \/ sent' = sent /\ next' = next
        \/ sent' = [sent EXCEPT ![e] = 0] /\ next' = [next EXCEPT ![e] = Interval]
    BY <1>6 DEF SendProbe, SendPong, SendData, beat
  <2> QED
    BY <1>1, <2>1, <2>2 DEF Clocks
<1>7. ASSUME NEW e \in Ends, Read(e)
      PROVE  B /\ C
  <2>1. B /\ stuck' = stuck /\ silent' = [silent EXCEPT ![e] = 0]
    BY <1>7 DEF Read, ReadPing, ReadPong, ReadData, Arrived, broken
  <2>2. sent' \in [Ends -> Nat] /\ next' \in [Ends -> Nat]
    BY <1>1, <1>7 DEF Read, ReadPing, ReadPong, ReadData, beat, Clocks
  <2> QED
    BY <2>1, <2>2 DEF Clocks
<1>8. ASSUME NEW e \in Ends, Join(e)
      PROVE  B /\ C
  BY <1>1, <1>8 DEF Join, broken, Clocks
<1>9. ASSUME NEW e \in Ends, UdpFails(e) \/ Cut(e)
      PROVE  Clocks' /\ ~Healthy'
  <2>1. faults' = faults + 1 /\ jammed' = jammed /\ sent' = sent /\ next' = next
        /\ stuck' = stuck /\ silent' = silent
    BY <1>9 DEF UdpFails, Cut, beat, limits
  <2> QED
    BY <2>1 DEF Clocks, Healthy
<1> HIDE DEF B, C
<1> QED
  BY <1>2, <1>3, <1>4, <1>5, <1>6, <1>7, <1>8, <1>9 DEF Next, Write, End

\* Whatever happens on a healthy link that leaves it healthy leaves it well.
LEMMA HealthStep ==
  ASSUME HealthInv, [Next]_vars, LinkConstants, Timing
  PROVE  HealthInv'
<1>1. Types' /\ Clocks' /\ (Healthy' => Healthy)
  BY TypesStep, ClocksStep DEF HealthInv
<1> SUFFICES ASSUME Healthy'
             PROVE  AllWell'
  BY <1>1 DEF HealthInv
<1>2. Healthy
  BY <1>1
<1>3. CASE UNCHANGED vars
  <2>1. AllWell
    BY <1>2 DEF HealthInv
  <2> QED
    BY <1>3, <2>1 DEF vars, data, receiver, beat, limits, session, broken, AllWell, Well,
       Alive, Timer, Stream, Probe, Flow
<1>4. CASE Tick
  <2>1. cut' = {}
    BY <1>2, <1>4 DEF Tick, HealthInv, AllWell
  <2>2. ~jammed'
    BY DEF Healthy
  <2>3. \A e \in Ends : Well(e)'
    BY <1>2, <1>4, <2>2, TickEnd
  <2> QED
    BY <2>1, <2>3 DEF AllWell
<1>5. ASSUME NEW e \in Ends, UdpFails(e) \/ Cut(e)
      PROVE  FALSE
  <2>1. faults' = faults + 1 /\ faults = 0 /\ faults' = 0
    BY <1>2, <1>5 DEF UdpFails, Cut, Healthy
  <2> QED
    BY <2>1
<1>6. ASSUME NEW e \in Ends, End(e)
      PROVE  FALSE
  BY <1>2, <1>6, NothingEnds
<1>7. ASSUME NEW e \in Ends, Receive(e) \/ Read(e) \/ Write(e)
      PROVE  AllWell'
  BY <1>2, <1>7, ReceiveWell, ReadPingWell, ReadPongWell, ReadDataWell, SendProbeWell,
     SendPongWell, SendDataWell, StaleWell DEF Read, Write
<1> QED
  BY <1>3, <1>4, <1>5, <1>6, <1>7 DEF Next

LEMMA HealthInit ==
  ASSUME Init, LinkConstants
  PROVE  HealthInv
<1>1. NoProbe \in Nat /\ {Interval, Window, Latency} \subseteq Nat
  BY DEF LinkConstants, NoProbe
<1>2. Types
  BY DEF Init, Types, Ends
<1>3. Clocks
  BY <1>1 DEF Init, Clocks
<1>4. ASSUME NEW e \in Ends
      PROVE  Well(e)
  <2>1. Peer(e) \in Ends
    BY TwoEnds
  <2>2. /\ seq[e] = 0 /\ q[e] = <<>> /\ dropped[e] = {} /\ wire[e] = <<>>
        /\ last[Peer(e)] = 0 /\ gaps[Peer(e)] = 0
        /\ wire[Peer(e)] = <<>> /\ control[Peer(e)] = <<>>
        /\ sent[e] = NoProbe /\ next[e] = 0 /\ stuck[e] = 0 /\ silent[e] = 0
        /\ live[e] = Workers /\ phase[e] = "open"
    BY <2>1 DEF Init
  <2>3. Alive(e) /\ Timer(e)
    BY <1>1, <2>2 DEF Alive, Timer
  <2>4. Stream(e) /\ Probe(e)
    BY <1>1, <2>2 DEF Stream, Fresh, Probe, Tracked, None
  <2>5. Flow(e)
    <3>1. Cardinality({m \in {} : m < 0}) = 0
      <4>1. {m \in {} : m < 0} = {}
        OBVIOUS
      <4> QED
        BY <4>1, FS_EmptySet
    <3>2. Counted(0, {}, 0, 0)
      BY <3>1 DEF Counted
    <3> QED
      BY <2>2, <3>2 DEF Flow, InOrder, Queued, Streamed, Before, Covered
  <2> QED
    BY <2>3, <2>4, <2>5 DEF Well
<1>5. cut = {}
  BY DEF Init
<1> QED
  BY <1>2, <1>3, <1>4, <1>5 DEF HealthInv, AllWell

(* HealthyLinkStays, for every latency with a round trip under the          *)
(* heartbeat's timeout and, with the interval, under the read deadline: a  *)
(* link on which nothing fails and no stream is full for a whole tick      *)
(* keeps all its workers, whatever is sent and however it interleaves      *)
(* (heartbeat.probe, ack and watch; the deadlines of writeFrames and       *)
(* readFrames; readFrames' check for replays).                             *)
THEOREM LinkHealthyStays ==
  ASSUME Timing
  PROVE  Spec => []HealthyLinkStays
<1>1. Init => HealthInv
  BY HealthInit, LinkConstants
<1>2. HealthInv /\ [Next]_vars => HealthInv'
  BY HealthStep, LinkConstants, Timing
<1>3. HealthInv => HealthyLinkStays
  BY DEF HealthInv, AllWell, Well, Alive, Healthy, HealthyLinkStays
<1> QED
  BY <1>1, <1>2, <1>3, PTL DEF Spec
=============================================================================
