------------------------------ MODULE Ranking -------------------------------
(***************************************************************************)
(* src/path_ranking.py: the persistent order of the client's paths and the *)
(* losses of each.  A path with three losses is excluded.                  *)
(***************************************************************************)
EXTENDS Naturals, Sequences

CONSTANTS Ids,        \* the identifiers of CANDIDATES, in the source's order
          NoRanking   \* ranking.json is missing or was made for other paths

Paths == {Ids[i] : i \in DOMAIN Ids}
MaxLosses == 3

ASSUME IdsAssumption == /\ Ids \in Seq(Paths) /\ Ids # <<>>
                        /\ \A i, j \in DOMAIN Ids : Ids[i] = Ids[j] => i = j

Positions == DOMAIN Ids
Orders   == {o \in [Positions -> Paths] : \A i, j \in Positions :
                                            o[i] = o[j] => i = j}
Rankings == [order: Orders, losses: [Paths -> 0..MaxLosses]]

Place(o, p) == CHOOSE i \in Positions : o[i] = p

\* Descending score: the paths that answered, in any order of their speeds,
\* then the others, which all score 0 and keep the order of Ids.
OrdersOf(ok) ==
  {o \in Orders : \A p \in Paths, q \in Paths \ ok :
     p \in ok \/ (p # q /\ Place(Ids, p) < Place(Ids, q)) =>
       Place(o, p) < Place(o, q)}

\* build: a new measurement of every path.
Build(ok, o) == [order |-> o, losses |-> [p \in Paths |-> IF p \in ok THEN 0 ELSE 1]]
\* bootstrap: no measurement, the Russian ingress first, as Ids has it.
Bootstrap == [order |-> Ids, losses |-> [p \in Paths |-> 0]]

Lose(r, p) == [r EXCEPT !.losses[p] = IF @ < MaxLosses THEN @ + 1 ELSE @]

Candidates(r) == {p \in Paths : r.losses[p] < MaxLosses}

FirstOf(r, S) == CHOOSE p \in S : \A q \in S : Place(r.order, p) <= Place(r.order, q)
\* next_after, and the first candidate when p was the last of the order.
NextAfter(r, p, none) ==
  LET rest == {q \in Candidates(r) : Place(r.order, q) > Place(r.order, p)} IN
    IF rest # {} THEN FirstOf(r, rest)
    ELSE IF Candidates(r) # {} THEN FirstOf(r, Candidates(r)) ELSE none
=============================================================================
