------------------------ MODULE ImportLedger_proofs ------------------------
(***************************************************************************)
(* What "order by created_at desc, limit 1" returns, for every set of rows *)
(* whose stamps are bounded.                                               *)
(***************************************************************************)
EXTENDS ImportLedger, TLAPS, WellFoundedInduction

\* A nonempty set of naturals below a bound has a greatest member.
LEMMA BoundedHasGreatest ==
    ASSUME NEW n \in Nat, NEW S \in SUBSET (0..n), S # {}
    PROVE  \E x \in S : \A y \in S : y <= x
<1> DEFINE D == {n - y : y \in S}
<1>0. \A y \in S : y \in Nat /\ n - y \in Nat
    BY SMT
<1>1. D \subseteq Nat /\ D # {}
    BY <1>0
<1>2. PICK d \in D : \A e \in D : <<e, d>> \notin OpToRel(<, Nat)
    BY <1>1, NatLessThanWellFounded, WFMin, Zenon
<1>3. PICK x \in S : d = n - x
    OBVIOUS
<1>4. ASSUME NEW y \in S PROVE y <= x
    <2>1. n - y \in D /\ n - x \in D
        BY <1>3
    <2>2. <<n - y, n - x>> \notin OpToRel(<, Nat)
        BY <2>1, <1>2, <1>3
    <2>3. n - y \in Nat /\ n - x \in Nat
        OBVIOUS
    <2>4. ~(n - y < n - x)
        BY <2>2, <2>3 DEF OpToRel
    <2> QED
        BY <2>4
<1> QED
    BY <1>4

\* The row that is answered is one of the rows, and none is newer.
LEMMA NewestIsGreatest ==
    ASSUME NEW n \in Nat, NEW rows, rows # {}, \A row \in rows : row.at \in 0..n
    PROVE  Newest(rows) \in rows /\ \A other \in rows : other.at <= Newest(rows).at
<1> DEFINE S == {row.at : row \in rows}
<1>1. PICK x \in S : \A y \in S : y <= x
    <2>1. S \in SUBSET (0..n) /\ S # {}
        OBVIOUS
    <2> QED
        BY <2>1, BoundedHasGreatest, Zenon
<1>2. PICK row \in rows : row.at = x
    OBVIOUS
<1>3. \A other \in rows : other.at <= row.at
    BY <1>1, <1>2
<1> QED
    BY <1>3, Zenon DEF Newest

\* What an empty or nonempty stream answers as its latest import.
LEMMA NewestAtIs ==
    ASSUME NEW n \in Nat, NEW rows, \A row \in rows : row.at \in 0..n
    PROVE  /\ rows = {} => NewestAt(rows) = NoRow
           /\ rows # {} => \E row \in rows : row.at = NewestAt(rows)
           /\ \A row \in rows : row.at <= NewestAt(rows)
           /\ NewestAt(rows) \in 0..n
<1>1. CASE rows = {}
    BY <1>1 DEF NewestAt, NoRow
<1>2. CASE rows # {}
    <2>1. Newest(rows) \in rows /\ \A other \in rows : other.at <= Newest(rows).at
        BY <1>2, NewestIsGreatest
    <2> QED
        BY <1>2, <2>1 DEF NewestAt
<1> QED
    BY <1>1, <1>2
=============================================================================
