--------------------------- MODULE ServicesProofs ---------------------------
(***************************************************************************)
(* The projected inventory, favourites and views, the wire and web push, for*)
(* any number of users, trades, marks, documents, browsers and tasks.  The *)
(* services share no state; each section has an invariant of its own.      *)
(***************************************************************************)
EXTENDS Services, ChatProofs, SignInProofs, Sums

-----------------------------------------------------------------------------
(***************************************************************************)
(* The projection: sums over legs                                          *)
(***************************************************************************)
\* Of the legs of each trade d in D only those of two givers count, u and p[d];
\* h[d] is what they come to.
TwoGivers(D, U, f, h, p, u) ==
    /\ IsFiniteSet(D) /\ IsFiniteSet(U) /\ u \in U
    /\ \A leg \in D \X U : f[leg] \in Int
    /\ \A d \in D : /\ p[d] \in U \ {u}
                    /\ h[d] = f[<<d, u>>] + f[<<d, p[d]>>]
                    /\ \A g \in U \ {u, p[d]} : f[<<d, g>>] = 0

\* Then the sum over the legs is one over the trades.
LEMMA SumByTrade ==
    ASSUME NEW D, NEW U, NEW f, NEW h, NEW p, NEW u, TwoGivers(D, U, f, h, p, u)
    PROVE  SumFunctionOnSet(f, D \X U) = SumFunctionOnSet(h, D)
<1> USE DEF TwoGivers
<1> DEFINE Bad == {T \in SUBSET D : SumFunctionOnSet(f, T \X U) # SumFunctionOnSet(h, T)}
<1> SUFFICES ASSUME Bad # {} PROVE FALSE
  OBVIOUS
<1>1. PICK A \in Bad : \A B \in Bad : B \subseteq A => B = A
  <2>1. Bad \in SUBSET SUBSET D
    OBVIOUS
  <2> HIDE DEF Bad
  <2> QED BY <2>1, SmallestSubset
<1>2. A \in SUBSET D /\ IsFiniteSet(A) /\ IsFiniteSet(A \X U)
      /\ SumFunctionOnSet(f, A \X U) # SumFunctionOnSet(h, A)
  <2>1. A \in SUBSET D
    BY <1>1
  <2>2. IsFiniteSet(A)
    BY <2>1, FS_Subset
  <2>3. IsFiniteSet(A \X U)
    BY <2>2, FS_Product
  <2> QED BY <1>1, <2>1, <2>2, <2>3
<1>3. CASE A = {}
  <2>1. A \X U = {}
    BY <1>3
  <2>2. SumFunctionOnSet(f, {}) = 0 /\ SumFunctionOnSet(h, {}) = 0
    BY SumUnfolds, FS_EmptySet
  <2> QED BY <1>2, <1>3, <2>1, <2>2
<1>4. CASE A # {}
  <2>1. PICK x \in A : TRUE
    BY <1>4
  <2> DEFINE B == A \ {x}
             X == {x} \X U
             a == <<x, u>>
             b == <<x, p[x]>>
  <2>2. B \notin Bad
    BY <1>1, <2>1
  <2> HIDE DEF Bad
  <2>3. x \in D /\ B \in SUBSET D /\ B \X U \in SUBSET (A \X U) /\ (A \X U) \ (B \X U) = X
    BY <1>2, <2>1
  <2>4. a \in X /\ b \in X \ {a} /\ \A leg \in (X \ {a}) \ {b} : f[leg] = 0
    BY <2>3
  <2>5. X \subseteq A \X U /\ \A leg \in X : f[leg] \in Int
    BY <1>2, <2>1
  <2>6. IsFiniteSet(X) /\ IsFiniteSet(X \ {a}) /\ IsFiniteSet((X \ {a}) \ {b})
    BY <1>2, <2>5, FS_Subset
  <2>7. h[x] = f[a] + f[b] /\ f[a] \in Int /\ f[b] \in Int
    BY <2>3, <2>4, <2>5
  <2>8. \A d \in A : h[d] \in Int
    <3> TAKE d \in A
    <3>1. d \in D /\ <<d, u>> \in D \X U /\ <<d, p[d]>> \in D \X U
      BY <1>2
    <3> QED BY <3>1
  <2> HIDE DEF X, a, b
  <2>9. SumFunctionOnSet(f, X) = f[a] + f[b]
    <3>1. SumFunctionOnSet(f, X) = f[a] + SumFunctionOnSet(f, X \ {a})
      BY <2>4, <2>5, <2>6, SumTakesOut
    <3>2. SumFunctionOnSet(f, X \ {a}) = f[b] + SumFunctionOnSet(f, (X \ {a}) \ {b})
      <4>1. \A leg \in X \ {a} : f[leg] \in Int
        BY <2>5
      <4> DEFINE Y == X \ {a}
      <4>2. b \in Y /\ IsFiniteSet(Y) /\ \A leg \in Y : f[leg] \in Int
        BY <2>4, <2>6, <4>1
      <4> HIDE DEF Y
      <4>3. SumFunctionOnSet(f, Y) = f[b] + SumFunctionOnSet(f, Y \ {b})
        BY <4>2, SumTakesOut
      <4> QED BY <4>3 DEF Y
    <3>3. SumFunctionOnSet(f, (X \ {a}) \ {b}) = 0
      BY <2>4, <2>6, SumOfZeros
    <3> QED BY <2>7, <3>1, <3>2, <3>3
  <2>10. \A leg \in A \X U : f[leg] \in Int
    BY <1>2
  <2>11. SumFunctionOnSet(f, A \X U) = SumFunctionOnSet(f, B \X U) + SumFunctionOnSet(f, X)
    <3> DEFINE P == A \X U
               Q == B \X U
    <3>1. Q \in SUBSET P /\ P \ Q = X /\ IsFiniteSet(P) /\ \A leg \in P : f[leg] \in Int
      BY <1>2, <2>3, <2>10
    <3> HIDE DEF P, Q
    <3>2. SumFunctionOnSet(f, P) = SumFunctionOnSet(f, Q) + SumFunctionOnSet(f, P \ Q)
      BY <3>1, SumSplits
    <3> QED BY <3>1, <3>2 DEF P, Q
  <2>12. SumFunctionOnSet(h, A) = h[x] + SumFunctionOnSet(h, B)
    BY <1>2, <2>1, <2>8, SumTakesOut
  <2>13. SumFunctionOnSet(f, B \X U) = SumFunctionOnSet(h, B)
    BY <2>2, <2>3 DEF Bad
  <2>14. SumFunctionOnSet(h, B) \in Int
    <3>1. IsFiniteSet(B) /\ \A d \in B : h[d] \in Int
      BY <1>2, <2>8, FS_Subset
    <3> HIDE DEF B
    <3> QED BY <3>1, SumIsInt
  <2> QED BY <1>2, <2>7, <2>9, <2>11, <2>12, <2>13, <2>14
<1> QED BY <1>3, <1>4

\* The steps in D take v from base on; each adds its h, or more where v falls
\* short of its k.
AddsUp(D, v, h, k, base) ==
    /\ IsFiniteSet(D) /\ base \in Int /\ v[{}] = base
    /\ \A T \in SUBSET D : v[T] \in Int
    /\ \A d \in D : h[d] \in Int /\ k[d] \in Nat /\ h[d] + k[d] >= 0
    /\ \A T \in SUBSET D : T # {} =>
          \E d \in T : /\ v[T] >= v[T \ {d}] + h[d]
                       /\ k[d] <= v[T \ {d}] => v[T] = v[T \ {d}] + h[d]

LEMMA StepsAddUp ==
    ASSUME NEW D, NEW v, NEW h, NEW k, NEW base, AddsUp(D, v, h, k, base)
    PROVE  /\ v[D] >= base + SumFunctionOnSet(h, D)
           /\ SumFunctionOnSet(k, D) <= base => v[D] = base + SumFunctionOnSet(h, D)
<1> USE DEF AddsUp
<1> DEFINE H(T) == SumFunctionOnSet(h, T)
           K(T) == SumFunctionOnSet(k, T)
           Enough(T) == /\ v[T] >= base + H(T)
                        /\ H(T) + K(T) >= 0
                        /\ K(T) <= base => v[T] = base + H(T)
           Bad == {T \in SUBSET D : ~Enough(T)}
<1> SUFFICES ASSUME Bad # {} PROVE FALSE
  OBVIOUS
<1>1. PICK A \in Bad : \A B \in Bad : B \subseteq A => B = A
  <2>1. Bad \in SUBSET SUBSET D
    OBVIOUS
  <2> HIDE DEF Bad
  <2> QED BY <2>1, SmallestSubset
<1>2. A \in SUBSET D /\ ~Enough(A)
  BY <1>1
<1>3. \A T \in SUBSET D : IsFiniteSet(T) /\ H(T) \in Int /\ K(T) \in Int
  <2> TAKE T \in SUBSET D
  <2>1. IsFiniteSet(T) /\ \A d \in T : h[d] \in Int /\ k[d] \in Int
    BY FS_Subset
  <2> QED BY <2>1, SumIsInt
<1>4. CASE A = {}
  <2>1. H({}) = 0 /\ K({}) = 0
    BY SumUnfolds, FS_EmptySet
  <2> HIDE DEF H, K
  <2> QED BY <1>2, <1>4, <2>1
<1>5. CASE A # {}
  <2>1. PICK d \in A : /\ v[A] >= v[A \ {d}] + h[d]
                       /\ k[d] <= v[A \ {d}] => v[A] = v[A \ {d}] + h[d]
    BY <1>2, <1>5
  <2> DEFINE B == A \ {d}
  <2>2. d \in D /\ B \in SUBSET D /\ Enough(B)
    BY <1>1, <1>2, <2>1
  <2>3. \A x \in A : h[x] \in Int /\ k[x] \in Int
    BY <1>2
  <2>4. H(A) = h[d] + H(B) /\ K(A) = k[d] + K(B)
    BY <1>2, <1>3, <2>1, <2>3, SumTakesOut
  <2>5. /\ H(B) \in Int /\ K(B) \in Int /\ v[A] \in Int /\ v[B] \in Int
        /\ h[d] \in Int /\ k[d] \in Nat /\ h[d] + k[d] >= 0
    BY <1>2, <1>3, <2>2
  <2> HIDE DEF Bad, H, K
  <2>6. v[B] >= base + H(B) /\ H(B) + K(B) >= 0 /\ (K(B) <= base => v[B] = base + H(B))
    BY <2>2
  <2> HIDE DEF B, Enough
  <2>7. v[A] >= v[B] + h[d] /\ (k[d] <= v[B] => v[A] = v[B] + h[d])
    BY <2>1 DEF B
  <2>8. v[A] >= base + H(A) /\ H(A) + K(A) >= 0
    BY <2>4, <2>5, <2>6, <2>7
  <2>9. K(A) <= base => v[A] = base + H(A)
    BY <2>4, <2>5, <2>6, <2>7
  <2> QED BY <1>2, <2>8, <2>9 DEF Enough
<1> QED BY <1>4, <1>5

-----------------------------------------------------------------------------
Stores == [Rules!Rows -> Int]

\* The two users of a match, and nobody else, give its legs and complete it.
OnlyPartsAct ==
    \A d \in Trades :
        /\ \A l \in Rules!Legs : trades[d].legs[l] > 0 => l[1] \in Parts(d)
        /\ trades[d].completed \subseteq Parts(d)

AppliedWhenCompleted ==
    \A d \in Trades : trades[d].applied # {} => trades[d].status = "COMPLETED"

QuietListIsFresh ==
    view.op = "legs" /\ view.quiet =>
        \A row \in Shelf : view.items[row] = stock[<<view.user, row[1], row[2]>>]

ProjectionInvariant ==
    ProjectionTypeOK /\ OnlyPartsAct /\ AppliedWhenCompleted /\ QuietListIsFresh

LEMMA PeerDiffers ==
    ASSUME NEW d \in Trades, NEW u \in Parts(d)
    PROVE  /\ u \in Users /\ Peer(d, u) \in Users \ {u}
           /\ Parts(d) = {u, Peer(d, u)}
  BY TradeAssumption DEF Parts, Peer

LEMMA RowsOfShelf ==
    /\ \A u \in Users, row \in Shelf : <<u, row[1], row[2]>> \in Rules!Rows
    /\ \A u \in Users, row \in Shelf : <<u, row[1]>> \in Rules!Legs
    /\ \A row \in Shelf : row[2] \in {"HAVE", "WANT", "TRADE"}
    /\ \A row \in Rules!Rows :
         /\ row[1] \in Users /\ row[2] \in Merch /\ row[3] \in {"HAVE", "WANT", "TRADE"}
  BY DEF Shelf, Rules!Rows, Rules!Legs, Rules!Kinds

\* What settling trade d makes of one row of u.
LEMMA SettledRow ==
    ASSUME ProjectionInvariant, NEW d \in Trades, NEW u \in Parts(d), NEW st \in Stores,
           NEW row \in Shelf
    PROVE  LET r == <<u, row[1], row[2]>>
               a == trades[d].legs[<<u, row[1]>>]
               b == trades[d].legs[<<Peer(d, u), row[1]>>]
           IN  /\ a \in Nat /\ b \in Nat /\ st[r] \in Int
               /\ row[2] = "TRADE" => Settled(st, d, u)[r] = st[r] - a
               /\ row[2] = "WANT" =>
                    Settled(st, d, u)[r] = IF b > 0 THEN Rules!AtLeastZero(st[r] - b) ELSE st[r]
               /\ row[2] = "HAVE" =>
                    Settled(st, d, u)[r] = IF a = 0 THEN st[r] + b
                                           ELSE Rules!AtLeastZero(st[r] - a) + b
<1> DEFINE r == <<u, row[1], row[2]>>
           peer == Peer(d, u)
<1>1. u \in Users /\ peer \in Users /\ r \in Rules!Rows
      /\ <<u, row[1]>> \in Rules!Legs /\ <<peer, row[1]>> \in Rules!Legs
  BY PeerDiffers, RowsOfShelf
<1>2. trades[d].legs \in [Rules!Legs -> Nat]
  BY DEF ProjectionInvariant, ProjectionTypeOK, TradeRows
<1>3. st[r] \in Int /\ r[1] = u /\ r[2] = row[1] /\ r[3] = row[2]
  BY <1>1 DEF Stores
<1> QED BY <1>1, <1>2, <1>3 DEF Settled, Rules!AppliedInventory

LEMMA SettledType ==
    ASSUME ProjectionInvariant, NEW d \in Trades, NEW u \in Parts(d), NEW st \in Stores
    PROVE  Settled(st, d, u) \in Stores
<1> SUFFICES ASSUME NEW r \in Rules!Rows
             PROVE  Settled(st, d, u)[r] \in Int
  BY DEF Settled, Stores, Rules!AppliedInventory
<1>1. r[1] \in Users /\ r[2] \in Merch /\ r[3] \in {"HAVE", "WANT", "TRADE"}
      /\ st[r] \in Int
  BY RowsOfShelf DEF Stores
<1>2. CASE r[1] # u
  BY <1>1, <1>2 DEF Settled, Rules!AppliedInventory
<1>3. CASE r[1] = u
  <2> DEFINE row == <<r[2], r[3]>>
  <2>1. row \in Shelf /\ r = <<u, row[1], row[2]>>
    BY <1>1, <1>3 DEF Shelf, Rules!Kinds, Rules!Rows
  <2> HIDE DEF row
  <2> DEFINE q == <<u, row[1], row[2]>>
             a == trades[d].legs[<<u, row[1]>>]
             b == trades[d].legs[<<Peer(d, u), row[1]>>]
             after == Settled(st, d, u)[q]
  <2>2. /\ a \in Nat /\ b \in Nat /\ st[q] \in Int
        /\ row[2] = "TRADE" => after = st[q] - a
        /\ row[2] = "WANT" => after = IF b > 0 THEN Rules!AtLeastZero(st[q] - b) ELSE st[q]
        /\ row[2] = "HAVE" => after = IF a = 0 THEN st[q] + b
                                      ELSE Rules!AtLeastZero(st[q] - a) + b
    BY <2>1, SettledRow
  <2>3. row[2] \in {"HAVE", "WANT", "TRADE"}
    BY <2>1, RowsOfShelf
  <2> HIDE DEF a, b, q, after
  <2>4. after \in Int
    BY <2>2, <2>3 DEF Rules!AtLeastZero
  <2> QED BY <2>1, <2>4 DEF after, q
<1> QED BY <1>2, <1>3

-----------------------------------------------------------------------------
\* The table by which AllSettled is defined.
IsSettling(u, iter, D) ==
    iter = [s \in SUBSET D |->
                IF s = {} THEN stock
                ELSE Settled(iter[s \ {CHOOSE x \in s : TRUE}], CHOOSE x \in s : TRUE, u)]

LEMMA SettledByTable ==
    ASSUME NEW u, NEW D
    PROVE  AllSettled(u, D) = (CHOOSE iter : IsSettling(u, iter, D))[D]
BY DEF AllSettled, FoldSet, MapThenFoldSet, IsSettling

\* Settling one trade after the other is well defined.
LEMMA SettlingExists ==
    ASSUME ProjectionInvariant, NEW u, NEW D \in SUBSET Trades, IsFiniteSet(D),
           \A d \in D : u \in Parts(d)
    PROVE  \E iter \in [SUBSET D -> Stores] :
              /\ AllSettled(u, D) = iter[D]
              /\ iter[{}] = stock
              /\ \A T \in SUBSET D : T # {} =>
                   \E d \in T : iter[T] = Settled(iter[T \ {d}], d, u)
<1> DEFINE step == [d \in D |-> [st \in Stores |-> Settled(st, d, u)]]
           own == CHOOSE iter : IsSettling(u, iter, D)
<1>1. stock \in Stores
  BY DEF ProjectionInvariant, ProjectionTypeOK, Stores
<1>2. \A d \in D : \A st \in Stores : step[d][st] = Settled(st, d, u) /\ step[d][st] \in Stores
  BY SettledType
<1> HIDE DEF step
<1>3. PICK g : IsTable(stock, step, g, D)
  BY TableExists
<1>4. g \in [SUBSET D -> Stores]
  BY <1>1, <1>2, <1>3, TableTyped
<1>5. IsSettling(u, g, D)
  <2>1. ASSUME NEW s \in SUBSET D
        PROVE  Folded(stock, step, g, s) =
                  IF s = {} THEN stock
                  ELSE Settled(g[s \ {CHOOSE x \in s : TRUE}], CHOOSE x \in s : TRUE, u)
    <3>1. CASE s = {}
      BY <3>1 DEF Folded
    <3>2. CASE s # {}
      <4> DEFINE x == CHOOSE y \in s : TRUE
      <4>1. x \in D /\ s \ {x} \in SUBSET D
        BY <3>2
      <4> HIDE DEF x
      <4>2. step[x][g[s \ {x}]] = Settled(g[s \ {x}], x, u)
        BY <1>2, <1>4, <4>1
      <4> QED BY <3>2, <4>2 DEF Folded, x
    <3> QED BY <3>1, <3>2
  <2> QED BY <1>3, <2>1 DEF IsTable, IsSettling
<1>6. IsSettling(u, own, D)
  BY <1>5
<1>7. AllSettled(u, D) = own[D]
  BY SettledByTable
<1> HIDE DEF own
<1>8. \A s \in SUBSET D : own[s] = IF s = {} THEN stock
        ELSE Settled(own[s \ {CHOOSE x \in s : TRUE}], CHOOSE x \in s : TRUE, u)
  BY <1>6 DEF IsSettling
<1>9. own \in [SUBSET D -> Stores]
  <2> DEFINE Bad == {s \in SUBSET D : own[s] \notin Stores}
  <2> SUFFICES ASSUME Bad # {} PROVE FALSE
    <3>1. own = [s \in SUBSET D |-> own[s]]
      BY <1>6 DEF IsSettling
    <3> QED BY <3>1
  <2>1. PICK A \in Bad : \A B \in Bad : B \subseteq A => B = A
    <3>1. Bad \in SUBSET SUBSET D
      OBVIOUS
    <3> HIDE DEF Bad
    <3> QED BY <3>1, SmallestSubset
  <2>2. CASE A = {}
    BY <1>1, <1>8, <2>1, <2>2
  <2>3. CASE A # {}
    <3> DEFINE x == CHOOSE y \in A : TRUE
    <3>1. x \in A /\ x \in D
      BY <2>3
    <3>2. own[A \ {x}] \in Stores
      BY <2>1, <3>1
    <3>3. own[A] = Settled(own[A \ {x}], x, u)
      BY <1>8, <2>3
    <3> HIDE DEF x
    <3>4. own[A] \in Stores
      BY <3>1, <3>2, <3>3, SettledType
    <3> QED BY <2>1, <3>4
  <2> QED BY <2>2, <2>3
<1>10. ASSUME NEW T \in SUBSET D, T # {}
       PROVE  \E d \in T : own[T] = Settled(own[T \ {d}], d, u)
  <2> DEFINE x == CHOOSE y \in T : TRUE
  <2>1. x \in T /\ own[T] = Settled(own[T \ {x}], x, u)
    BY <1>8, <1>10
  <2> QED BY <2>1
<1>11. own[{}] = stock
  BY <1>8
<1> QED BY <1>7, <1>9, <1>10, <1>11

-----------------------------------------------------------------------------
\* The trades under way for u: those whose legs contribute.
UnderWay(u) == {d \in Trades : Contributes(d, u)}

LEMMA UnderWayParts ==
    ASSUME NEW u
    PROVE  /\ UnderWay(u) \in SUBSET Trades /\ IsFiniteSet(UnderWay(u))
           /\ \A d \in UnderWay(u) : u \in Parts(d)
  BY FS_Subset, TradeAssumption DEF UnderWay, Contributes

\* What trade d adds to a row of u, and what it asks of it.
Gain(u, row) ==
    [d \in UnderWay(u) |->
        leg_deltas(u, row)[<<d, u>>] + leg_deltas(u, row)[<<d, Peer(d, u)>>]]
Need(u, row) ==
    [d \in UnderWay(u) |->
        Rules!AtLeastZero(-leg_deltas(u, row)[<<d, u>>])
            + Rules!AtLeastZero(-leg_deltas(u, row)[<<d, Peer(d, u)>>])]

LEMMA LegDeltas ==
    ASSUME ProjectionInvariant, NEW u \in Users, NEW row \in Shelf, NEW d \in UnderWay(u)
    PROVE  LET a == trades[d].legs[<<u, row[1]>>]
               b == trades[d].legs[<<Peer(d, u), row[1]>>]
               f == leg_deltas(u, row)
           IN  /\ \A g \in Users : <<d, g>> \in DOMAIN f /\ f[<<d, g>>] \in Int
               /\ a \in Nat /\ b \in Nat
               /\ f[<<d, u>>] = IF row[2] \in {"HAVE", "TRADE"} THEN -a ELSE 0
               /\ f[<<d, Peer(d, u)>>] = IF row[2] = "HAVE" THEN b
                                         ELSE IF row[2] = "WANT" THEN -b ELSE 0
               /\ \A g \in Users \ {u, Peer(d, u)} : f[<<d, g>>] = 0
<1> DEFINE f == leg_deltas(u, row)
           lg == trades[d].legs
<1>1. d \in Trades /\ u \in Parts(d)
  BY UnderWayParts
<1>2. Peer(d, u) \in Users \ {u} /\ Parts(d) = {u, Peer(d, u)}
  BY <1>1, PeerDiffers
<1>3. \A g \in Users : <<d, g>> \in DOMAIN f
        /\ f[<<d, g>>] = projection_leg_delta(u, g, lg[<<g, row[1]>>], row[2])
  BY DEF leg_deltas, UnderWay
<1>4. \A g \in Users : lg[<<g, row[1]>>] \in Nat
  BY <1>1, RowsOfShelf DEF ProjectionInvariant, ProjectionTypeOK, TradeRows
<1>5. \A g \in Users \ {u, Peer(d, u)} : lg[<<g, row[1]>>] = 0
  <2> TAKE g \in Users \ {u, Peer(d, u)}
  <2>1. <<g, row[1]>> \in Rules!Legs /\ g \notin Parts(d)
    BY <1>2, RowsOfShelf
  <2>2. ~(lg[<<g, row[1]>>] > 0)
    BY <1>1, <2>1 DEF ProjectionInvariant, OnlyPartsAct
  <2> QED BY <1>4, <2>2
<1>6. row[2] \in {"HAVE", "WANT", "TRADE"}
  BY RowsOfShelf
<1> HIDE DEF f, lg
<1>7. \A g \in Users : f[<<d, g>>] \in Int
  <2> TAKE g \in Users
  <2> DEFINE n == lg[<<g, row[1]>>]
  <2>1. n \in Nat /\ f[<<d, g>>] = projection_leg_delta(u, g, n, row[2])
    BY <1>3, <1>4
  <2> HIDE DEF n
  <2> QED BY <1>6, <2>1 DEF projection_leg_delta
<1>8. f[<<d, u>>] = IF row[2] \in {"HAVE", "TRADE"} THEN -lg[<<u, row[1]>>] ELSE 0
  BY <1>3, <1>4, <1>6 DEF projection_leg_delta
<1>9. f[<<d, Peer(d, u)>>] = IF row[2] = "HAVE" THEN lg[<<Peer(d, u), row[1]>>]
                            ELSE IF row[2] = "WANT" THEN -lg[<<Peer(d, u), row[1]>>] ELSE 0
  BY <1>2, <1>3, <1>4, <1>6 DEF projection_leg_delta
<1>10. \A g \in Users \ {u, Peer(d, u)} : f[<<d, g>>] = 0
  <2> TAKE g \in Users \ {u, Peer(d, u)}
  <2> DEFINE n == lg[<<g, row[1]>>]
  <2>1. n \in Nat /\ g # u /\ f[<<d, g>>] = projection_leg_delta(u, g, n, row[2])
    BY <1>3, <1>4
  <2>2. n = 0
    BY <1>5
  <2> HIDE DEF n
  <2>3. f[<<d, g>>] \in Int /\ (f[<<d, g>>] \in {n, 0} \/ f[<<d, g>>] + n = 0)
    BY <1>6, <2>1 DEF projection_leg_delta
  <2> QED BY <2>2, <2>3
<1> QED BY <1>2, <1>3, <1>4, <1>7, <1>8, <1>9, <1>10 DEF f, lg

\* The projection and what is asked are sums over the trades under way.
LEMMA SumsByTrade ==
    ASSUME ProjectionInvariant, NEW u \in Users, NEW row \in Shelf
    PROVE  /\ accumulate_projection_deltas(u)[row] =
                SumFunctionOnSet(Gain(u, row), UnderWay(u))
           /\ Asked(u, row) = SumFunctionOnSet(Need(u, row), UnderWay(u))
           /\ SumFunctionOnSet(Gain(u, row), UnderWay(u)) \in Int
<1> DEFINE D == UnderWay(u)
           f == leg_deltas(u, row)
           k == [leg \in DOMAIN f |-> Rules!AtLeastZero(-f[leg])]
           p == [d \in D |-> Peer(d, u)]
           gain == Gain(u, row)
           need == Need(u, row)
<1>1. IsFiniteSet(D) /\ IsFiniteSet(Users) /\ DOMAIN f = D \X Users
  BY UnderWayParts, TradeAssumption DEF leg_deltas, UnderWay
<1>2. \A d \in D : p[d] \in Users \ {u}
  BY UnderWayParts, PeerDiffers
<1>3. \A leg \in D \X Users : f[leg] \in Int
  <2> TAKE leg \in D \X Users
  <2>1. PICK d \in UnderWay(u), g \in Users : leg = <<d, g>>
    OBVIOUS
  <2>2. f[<<d, g>>] \in Int
    BY LegDeltas
  <2> QED BY <2>1, <2>2
<1>4. \A leg \in D \X Users : k[leg] = Rules!AtLeastZero(-f[leg]) /\ k[leg] \in Int
  BY <1>1, <1>3 DEF Rules!AtLeastZero
<1>5. \A d \in D : /\ gain[d] = f[<<d, u>>] + f[<<d, p[d]>>]
                   /\ \A g \in Users \ {u, p[d]} : f[<<d, g>>] = 0
  BY LegDeltas DEF Gain
<1>6. \A d \in D : /\ need[d] = k[<<d, u>>] + k[<<d, p[d]>>]
                   /\ \A g \in Users \ {u, p[d]} : k[<<d, g>>] = 0
  <2> TAKE d \in D
  <2>1. <<d, u>> \in D \X Users /\ <<d, p[d]>> \in D \X Users /\ p[d] = Peer(d, u)
    BY <1>2
  <2>2. need[d] = Rules!AtLeastZero(-f[<<d, u>>]) + Rules!AtLeastZero(-f[<<d, p[d]>>])
    BY <2>1 DEF Need
  <2> HIDE DEF f, p, D, need
  <2>3. \A g \in Users \ {u, p[d]} : k[<<d, g>>] = 0
    <3> TAKE g \in Users \ {u, p[d]}
    <3>1. <<d, g>> \in D \X Users /\ f[<<d, g>>] = 0
      BY <1>5
    <3> QED BY <1>4, <3>1 DEF Rules!AtLeastZero
  <2> QED BY <1>4, <2>1, <2>2, <2>3
<1>7. accumulate_projection_deltas(u)[row] = SumFunctionOnSet(f, D \X Users)
  BY <1>1 DEF accumulate_projection_deltas, SumFunction
<1>8. Asked(u, row) = SumFunctionOnSet(k, D \X Users)
  BY <1>1 DEF Asked, SumFunction
<1> HIDE DEF D, f, k, p, gain, need
<1>9. SumFunctionOnSet(f, D \X Users) = SumFunctionOnSet(gain, D)
  <2>1. \A d \in D : /\ p[d] \in Users \ {u}
                     /\ gain[d] = f[<<d, u>>] + f[<<d, p[d]>>]
                     /\ \A g \in Users \ {u, p[d]} : f[<<d, g>>] = 0
    BY <1>2, <1>5
  <2>2. TwoGivers(D, Users, f, gain, p, u)
    BY <1>1, <1>3, <2>1 DEF TwoGivers
  <2> QED BY <2>2, SumByTrade
<1>10. SumFunctionOnSet(k, D \X Users) = SumFunctionOnSet(need, D)
  <2>1. \A d \in D : /\ p[d] \in Users \ {u}
                     /\ need[d] = k[<<d, u>>] + k[<<d, p[d]>>]
                     /\ \A g \in Users \ {u, p[d]} : k[<<d, g>>] = 0
    BY <1>2, <1>6
  <2>2. \A leg \in D \X Users : k[leg] \in Int
    BY <1>4
  <2>3. TwoGivers(D, Users, k, need, p, u)
    BY <1>1, <2>1, <2>2 DEF TwoGivers
  <2> QED BY <2>3, SumByTrade
<1>11. SumFunctionOnSet(gain, D) \in Int
  <2>1. \A d \in D : gain[d] \in Int
    <3> TAKE d \in D
    <3>1. <<d, u>> \in D \X Users /\ <<d, p[d]>> \in D \X Users
      BY <1>2
    <3> QED BY <1>3, <1>5, <3>1
  <2> QED BY <1>1, <2>1, SumIsInt
<1> QED BY <1>7, <1>8, <1>9, <1>10, <1>11 DEF D, gain, need

\* One trade settled adds its gain, or more where the stock is short of its need.
LEMMA SettledAddsGain ==
    ASSUME ProjectionInvariant, NEW u \in Users, NEW row \in Shelf, NEW d \in UnderWay(u),
           NEW st \in Stores
    PROVE  LET r == <<u, row[1], row[2]>>
               h == Gain(u, row)[d]
               k == Need(u, row)[d]
           IN  /\ h \in Int /\ k \in Nat /\ h + k >= 0 /\ st[r] \in Int
               /\ Settled(st, d, u)[r] >= st[r] + h
               /\ k <= st[r] => Settled(st, d, u)[r] = st[r] + h
<1> DEFINE r == <<u, row[1], row[2]>>
           a == trades[d].legs[<<u, row[1]>>]
           b == trades[d].legs[<<Peer(d, u), row[1]>>]
           f == leg_deltas(u, row)
           own == f[<<d, u>>]
           other == f[<<d, Peer(d, u)>>]
           v == st[r]
           w == Settled(st, d, u)[r]
<1>1. d \in Trades /\ u \in Parts(d)
  BY UnderWayParts
<1>2. /\ a \in Nat /\ b \in Nat /\ v \in Int
      /\ row[2] = "TRADE" => w = v - a
      /\ row[2] = "WANT" => w = IF b > 0 THEN Rules!AtLeastZero(v - b) ELSE v
      /\ row[2] = "HAVE" => w = IF a = 0 THEN v + b ELSE Rules!AtLeastZero(v - a) + b
  BY <1>1, SettledRow
<1>3. /\ own = IF row[2] \in {"HAVE", "TRADE"} THEN -a ELSE 0
      /\ other = IF row[2] = "HAVE" THEN b ELSE IF row[2] = "WANT" THEN -b ELSE 0
  BY LegDeltas
<1>4. /\ Gain(u, row)[d] = own + other
      /\ Need(u, row)[d] = Rules!AtLeastZero(-own) + Rules!AtLeastZero(-other)
  BY DEF Gain, Need
<1>5. row[2] \in {"HAVE", "WANT", "TRADE"}
  BY RowsOfShelf
<1> DEFINE h == Gain(u, row)[d]
           k == Need(u, row)[d]
<1> HIDE DEF r, a, b, f, own, other, v, w, h, k
<1>6. /\ h = own + other
      /\ k = Rules!AtLeastZero(-own) + Rules!AtLeastZero(-other)
  BY <1>4 DEF h, k
<1>7. /\ h \in Int /\ k \in Nat /\ h + k >= 0 /\ v \in Int
      /\ w >= v + h
      /\ k <= v => w = v + h
  <2>1. CASE row[2] = "HAVE"
    BY <1>2, <1>3, <1>6, <2>1 DEF Rules!AtLeastZero
  <2>2. CASE row[2] = "WANT"
    BY <1>2, <1>3, <1>6, <2>2 DEF Rules!AtLeastZero
  <2>3. CASE row[2] = "TRADE"
    BY <1>2, <1>3, <1>6, <2>3 DEF Rules!AtLeastZero
  <2> QED BY <1>5, <2>1, <2>2, <2>3
<1> QED BY <1>7 DEF h, k, v, w, r

\* The projection of fresh items foretells what u is left with.
LEMMA FreshProjectionForetells ==
    ASSUME ProjectionInvariant, NEW u \in Users, NEW items,
           \A row \in Shelf : items[row] = stock[<<u, row[1], row[2]>>]
    PROVE  Foretells(u, attach_projected_quantities(items, accumulate_projection_deltas(u)))
<1> DEFINE D == UnderWay(u)
           after == AllSettled(u, D)
<1>1. D = {d \in Trades : /\ u \in Parts(d)
                         /\ u \notin trades[d].applied
                         /\ trades[d].status \notin {"PENDING", "REJECTED", "CANCELLED"}}
  BY DEF UnderWay, Contributes, ProjectionInvariant, AppliedWhenCompleted,
         ProjectionTypeOK, TradeRows, Open
<1>2. D \in SUBSET Trades /\ IsFiniteSet(D) /\ \A d \in D : u \in Parts(d)
  BY UnderWayParts
<1>3. PICK iter \in [SUBSET D -> Stores] :
          /\ after = iter[D]
          /\ iter[{}] = stock
          /\ \A T \in SUBSET D : T # {} =>
               \E d \in T : iter[T] = Settled(iter[T \ {d}], d, u)
  <2> HIDE DEF D
  <2> QED BY <1>2, SettlingExists
<1> SUFFICES ASSUME NEW row \in Shelf
             PROVE  LET answer == items[row] + accumulate_projection_deltas(u)[row]
                        left == after[<<u, row[1], row[2]>>]
                    IN  IF Asked(u, row) <= stock[<<u, row[1], row[2]>>]
                        THEN answer = left ELSE answer <= left
  BY <1>1 DEF Foretells, attach_projected_quantities
<1> DEFINE r == <<u, row[1], row[2]>>
           v == [T \in SUBSET D |-> iter[T][r]]
           h == Gain(u, row)
           k == Need(u, row)
           base == stock[r]
<1>4. r \in Rules!Rows /\ stock \in Stores /\ base \in Int
  BY RowsOfShelf DEF ProjectionInvariant, ProjectionTypeOK, Stores
<1>5. \A T \in SUBSET D : iter[T] \in Stores /\ v[T] = iter[T][r] /\ v[T] \in Int
  BY <1>3, <1>4 DEF Stores
<1>6. \A d \in D : h[d] \in Int /\ k[d] \in Nat /\ h[d] + k[d] >= 0
  BY <1>4, SettledAddsGain
<1>7. v[{}] = base
  BY <1>3, <1>5
<1>8. ASSUME NEW T \in SUBSET D, T # {}
      PROVE  \E d \in T : /\ v[T] >= v[T \ {d}] + h[d]
                          /\ k[d] <= v[T \ {d}] => v[T] = v[T \ {d}] + h[d]
  <2>1. PICK d \in T : iter[T] = Settled(iter[T \ {d}], d, u)
    BY <1>3, <1>8
  <2> DEFINE st == iter[T \ {d}]
  <2>2. d \in UnderWay(u) /\ T \ {d} \in SUBSET D
    BY <2>1
  <2>3. st \in Stores /\ v[T \ {d}] = st[r] /\ v[T] = Settled(st, d, u)[r]
    BY <1>5, <2>1, <2>2
  <2> HIDE DEF st, v, D
  <2>4. /\ Settled(st, d, u)[r] >= st[r] + h[d]
        /\ k[d] <= st[r] => Settled(st, d, u)[r] = st[r] + h[d]
    BY <2>2, <2>3, SettledAddsGain
  <2> HIDE DEF h, k, r
  <2> QED BY <2>3, <2>4
<1>9. /\ accumulate_projection_deltas(u)[row] = SumFunctionOnSet(h, D)
      /\ Asked(u, row) = SumFunctionOnSet(k, D)
      /\ SumFunctionOnSet(h, D) \in Int
  BY SumsByTrade
<1>10. items[row] = base
  OBVIOUS
<1> HIDE DEF D, v, h, k, base
<1>11. /\ v[D] >= base + SumFunctionOnSet(h, D)
       /\ SumFunctionOnSet(k, D) <= base => v[D] = base + SumFunctionOnSet(h, D)
  <2>1. IsFiniteSet(D) /\ base \in Int /\ \A T \in SUBSET D : v[T] \in Int
    BY <1>2, <1>4, <1>5
  <2>2. \A T \in SUBSET D : T # {} =>
          \E d \in T : /\ v[T] >= v[T \ {d}] + h[d]
                       /\ k[d] <= v[T \ {d}] => v[T] = v[T \ {d}] + h[d]
    BY <1>8
  <2>3. AddsUp(D, v, h, k, base)
    BY <1>6, <1>7, <2>1, <2>2 DEF AddsUp
  <2> QED BY <2>3, StepsAddUp
<1>12. v[D] = after[r] /\ v[D] \in Int
  <2>1. D \in SUBSET D
    OBVIOUS
  <2> QED BY <1>3, <1>5, <2>1
<1> HIDE DEF after, r
<1> QED BY <1>4, <1>9, <1>10, <1>11, <1>12 DEF base, r

-----------------------------------------------------------------------------
LEMMA ProjectionInitially == ProjectionInit => ProjectionInvariant
  BY TradeAssumption
     DEF ProjectionInit, ProjectionInvariant, ProjectionTypeOK, TradeRows, Open, Views, Idle,
         OnlyPartsAct, AppliedWhenCompleted, QuietListIsFresh, Rules!NoLegs

\* A move of one trade to a sound row.
RowIsSound(d, row) ==
    /\ row \in TradeRows
    /\ \A l \in Rules!Legs : row.legs[l] > 0 => l[1] \in Parts(d)
    /\ row.completed \subseteq Parts(d)
    /\ row.applied # {} => row.status = "COMPLETED"

LEMMA RowsAreSound ==
    ASSUME ProjectionInvariant, NEW d \in Trades
    PROVE  RowIsSound(d, trades[d])
  BY DEF RowIsSound, ProjectionInvariant, ProjectionTypeOK, OnlyPartsAct, AppliedWhenCompleted

LEMMA NoLegsAreSound ==
    /\ Rules!NoLegs \in [Rules!Legs -> Nat]
    /\ \A l \in Rules!Legs : ~(Rules!NoLegs[l] > 0)
  BY DEF Rules!NoLegs

\* A list that has been disturbed promises nothing.
LEMMA DisturbedIsNotQuiet ==
    ASSUME ProjectionInvariant, Disturb
    PROVE  view' \in Views /\ QuietListIsFresh'
<1>1. view \in Views
  BY DEF ProjectionInvariant, ProjectionTypeOK
<1>2. CASE view.op = "legs"
  <2>1. view \in [op: {"legs"}, user: Users, items: [Shelf -> Int], quiet: BOOLEAN]
    BY <1>1, <1>2 DEF Views, Idle
  <2>2. view' = [view EXCEPT !.quiet = FALSE]
    BY <1>2 DEF Disturb
  <2>3. view' \in [op: {"legs"}, user: Users, items: [Shelf -> Int], quiet: BOOLEAN]
        /\ ~view'.quiet
    BY <2>1, <2>2
  <2> QED BY <2>3 DEF Views, QuietListIsFresh
<1>3. CASE view.op # "legs"
  BY <1>1, <1>3 DEF Disturb, QuietListIsFresh
<1> QED BY <1>2, <1>3

LEMMA MoveKeeps ==
    ASSUME ProjectionInvariant, NEW d \in Trades, NEW row, RowIsSound(d, row), Moves(d, row)
    PROVE  ProjectionInvariant'
<1>1. /\ trades' = [trades EXCEPT ![d] = row] /\ stock' = stock /\ Disturb
  BY DEF Moves
<1>2. view' \in Views /\ QuietListIsFresh'
  BY <1>1, DisturbedIsNotQuiet
<1> QED BY <1>1, <1>2
        DEF ProjectionInvariant, ProjectionTypeOK, OnlyPartsAct, AppliedWhenCompleted, RowIsSound,
            Parts

LEMMA ProjectionSteps ==
    ASSUME ProjectionInvariant, NEW d \in Trades
    PROVE  /\ ProposeTrade(d) => ProjectionInvariant'
           /\ AgreeTrade(d) => ProjectionInvariant'
           /\ DropTrade(d) => ProjectionInvariant'
           /\ \A u \in Users : CompleteTrade(d, u) => ProjectionInvariant'
<1>1. RowIsSound(d, trades[d]) /\ trades[d] \in TradeRows
  BY RowsAreSound DEF RowIsSound
<1>2. ASSUME ProposeTrade(d) PROVE ProjectionInvariant'
  <2>1. PICK legs \in Proposals[d] :
          Moves(d, [trades[d] EXCEPT !.status = "OFFERED", !.legs = legs])
    BY <1>2 DEF ProposeTrade
  <2>2. /\ legs \in [Rules!Legs -> Nat]
        /\ \A l \in Rules!Legs : legs[l] > 0 => l[1] \in Parts(d)
    BY TradeAssumption DEF Parts
  <2>3. RowIsSound(d, [trades[d] EXCEPT !.status = "OFFERED", !.legs = legs])
    BY <1>1, <1>2, <2>2 DEF ProposeTrade, RowIsSound, TradeRows, Open
  <2> QED BY <2>1, <2>3, MoveKeeps
<1>3. ASSUME AgreeTrade(d) PROVE ProjectionInvariant'
  <2>1. RowIsSound(d, [trades[d] EXCEPT !.status = "ACCEPTED"])
    BY <1>1, <1>3 DEF AgreeTrade, RowIsSound, TradeRows, Open
  <2> QED BY <1>3, <2>1, MoveKeeps DEF AgreeTrade
<1>4. ASSUME DropTrade(d) PROVE ProjectionInvariant'
  <2>1. PICK st \in {"REJECTED", "CANCELLED"} :
          Moves(d, [trades[d] EXCEPT !.status = st, !.legs = Rules!NoLegs])
    BY <1>4 DEF DropTrade
  <2>2. trades[d].applied = {}
    BY <1>1, <1>4 DEF DropTrade, RowIsSound, Open
  <2>3. RowIsSound(d, [trades[d] EXCEPT !.status = st, !.legs = Rules!NoLegs])
    BY <1>1, <2>2, NoLegsAreSound DEF RowIsSound, TradeRows
  <2> QED BY <2>1, <2>3, MoveKeeps
<1>5. ASSUME NEW u \in Users, CompleteTrade(d, u) PROVE ProjectionInvariant'
  <2>1. RowIsSound(d, [trades[d] EXCEPT !.status = "COMPLETED", !.completed = @ \cup {u}])
    BY <1>1, <1>5 DEF CompleteTrade, RowIsSound, TradeRows
  <2> QED BY <1>5, <2>1, MoveKeeps DEF CompleteTrade
<1> QED BY <1>2, <1>3, <1>4, <1>5

\* An application keeps the type of the stock.
LEMMA AppliedIsInt ==
    ASSUME NEW st \in [Rules!Rows -> Int], NEW lg \in [Rules!Legs -> Nat], NEW u \in Users,
           NEW peer \in Users, NEW skipHave \in BOOLEAN, NEW receivedFirst \in BOOLEAN
    PROVE  Rules!AppliedInventory(st, lg, u, peer, skipHave, receivedFirst)
                \in [Rules!Rows -> Int]
<1> SUFFICES ASSUME NEW r \in Rules!Rows
             PROVE  Rules!AppliedInventory(st, lg, u, peer, skipHave, receivedFirst)[r] \in Int
  BY DEF Rules!AppliedInventory
<1>1. st[r] \in Int /\ lg[<<u, r[2]>>] \in Int /\ lg[<<peer, r[2]>>] \in Int
  BY RowsOfShelf DEF Rules!Legs
<1> QED BY <1>1 DEF Rules!AppliedInventory, Rules!AtLeastZero

LEMMA ApplyKeeps ==
    ASSUME ProjectionInvariant, NEW d \in Trades, NEW u \in Users, apply_inventory(d, u)
    PROVE  ProjectionInvariant'
<1>1. trades[d].status = "COMPLETED" /\ u \in trades[d].completed /\ Disturb
  BY DEF apply_inventory
<1>2. PICK skipHave \in BOOLEAN, receivedFirst \in BOOLEAN :
        stock' = Rules!AppliedInventory(stock, trades[d].legs, u, Peer(d, u), skipHave,
                                        receivedFirst)
  BY DEF apply_inventory
<1>3. PICK cancelled \in SUBSET {x \in Trades : trades[x].status \in Open} :
        trades' = [x \in Trades |->
            IF x = d THEN [trades[x] EXCEPT !.applied = @ \cup {u}]
            ELSE IF x \in cancelled
                 THEN [trades[x] EXCEPT !.status = "CANCELLED", !.legs = Rules!NoLegs]
                 ELSE trades[x]]
  BY DEF apply_inventory
<1>4. stock' \in [Rules!Rows -> Int]
  <2> DEFINE lg == trades[d].legs
             peer == Peer(d, u)
  <2>1. stock \in [Rules!Rows -> Int] /\ lg \in [Rules!Legs -> Nat]
    BY DEF ProjectionInvariant, ProjectionTypeOK, TradeRows
  <2>2. stock' = Rules!AppliedInventory(stock, lg, u, peer, skipHave, receivedFirst)
    BY <1>2
  <2>3. peer \in Users
    BY <1>1, PeerDiffers DEF ProjectionInvariant, OnlyPartsAct
  <2> HIDE DEF lg, peer
  <2> QED BY <2>1, <2>2, <2>3, AppliedIsInt
<1>5. \A x \in Trades : RowIsSound(x, trades'[x])
  <2> TAKE x \in Trades
  <2>1. RowIsSound(x, trades[x])
    BY RowsAreSound
  <2>2. CASE x = d
    BY <1>1, <1>3, <2>1, <2>2 DEF RowIsSound, TradeRows
  <2>3. CASE x # d /\ x \in cancelled
    <3>1. trades'[x] = [trades[x] EXCEPT !.status = "CANCELLED", !.legs = Rules!NoLegs]
          /\ trades[x].applied = {}
      BY <1>3, <2>1, <2>3 DEF RowIsSound, Open
    <3> QED BY <2>1, <3>1, NoLegsAreSound DEF RowIsSound, TradeRows
  <2>4. CASE x # d /\ x \notin cancelled
    BY <1>3, <2>1, <2>4
  <2> QED BY <2>2, <2>3, <2>4
<1>6. view' \in Views /\ QuietListIsFresh'
  BY <1>1, DisturbedIsNotQuiet
<1>7. trades' \in [Trades -> TradeRows] /\ OnlyPartsAct' /\ AppliedWhenCompleted'
  BY <1>3, <1>5 DEF RowIsSound, OnlyPartsAct, AppliedWhenCompleted, Parts
<1> QED BY <1>4, <1>6, <1>7 DEF ProjectionInvariant, ProjectionTypeOK

LEMMA ListingKeeps ==
    ASSUME ProjectionInvariant
    PROVE  /\ \A u \in Users : ListItems(u) => ProjectionInvariant'
           /\ ListLegs => ProjectionInvariant'
<1>1. ASSUME NEW u \in Users, ListItems(u) PROVE ProjectionInvariant'
  <2>1. UNCHANGED <<stock, trades>>
        /\ view' = [op |-> "legs", user |-> u, quiet |-> TRUE,
                    items |-> [r \in Shelf |-> stock[<<u, r[1], r[2]>>]]]
    BY <1>1 DEF ListItems
  <2>2. [r \in Shelf |-> stock[<<u, r[1], r[2]>>]] \in [Shelf -> Int]
    BY RowsOfShelf DEF ProjectionInvariant, ProjectionTypeOK
  <2>3. view' \in Views /\ QuietListIsFresh'
    BY <2>1, <2>2 DEF Views, QuietListIsFresh
  <2> QED BY <2>1, <2>3 DEF ProjectionInvariant, ProjectionTypeOK, OnlyPartsAct,
                            AppliedWhenCompleted
<1>2. ASSUME ListLegs PROVE ProjectionInvariant'
  <2> DEFINE shown == attach_projected_quantities(view.items,
                          accumulate_projection_deltas(view.user))
  <2>1. UNCHANGED <<stock, trades>> /\ view.op = "legs"
        /\ view' = [op |-> "shown", user |-> view.user, projected |-> shown]
    BY <1>2 DEF ListLegs
  <2>2. view.user \in Users /\ view.items \in [Shelf -> Int]
    BY <2>1 DEF ProjectionInvariant, ProjectionTypeOK, Views, Idle
  <2>3. \A row \in Shelf : accumulate_projection_deltas(view.user)[row] \in Int
    BY <2>2, SumsByTrade
  <2>4. shown \in [Shelf -> Int]
    BY <2>2, <2>3 DEF attach_projected_quantities
  <2> HIDE DEF shown
  <2>5. view' \in Views /\ QuietListIsFresh'
    BY <2>1, <2>2, <2>4 DEF Views, QuietListIsFresh
  <2> QED BY <2>1, <2>5 DEF ProjectionInvariant, ProjectionTypeOK, OnlyPartsAct,
                            AppliedWhenCompleted
<1> QED BY <1>1, <1>2

LEMMA ProjectionInductive ==
    ProjectionInvariant /\ [ProjectionNext]_projectionVars => ProjectionInvariant'
<1> SUFFICES ASSUME ProjectionInvariant, [ProjectionNext]_projectionVars
             PROVE  ProjectionInvariant'
  OBVIOUS
<1>1. ASSUME NEW edit \in Edits, EditStock(edit) PROVE ProjectionInvariant'
  <2>1. edit \in Rules!Rows \X Int
    BY TradeAssumption
  <2>2. stock' = [stock EXCEPT ![edit[1]] = edit[2]] /\ trades' = trades
        /\ view' \in Views /\ QuietListIsFresh'
    BY <1>1, DisturbedIsNotQuiet DEF EditStock
  <2> QED BY <2>1, <2>2 DEF ProjectionInvariant, ProjectionTypeOK, OnlyPartsAct,
                            AppliedWhenCompleted
<1>2. CASE UNCHANGED projectionVars
  BY <1>2 DEF projectionVars, ProjectionInvariant, ProjectionTypeOK, OnlyPartsAct,
              AppliedWhenCompleted, QuietListIsFresh
<1> QED BY <1>1, <1>2, ProjectionSteps, ApplyKeeps, ListingKeeps DEF ProjectionNext

\* Stock, trades and the list under way keep their types.
THEOREM ProjectionTypeCorrect == ProjectionSpec => []ProjectionTypeOK
  BY ProjectionInitially, ProjectionInductive, PTL DEF ProjectionSpec, ProjectionInvariant

\* When no other step comes between the two reads, the projected quantity is
\* what settling every trade under way leaves, whatever their number and legs,
\* wherever the stock covers what they ask; elsewhere it is below.
THEOREM ProjectionForetells == ProjectionSpec => ProjectionIsTheOutcome
<1> DEFINE Foretold == view.op = "legs" /\ view'.op = "shown" /\ view.quiet
                         => Foretells(view.user, view'.projected)
<1>1. ProjectionInvariant /\ [ProjectionNext]_projectionVars => [Foretold]_projectionVars
  <2> SUFFICES ASSUME ProjectionInvariant, ProjectionNext,
                      view.op = "legs", view'.op = "shown", view.quiet
               PROVE  Foretells(view.user, view'.projected)
    OBVIOUS
  <2>1. ListLegs
    <3>1. ASSUME Disturb PROVE FALSE
      BY <3>1 DEF Disturb, ProjectionInvariant, ProjectionTypeOK, Views, Idle
    <3>2. ASSUME NEW u \in Users, ListItems(u) PROVE FALSE
      BY <3>2 DEF ListItems
    <3> QED BY <3>1, <3>2 DEF ProjectionNext, ProposeTrade, AgreeTrade, DropTrade,
            CompleteTrade, apply_inventory, EditStock, Moves
  <2>2. view.user \in Users
    BY DEF ProjectionInvariant, ProjectionTypeOK, Views, Idle
  <2>3. view'.projected = attach_projected_quantities(view.items,
                              accumulate_projection_deltas(view.user))
    BY <2>1 DEF ListLegs
  <2>4. \A row \in Shelf : view.items[row] = stock[<<view.user, row[1], row[2]>>]
    BY DEF ProjectionInvariant, QuietListIsFresh
  <2>5. Foretells(view.user, attach_projected_quantities(view.items,
                                 accumulate_projection_deltas(view.user)))
    BY <2>2, <2>4, FreshProjectionForetells
  <2> QED BY <2>3, <2>5
<1> QED BY <1>1, ProjectionInitially, ProjectionInductive, PTL
        DEF ProjectionSpec, ProjectionIsTheOutcome

-----------------------------------------------------------------------------
(***************************************************************************)
(* Favourites and views                                                    *)
(***************************************************************************)
FavoritesInvariant == FavoritesTypeOK /\ FavoriteAsAnswered

ToggleCalls == [op: {"delete", "insert"}, mark: Marks]

LEMMA IdleIsNoToggle ==
    ASSUME NEW c \in {Idle} \cup ToggleCalls, c.op \in {"delete", "insert"}
    PROVE  c \in ToggleCalls
  BY DEF Idle, ToggleCalls

LEMMA MarkParts ==
    ASSUME NEW k \in Marks
    PROVE  k[2] \in FavEvents
  BY DEF Marks

LEMMA FavoritesInitially == FavoritesInit => FavoritesInvariant
  BY DEF FavoritesInit, FavoritesInvariant, FavoritesTypeOK, FavoriteAsAnswered

\* A forgotten mark is neither stored nor answered to be.
LEMMA Forgetting ==
    ASSUME FavoritesInvariant, NEW marks \in SUBSET Marks, Forget(marks)
    PROVE  /\ favorites' = favorites \ marks /\ favorites' \subseteq Marks
           /\ answered' \in [Marks -> BOOLEAN]
           /\ \A k \in Marks : k \in favorites' <=> answered'[k]
  BY DEF FavoritesInvariant, FavoritesTypeOK, FavoriteAsAnswered, Forget

LEMMA FavoritesInductive ==
    FavoritesInvariant /\ [FavoritesNext]_favoriteVars => FavoritesInvariant'
  <1> SUFFICES ASSUME FavoritesInvariant, [FavoritesNext]_favoriteVars
               PROVE  FavoritesInvariant'
    OBVIOUS
  <1>a. FavoritesTypeOK /\ FavoriteAsAnswered
    BY DEF FavoritesInvariant
  <1>b. toggle \in [Sessions -> {Idle} \cup ToggleCalls]
    BY <1>a DEF FavoritesTypeOK, ToggleCalls
  <1>1. ASSUME NEW s \in Sessions, NEW k \in Marks, Tap(s, k) PROVE FavoritesInvariant'
    BY <1>1, <1>a DEF Tap, FavoritesInvariant, FavoritesTypeOK, FavoriteAsAnswered
  <1>2. ASSUME NEW s \in Sessions, ToggleDelete(s) PROVE FavoritesInvariant'
    <2>1. toggle[s] \in ToggleCalls
      BY <1>2, <1>b, IdleIsNoToggle DEF ToggleDelete
    <2>2. PICK k \in Marks : k = toggle[s].mark
      BY <2>1 DEF ToggleCalls
    <2>3. CASE k \in favorites
      <3>1. /\ favorites' = favorites \ {k}
            /\ answered' = [answered EXCEPT ![k] = FALSE]
            /\ toggle' = [toggle EXCEPT ![s] = Idle]
            /\ UNCHANGED <<present, views>>
        BY <1>2, <2>2, <2>3 DEF ToggleDelete, Finish
      <3> QED BY <3>1, <1>a DEF FavoritesInvariant, FavoritesTypeOK, FavoriteAsAnswered
    <2>4. CASE k \notin favorites
      <3> DEFINE c == [toggle[s] EXCEPT !.op = "insert"]
      <3>1. c \in ToggleCalls
        BY <2>1 DEF ToggleCalls
      <3>2. toggle' = [toggle EXCEPT ![s] = c] /\ UNCHANGED <<favorites, answered, present, views>>
        BY <1>2, <2>2, <2>4 DEF ToggleDelete
      <3> HIDE DEF c
      <3>3. toggle' \in [Sessions -> {Idle} \cup ToggleCalls]
        BY <3>1, <3>2, <1>b
      <3> QED BY <3>2, <3>3, <1>a
              DEF FavoritesInvariant, FavoritesTypeOK, FavoriteAsAnswered, ToggleCalls
    <2> QED BY <2>3, <2>4
  <1>3. ASSUME NEW s \in Sessions, ToggleInsert(s) PROVE FavoritesInvariant'
    <2>1. toggle[s] \in ToggleCalls
      BY <1>3, <1>b, IdleIsNoToggle DEF ToggleInsert
    <2>2. PICK k \in Marks : k = toggle[s].mark
      BY <2>1 DEF ToggleCalls
    <2>3. toggle' = [toggle EXCEPT ![s] = Idle] /\ UNCHANGED <<present, views>>
      BY <1>3, <2>2 DEF ToggleInsert, Finish
    <2>4. CASE k[2] \in present
      <3>1. /\ favorites' = favorites \cup {k}
            /\ answered' = [answered EXCEPT ![k] = TRUE]
        BY <1>3, <2>2, <2>4 DEF ToggleInsert, Finish, Inserted
      <3> QED BY <2>3, <2>4, <3>1, <1>a
              DEF FavoritesInvariant, FavoritesTypeOK, FavoriteAsAnswered
    <2>5. CASE k[2] \notin present
      <3>1. UNCHANGED <<favorites, answered>>
        BY <1>3, <2>2, <2>5 DEF ToggleInsert
      <3> QED BY <2>3, <3>1, <1>a DEF FavoritesInvariant, FavoritesTypeOK, FavoriteAsAnswered
    <2> QED BY <2>4, <2>5
  <1>4. ASSUME NEW e \in FavEvents, EventGoes(e) PROVE FavoritesInvariant'
    <2> DEFINE marks == {k \in Marks : k[2] = e}
    <2>1. /\ favorites' = favorites \ marks /\ favorites' \subseteq Marks
          /\ answered' \in [Marks -> BOOLEAN]
          /\ \A k \in Marks : k \in favorites' <=> answered'[k]
      BY <1>4, Forgetting DEF EventGoes
    <2>2. /\ present' = present \ {e} /\ views' = {v \in views : v[1] # e}
          /\ UNCHANGED toggle
      BY <1>4 DEF EventGoes
    <2>3. \A k \in favorites' : k[2] \in present'
      BY <2>1, <2>2, <1>a DEF FavoritesTypeOK, FavoriteAsAnswered
    <2>4. \A v \in views' : v[1] \in present'
      BY <2>2, <1>a DEF FavoriteAsAnswered
    <2> QED BY <2>1, <2>2, <2>3, <2>4, <1>a
            DEF FavoritesInvariant, FavoritesTypeOK, FavoriteAsAnswered
  <1>5. ASSUME NEW e \in FavEvents, NEW g \in FavGroups, GroupGoes(e, g)
        PROVE  FavoritesInvariant'
    <2>1. /\ favorites' \subseteq favorites /\ favorites' \subseteq Marks
          /\ answered' \in [Marks -> BOOLEAN]
          /\ \A k \in Marks : k \in favorites' <=> answered'[k]
      BY <1>5, Forgetting DEF GroupGoes
    <2>2. UNCHANGED <<present, views, toggle>>
      BY <1>5 DEF GroupGoes
    <2> QED BY <2>1, <2>2, <1>a DEF FavoritesInvariant, FavoritesTypeOK, FavoriteAsAnswered
  <1>6. ASSUME NEW e \in FavEvents, NEW u \in Users, register_view(u, e)
        PROVE  FavoritesInvariant'
    BY <1>6, <1>a DEF register_view, FavoritesInvariant, FavoritesTypeOK, FavoriteAsAnswered
  <1>7. CASE UNCHANGED favoriteVars
    BY <1>7, <1>a DEF favoriteVars, FavoritesInvariant, FavoritesTypeOK, FavoriteAsAnswered
  <1> QED BY <1>1, <1>2, <1>3, <1>4, <1>5, <1>6, <1>7 DEF FavoritesNext

-----------------------------------------------------------------------------
\* Favourites, views and taps keep their types.
THEOREM FavoritesTypeCorrect == FavoritesSpec => []FavoritesTypeOK
  BY FavoritesInitially, FavoritesInductive, PTL DEF FavoritesSpec, FavoritesInvariant

\* However many taps overlap, what is stored is what the last of them to be
\* decided has answered, and nothing is stored for an event that is gone.
THEOREM FavoriteIsAsAnswered == FavoritesSpec => []FavoriteAsAnswered
  BY FavoritesInitially, FavoritesInductive, PTL DEF FavoritesSpec, FavoritesInvariant

-----------------------------------------------------------------------------
(***************************************************************************)
(* The wire                                                                *)
(***************************************************************************)
\* No message has a field that another version would call foreign.
LEMMA NoFieldIsForeign == \A schema \in Schemas : "foreign" \notin FieldsOf(schema)
  BY DEF Schemas, FieldsOf, Schema, ApplyInventoryRequest, BanUserRequest,
     CreateEventRequest, CreateGroupRequest, CreateMerchRequest, CreateUserRequest, Event,
     EventMember, FavoriteGroup, GroupMember, GuestLoginRequest, InventoryItem,
     ListEventMembersResponse, ListGroupMembersResponse, ListGroupsResponse, LoginRequest,
     MatchItem, Merchandise, MerchandiseGroup, Message, MyEventRoleResponse,
     MyGroupRoleResponse, NotificationCounts, OfferItem, OfferTradeRequest, SearchResult,
     SendMessageRequest, ToggleFavoriteGroupRequest, ToggleFavoriteRequest, TradeMatch,
     UpdateEventRequest, UpdateGroupRequest, UpdateInventoryRequest,
     UpdateMatchStatusRequest, UpdateMerchRequest, UpdateUserRoleRequest,
     UpdateUsernameRequest, User, UserActionRequest

LetterTypeOK(stages) ==
    /\ letter.schema \in Schemas
    /\ letter \in [stage: stages, amended: BOOLEAN, schema: {letter.schema},
                   meant: [FieldsOf(letter.schema) -> Values \cup {"unset"}],
                   got: [FieldsOf(letter.schema) -> Values \cup {"unset"}],
                   document: SUBSET Entries(letter.schema),
                   left: SUBSET Entries(letter.schema)]

\* The document says what is meant, and names no other field but with null.
SaysWhatIsMeant ==
    /\ \A f \in FieldsOf(letter.schema) :
        letter.meant[f] # Blank(letter.schema)[f] =>
            /\ letter.meant[f] \in Values
            /\ \E x \in letter.document : x.field = f /\ x.text = letter.meant[f]
    /\ \A x \in letter.document :
        x.field # "foreign" /\ x.text # "null" =>
            letter.meant[x.field] # Blank(letter.schema)[x.field]

\* What the writer itself makes: a value for each field it names.
AsWritten ==
    /\ \A x \in letter.document : x.field # "foreign" /\ x.text # "null"
    /\ \A x, y \in letter.document : x.field = y.field => x = y

ReadSoFar ==
    /\ letter.left \subseteq letter.document
    /\ \A x \in letter.document \ letter.left :
        x.field # "foreign" /\ x.text \in {"null", letter.got[x.field]}
    /\ \A f \in FieldsOf(letter.schema) :
        letter.got[f] # "unset" =>
            \E x \in letter.document \ letter.left : x.field = f /\ x.text = letter.got[f]

WireInvariant ==
    /\ letter.stage \in {"none", "sent", "read", "refused"}
    /\ letter.stage = "sent" =>
        LetterTypeOK({"sent"}) /\ SaysWhatIsMeant /\ ReadSoFar
        /\ (letter.amended \/ AsWritten)
    /\ letter.stage = "read" => LetterTypeOK({"read"})
    /\ DocumentsHaveOneMeaning

USE DEF Entry

LEMMA WireInitially == WireInit => WireInvariant
  BY DEF WireInit, WireInvariant, DocumentsHaveOneMeaning

LEMMA SendKeeps ==
    ASSUME WireInvariant, NEW schema \in Schemas, NEW f \in FieldsOf(schema),
           NEW g \in FieldsOf(schema), Send(schema, f, g)
    PROVE  WireInvariant'
  <1>1. PICK v \in {"zero", "one"} :
          LET message == [Blank(schema) EXCEPT ![f] = v, ![g] = "one"]
          IN  letter' = [stage |-> "sent", amended |-> FALSE, schema |-> schema,
                         meant |-> message, got |-> [x \in FieldsOf(schema) |-> "unset"],
                         document |-> Written(schema, message),
                         left |-> Written(schema, message)]
    BY DEF Send
  <1> DEFINE message == [Blank(schema) EXCEPT ![f] = v, ![g] = "one"]
             F == FieldsOf(schema)
             blank == Blank(schema)
             doc == Written(schema, message)
  <1>2. blank \in [F -> {"zero", "unset"}] /\ message \in [F -> Values \cup {"unset"}]
        /\ \A x \in F : message[x] # blank[x] => message[x] \in Values
    BY DEF Blank, Values
  <1>3. doc = {[field |-> x, spelling |-> "camel", text |-> message[x]] :
                 x \in {y \in F : message[y] # blank[y]}}
    BY DEF Written
  <1>4. letter' = [stage |-> "sent", amended |-> FALSE, schema |-> schema,
                   meant |-> message, got |-> [x \in F |-> "unset"],
                   document |-> doc, left |-> doc]
    BY <1>1
  <1>5. "foreign" \notin F
    BY NoFieldIsForeign
  <1> HIDE DEF message, doc, F, blank
  <1>6. doc \subseteq [field: F, spelling: {"camel"}, text: Values]
        /\ \A x \in doc : x.text = message[x.field] /\ message[x.field] # blank[x.field]
    BY <1>2, <1>3
  <1>7. LetterTypeOK({"sent"})'
    <2>1. doc \subseteq Entries(schema)
      BY <1>6 DEF Entries, F
    <2> QED BY <1>2, <1>4, <2>1 DEF LetterTypeOK, F, Values
  <1>8. SaysWhatIsMeant'
    <2>1. \A x \in F : message[x] # blank[x] =>
            \E y \in doc : y.field = x /\ y.text = message[x]
      <3> SUFFICES ASSUME NEW x \in F, message[x] # blank[x]
                   PROVE  \E y \in doc : y.field = x /\ y.text = message[x]
        OBVIOUS
      <3>1. [field |-> x, spelling |-> "camel", text |-> message[x]] \in doc
        BY <1>3
      <3> QED BY <3>1
    <2> QED BY <1>2, <1>4, <1>6, <2>1 DEF SaysWhatIsMeant, F, blank
  <1>9. ReadSoFar'
    BY <1>4 DEF ReadSoFar, F
  <1>10. AsWritten'
    <2>1. \A x, y \in doc : x.field = y.field => x = y
      BY <1>6
    <2>2. \A x \in doc : x.field # "foreign" /\ x.text # "null"
      BY <1>5, <1>6 DEF Values
    <2> QED BY <1>4, <2>1, <2>2 DEF AsWritten
  <1> QED BY <1>4, <1>7, <1>8, <1>9, <1>10 DEF WireInvariant, DocumentsHaveOneMeaning

\* The parts of a letter under way.
LEMMA SentParts ==
    ASSUME WireInvariant, letter.stage = "sent"
    PROVE  /\ LetterTypeOK({"sent"}) /\ SaysWhatIsMeant /\ ReadSoFar
           /\ letter.amended \/ AsWritten
           /\ letter.amended \in BOOLEAN /\ letter.schema \in Schemas
           /\ letter.document \subseteq Entries(letter.schema)
           /\ letter.left \subseteq letter.document
           /\ "foreign" \notin FieldsOf(letter.schema)
  BY NoFieldIsForeign DEF WireInvariant, LetterTypeOK, ReadSoFar

LEMMA RespellKeeps == WireInvariant /\ Respell => WireInvariant'
  <1> SUFFICES ASSUME WireInvariant, Respell PROVE WireInvariant'
    OBVIOUS
  <1> DEFINE doc == letter.document
             snake == {[x EXCEPT !.spelling = "snake"] : x \in doc}
  <1>1. letter.stage = "sent" /\ letter.left = doc /\ ~letter.amended
    BY DEF Respell, Untouched
  <1>2. letter' = [letter EXCEPT !.document = snake, !.left = snake]
    BY DEF Respell
  <1>3. /\ LetterTypeOK({"sent"}) /\ SaysWhatIsMeant /\ ReadSoFar /\ AsWritten
        /\ doc \subseteq Entries(letter.schema)
    BY <1>1, SentParts
  <1>4. /\ snake \subseteq Entries(letter.schema)
        /\ \A y \in snake : \E x \in doc : y = [x EXCEPT !.spelling = "snake"]
                              /\ y.field = x.field /\ y.text = x.text
        /\ \A x \in doc : \E y \in snake : y.field = x.field /\ y.text = x.text
    <2>1. \A x \in doc : LET y == [x EXCEPT !.spelling = "snake"]
                         IN  /\ y \in Entries(letter.schema) /\ y \in snake
                             /\ y.field = x.field /\ y.text = x.text
      BY <1>3 DEF Entries
    <2> QED BY <2>1
  <1> HIDE DEF snake
  <1>5. /\ letter'.document = snake /\ letter'.left = snake
        /\ letter'.stage = "sent" /\ letter'.amended = letter.amended
        /\ letter'.schema = letter.schema /\ letter'.meant = letter.meant
        /\ letter'.got = letter.got
        /\ LetterTypeOK({"sent"})'
    BY <1>1, <1>2, <1>3, <1>4 DEF LetterTypeOK
  <1>6. SaysWhatIsMeant'
    BY <1>3, <1>4, <1>5 DEF SaysWhatIsMeant
  <1>7. ReadSoFar'
    BY <1>1, <1>3, <1>5 DEF ReadSoFar
  <1>8. AsWritten'
    BY <1>3, <1>4, <1>5 DEF AsWritten
  <1> QED BY <1>1, <1>5, <1>6, <1>7, <1>8 DEF WireInvariant, DocumentsHaveOneMeaning

LEMMA AmendKeeps ==
    ASSUME WireInvariant, Untouched, NEW x \in Entries(letter.schema), Amend(x)
    PROVE  WireInvariant'
  <1> DEFINE doc == letter.document
  <1>1. letter.stage = "sent" /\ letter.left = doc /\ ~letter.amended
    BY DEF Untouched
  <1>2. letter' = [letter EXCEPT !.document = doc \cup {x}, !.left = doc \cup {x},
                                 !.amended = TRUE]
    BY <1>1 DEF Amend
  <1>3. /\ LetterTypeOK({"sent"}) /\ SaysWhatIsMeant /\ ReadSoFar /\ AsWritten
        /\ doc \subseteq Entries(letter.schema)
    BY <1>1, SentParts
  <1>4. /\ letter'.document = doc \cup {x} /\ letter'.left = doc \cup {x}
        /\ letter'.stage = "sent" /\ letter'.amended
        /\ letter'.schema = letter.schema /\ letter'.meant = letter.meant
        /\ letter'.got = letter.got
        /\ LetterTypeOK({"sent"})'
    BY <1>1, <1>2, <1>3 DEF LetterTypeOK
  <1>5. x.field # "foreign" /\ x.text # "null" =>
            letter.meant[x.field] # Blank(letter.schema)[x.field]
    BY <1>3 DEF Amend, SaysWhatIsMeant, AsWritten
  <1>6. SaysWhatIsMeant'
    BY <1>3, <1>4, <1>5 DEF SaysWhatIsMeant
  <1>7. ReadSoFar'
    BY <1>1, <1>3, <1>4 DEF ReadSoFar
  <1> QED BY <1>4, <1>6, <1>7 DEF WireInvariant, DocumentsHaveOneMeaning

LEMMA ReadEntryKeeps == WireInvariant /\ ReadEntry => WireInvariant'
  <1> SUFFICES ASSUME WireInvariant, letter.stage = "sent", NEW x \in letter.left,
                      letter' = IF Refused(x)
                                THEN [stage |-> "refused", amended |-> letter.amended]
                                ELSE [letter EXCEPT
                                        !.left = @ \ {x},
                                        !.got[x.field] = IF x.text = "null" THEN "unset"
                                                         ELSE x.text]
               PROVE  WireInvariant'
    BY DEF ReadEntry
  <1> DEFINE doc == letter.document
  <1>1. /\ LetterTypeOK({"sent"}) /\ SaysWhatIsMeant /\ ReadSoFar
        /\ letter.amended \/ AsWritten
        /\ doc \subseteq Entries(letter.schema) /\ letter.left \subseteq doc
        /\ "foreign" \notin FieldsOf(letter.schema)
    BY SentParts
  <1>2. CASE Refused(x)
    <2>1. letter.amended
      BY <1>1, <1>2 DEF Refused, Repeated, AsWritten, ReadSoFar, Entries
    <2> QED BY <1>2, <2>1 DEF WireInvariant, DocumentsHaveOneMeaning
  <1>3. CASE ~Refused(x)
    <2> DEFINE text == IF x.text = "null" THEN "unset" ELSE x.text
    <2>1. x.field \in FieldsOf(letter.schema) /\ letter.got[x.field] = "unset"
          /\ x.text \in Values \cup {"null"}
      BY <1>1, <1>3 DEF Refused, Repeated, Entries
    <2>2. letter' = [letter EXCEPT !.left = @ \ {x}, !.got[x.field] = text]
      BY <1>3
    <2>3. text \in Values \cup {"unset"} /\ (x.text # "null" => text = x.text)
          /\ (text # "unset" => text = x.text)
      BY <2>1 DEF Values
    <2> HIDE DEF text
    <2> DEFINE got == [letter.got EXCEPT ![x.field] = text]
    <2>a. letter' = [letter EXCEPT !.left = letter.left \ {x}, !.got = got]
      BY <2>2
    <2>b. got \in [FieldsOf(letter.schema) -> Values \cup {"unset"}]
      BY <1>1, <2>1, <2>3 DEF LetterTypeOK
    <2> HIDE DEF got
    <2>4. /\ letter'.document = doc /\ letter'.left = letter.left \ {x}
          /\ letter'.stage = "sent" /\ letter'.amended = letter.amended
          /\ letter'.schema = letter.schema /\ letter'.meant = letter.meant
          /\ letter'.got = got
      BY <1>1, <2>a DEF LetterTypeOK
    <2>c. LetterTypeOK({"sent"})'
      <3> DEFINE R(V, E) ==
            [stage: {"sent"}, amended: BOOLEAN, schema: {letter.schema},
             meant: V, got: V, document: E, left: E]
      <3>1. ASSUME NEW V, NEW E, letter \in R(V, E), got \in V,
                   letter.left \ {x} \in E
            PROVE  letter' \in R(V, E)
        BY <2>a, <3>1
      <3>2. letter' \in R([FieldsOf(letter.schema) -> Values \cup {"unset"}],
                          SUBSET Entries(letter.schema))
        <4>1. letter.left \ {x} \in SUBSET Entries(letter.schema)
          BY <1>1
        <4>2. letter \in R([FieldsOf(letter.schema) -> Values \cup {"unset"}],
                           SUBSET Entries(letter.schema))
          BY <1>1 DEF LetterTypeOK
        <4> HIDE DEF R
        <4> QED BY <2>b, <3>1, <4>1, <4>2
      <3>3. letter'.schema = letter.schema /\ letter.schema \in Schemas
        BY <1>1, <2>4 DEF LetterTypeOK
      <3> QED BY <3>2, <3>3 DEF LetterTypeOK
    <2>5. letter'.got[x.field] = text
          /\ \A f \in FieldsOf(letter.schema) \ {x.field} : letter'.got[f] = letter.got[f]
      BY <1>1, <2>1, <2>4, <2>c DEF LetterTypeOK, got
    <2>6. ReadSoFar'
      <3>1. ASSUME NEW y \in doc \ (letter.left \ {x})
            PROVE  y.field # "foreign" /\ y.text \in {"null", letter'.got[y.field]}
        <4>1. CASE y = x
          BY <1>1, <2>1, <2>3, <2>5, <4>1
        <4>2. CASE y # x
          <5>1. y.field # "foreign" /\ y.text \in {"null", letter.got[y.field]}
            BY <1>1, <4>2 DEF ReadSoFar
          <5>2. y.field \in FieldsOf(letter.schema) /\ y.text \in Values \cup {"null"}
            BY <1>1, <5>1 DEF Entries
          <5> QED BY <2>1, <2>5, <5>1, <5>2 DEF Values
        <4> QED BY <4>1, <4>2
      <3>2. ASSUME NEW f \in FieldsOf(letter.schema), letter'.got[f] # "unset"
            PROVE  \E y \in doc \ (letter.left \ {x}) :
                      y.field = f /\ y.text = letter'.got[f]
        <4>1. CASE f = x.field
          BY <1>1, <2>3, <2>5, <3>2, <4>1
        <4>2. CASE f # x.field
          BY <1>1, <2>5, <3>2, <4>2 DEF ReadSoFar
        <4> QED BY <4>1, <4>2
      <3> QED BY <1>1, <2>4, <3>1, <3>2 DEF ReadSoFar
    <2>7. SaysWhatIsMeant' /\ (letter'.amended \/ AsWritten')
      BY <1>1, <2>4 DEF SaysWhatIsMeant, AsWritten
    <2> QED BY <2>4, <2>c, <2>6, <2>7 DEF WireInvariant, DocumentsHaveOneMeaning
  <1> QED BY <1>2, <1>3

LEMMA FillDefaultsKeeps == WireInvariant /\ FillDefaults => WireInvariant'
  <1> SUFFICES ASSUME WireInvariant, FillDefaults PROVE WireInvariant'
    OBVIOUS
  <1> DEFINE F == FieldsOf(letter.schema)
             blank == Blank(letter.schema)
             filled == [f \in F |-> IF letter.got[f] = "unset" THEN blank[f]
                                    ELSE letter.got[f]]
  <1>1. letter.stage = "sent" /\ letter.left = {}
    BY DEF FillDefaults
  <1>2. /\ LetterTypeOK({"sent"}) /\ SaysWhatIsMeant /\ ReadSoFar
        /\ letter.document \subseteq Entries(letter.schema)
    BY <1>1, SentParts
  <1>3. letter' = [letter EXCEPT !.stage = "read", !.got = filled]
    <2>1. DOMAIN letter.got = F
      BY <1>2 DEF LetterTypeOK
    <2> QED BY <2>1 DEF FillDefaults
  <1>4. blank \in [F -> Values \cup {"unset"}]
    BY DEF Blank, Values
  <1>5. \A f \in F : filled[f] = letter.meant[f]
    <2> SUFFICES ASSUME NEW f \in F PROVE filled[f] = letter.meant[f]
      OBVIOUS
    <2>1. CASE letter.meant[f] # blank[f]
      <3>1. letter.got[f] = letter.meant[f] /\ letter.meant[f] \in Values
        BY <1>1, <1>2, <2>1 DEF SaysWhatIsMeant, ReadSoFar, Values
      <3> QED BY <3>1 DEF Values
    <2>2. CASE letter.meant[f] = blank[f]
      <3>1. letter.got[f] = "unset"
        <4> SUFFICES ASSUME letter.got[f] # "unset" PROVE FALSE
          OBVIOUS
        <4>1. PICK x \in letter.document : x.field = f /\ x.text = letter.got[f]
          BY <1>2 DEF ReadSoFar
        <4>2. letter.got[f] \in Values /\ "foreign" \notin F
          BY <1>2, NoFieldIsForeign DEF LetterTypeOK
        <4> QED BY <1>2, <2>2, <4>1, <4>2 DEF SaysWhatIsMeant, Values
      <3> QED BY <2>2, <3>1
    <2> QED BY <2>1, <2>2
  <1>6. letter.meant \in [F -> Values \cup {"unset"}] /\ letter.got \in [F -> Values \cup {"unset"}]
    BY <1>2 DEF LetterTypeOK
  <1>7. filled = letter.meant
    <2>1. filled \in [F -> Values \cup {"unset"}]
      BY <1>4, <1>6
    <2> HIDE DEF filled, F
    <2> QED BY <1>5, <1>6, <2>1
  <1>8. \A x \in letter.document : x.text \in {"null", filled[x.field]}
    <2> SUFFICES ASSUME NEW x \in letter.document
                 PROVE  x.text \in {"null", filled[x.field]}
      OBVIOUS
    <2>1. x.field # "foreign" /\ x.text \in {"null", letter.got[x.field]}
      BY <1>1, <1>2 DEF ReadSoFar
    <2>2. x.field \in F /\ x.text \in Values \cup {"null"}
      BY <1>2, <2>1 DEF Entries
    <2> QED BY <2>1, <2>2 DEF Values
  <1> HIDE DEF filled
  <1>9. /\ letter'.stage = "read" /\ letter'.got = filled /\ letter'.meant = letter.meant
        /\ letter'.document = letter.document /\ letter'.schema = letter.schema
        /\ LetterTypeOK({"read"})'
    BY <1>2, <1>3, <1>6, <1>7 DEF LetterTypeOK
  <1> QED BY <1>7, <1>8, <1>9 DEF WireInvariant, DocumentsHaveOneMeaning

LEMMA WireInductive == WireInvariant /\ [WireNext]_letter => WireInvariant'
  <1>1. WireInvariant /\ UNCHANGED letter => WireInvariant'
    BY DEF WireInvariant, LetterTypeOK, SaysWhatIsMeant, ReadSoFar, AsWritten,
           DocumentsHaveOneMeaning
  <1> QED BY <1>1, SendKeeps, RespellKeeps, AmendKeeps, ReadEntryKeeps, FillDefaultsKeeps
          DEF WireNext

LEMMA WireTypes == WireInvariant => WireTypeOK
  BY DEF WireInvariant, LetterTypeOK, WireTypeOK

\* A message under way keeps the fields of its schema, in what is meant, in the
\* document and in what has been read.
THEOREM WireTypeCorrect == WireSpec => []WireTypeOK
  BY WireInitially, WireInductive, WireTypes, PTL DEF WireSpec

\* What serde reads is what was written, for every message of the schema, any
\* document a client may send for it and any order of its fields; and what it
\* refuses was tampered with on the way.
THEOREM AcceptedIsMeant == WireSpec => []DocumentsHaveOneMeaning
  <1>1. WireInvariant => DocumentsHaveOneMeaning
    BY DEF WireInvariant
  <1> QED BY <1>1, WireInitially, WireInductive, PTL DEF WireSpec

-----------------------------------------------------------------------------
(***************************************************************************)
(* Web push                                                                *)
(***************************************************************************)
(***************************************************************************)
(* The inductive invariant.  A task remembers what it read: endpoints that *)
(* were its reader's at that time and may be another's by now.  What stays *)
(* true of them is that the reader once registered them, and that an       *)
(* endpoint to prune has been given up.                                    *)
(***************************************************************************)
OwnersRegistered == \A e \in Endpoints : owner[e] \in Users => owner[e] \in registered[e]

TaskKnows(j) ==
    /\ j.op \in {"spawned", "sending", "pruning"} =>
        /\ j.reader # j.actor
        /\ \A e \in j.left : j.reader \in registered[e]
    /\ j.op = "pruning" => j.endpoint \in dead

PushInvariant ==
    /\ PushTypeOK
    /\ OwnersRegistered
    /\ \A s \in Sessions : TaskKnows(job[s])
    /\ NoticesReachTheirReader

USE PartyAssumption, DealAssumption

LEMMA OtherParticipantDiffers ==
    ASSUME NEW d \in Deals, NEW u \in Users, u \in {d[1], d[2]}
    PROVE  other_participant(d, u) \in Users \ {u}
  BY DEF other_participant

\* What is left after one endpoint is idle or a smaller list.
LEMMA RestKnows ==
    ASSUME PushInvariant, NEW s \in Sessions, NEW e,
           job[s].op \in {"sending", "pruning"}
    PROVE  Rest(s, e) \in PushJobs /\ TaskKnows(Rest(s, e))
  <1> DEFINE j == job[s]
  <1>1. j \in PushJobs /\ TaskKnows(j)
    BY DEF PushInvariant, PushTypeOK
  <1>2. j.reader \in Users /\ j.actor \in Users /\ j.left \in SUBSET Endpoints
    BY <1>1 DEF PushJobs, Notices, Idle
  <1> QED BY <1>1, <1>2 DEF Rest, TaskKnows, PushJobs, Notices, Idle

-----------------------------------------------------------------------------
LEMMA PushInitially == PushInit => PushInvariant
  BY DEF PushInit, PushInvariant, PushTypeOK, OwnersRegistered, TaskKnows,
         NoticesReachTheirReader, PushJobs, Idle

LEMMA PushInductive == PushInvariant /\ [PushNext]_pushVars => PushInvariant'
  <1> SUFFICES ASSUME PushInvariant, [PushNext]_pushVars PROVE PushInvariant'
    OBVIOUS
  <1> USE DEF PushInvariant, PushTypeOK, OwnersRegistered, NoticesReachTheirReader
  <1>1. ASSUME NEW u \in Users, NEW e \in Endpoints, upsert_push_subscription(u, e)
        PROVE  PushInvariant'
    BY <1>1 DEF upsert_push_subscription, TaskKnows, PushJobs, Notices, Idle
  <1>2. ASSUME NEW e \in Endpoints, EndpointDies(e) PROVE PushInvariant'
    BY <1>2 DEF EndpointDies, TaskKnows
  <1>3. ASSUME NEW s \in Sessions, NEW u \in Users, NEW e \in Endpoints,
               Unsubscribe(s, u, e)
        PROVE  PushInvariant'
    BY <1>3 DEF Unsubscribe, SetJob, TaskKnows, PushJobs
  <1>4. ASSUME NEW s \in Sessions, delete_push_subscription(s) PROVE PushInvariant'
    BY <1>4 DEF delete_push_subscription, delete_by_endpoint, SetJob, TaskKnows, PushJobs, Idle
  <1>5. ASSUME NEW s \in Sessions, NEW d \in Deals, NEW u \in Users,
               schedule_notify_from_actor(s, d, u)
        PROVE  PushInvariant'
    BY <1>5, OtherParticipantDiffers
       DEF schedule_notify_from_actor, SetJob, TaskKnows, PushJobs, Notices
  <1>6. ASSUME NEW s \in Sessions, notify_user(s) PROVE PushInvariant'
    <2> DEFINE subs == list_by_user(job[s].reader)
               listed == [job[s] EXCEPT !.op = "sending", !.left = subs]
    <2>1. job[s] \in Notices /\ job[s].reader # job[s].actor
      BY <1>6 DEF notify_user, TaskKnows, PushJobs, Notices, Idle
    <2>2. subs \subseteq Endpoints /\ \A e \in subs : job[s].reader \in registered[e]
      BY <2>1 DEF list_by_user, Notices
    <2>3. listed \in Notices /\ listed.reader = job[s].reader /\ listed.left = subs
          /\ listed.actor = job[s].actor /\ listed.op = "sending"
      BY <2>1, <2>2 DEF Notices
    <2>4. listed \in PushJobs /\ TaskKnows(listed)
      BY <2>1, <2>2, <2>3 DEF TaskKnows, PushJobs
    <2>5. Idle \in PushJobs /\ TaskKnows(Idle)
      BY DEF Idle, PushJobs, TaskKnows
    <2> HIDE DEF listed
    <2> QED BY <1>6, <2>4, <2>5 DEF notify_user, SetJob, TaskKnows, listed
  <1>7. ASSUME NEW s \in Sessions, Delivered(s) PROVE PushInvariant'
    BY <1>7, RestKnows DEF Delivered, SetJob, TaskKnows, PushJobs, Notices, Idle
  <1>8. ASSUME NEW s \in Sessions, SendFails(s) PROVE PushInvariant'
    BY <1>8, RestKnows DEF SendFails, SetJob, TaskKnows
  <1>9. ASSUME NEW s \in Sessions, SubscriptionGone(s) PROVE PushInvariant'
    BY <1>9 DEF SubscriptionGone, GoneFor, SetJob, TaskKnows, PushJobs, Notices, Idle
  <1>10. ASSUME NEW s \in Sessions, Prune(s) PROVE PushInvariant'
    BY <1>10, RestKnows DEF Prune, delete_by_endpoint, SetJob, TaskKnows
  <1>11. CASE UNCHANGED pushVars
    BY <1>11 DEF pushVars, TaskKnows
  <1> QED
    BY <1>1, <1>2, <1>3, <1>4, <1>5, <1>6, <1>7, <1>8, <1>9, <1>10, <1>11 DEF PushNext

-----------------------------------------------------------------------------
\* Tasks, subscriptions and history keep their types.
THEOREM PushTypeCorrect == PushSpec => []PushTypeOK
  BY PushInitially, PushInductive, PTL DEF PushSpec, PushInvariant

\* A notice is delivered only to browsers that its reader has registered, and
\* tells what another user did, however long its list of endpoints has been
\* out of date.
THEOREM PushReachesItsReader == PushSpec => []NoticesReachTheirReader
  BY PushInitially, PushInductive, PTL DEF PushSpec, PushInvariant

\* A subscription goes only by its owner's call or because its endpoint has
\* been given up.
THEOREM PushRowsGoForACause == PushSpec => RowsGoForACause
  <1> DEFINE Cause == \A e \in Endpoints :
                        owner[e] \in Users /\ owner'[e] = NoUser =>
                          \/ e \in dead
                          \/ \E s \in Sessions :
                                job[s] = [op |-> "unsubscribe", user |-> owner[e],
                                          endpoint |-> e]
  <1>1. PushInvariant /\ [PushNext]_pushVars => [Cause]_pushVars
    <2> SUFFICES ASSUME PushInvariant, PushNext,
                        NEW e \in Endpoints, owner[e] \in Users, owner'[e] = NoUser
                 PROVE  \/ e \in dead
                        \/ \E s \in Sessions :
                              job[s] = [op |-> "unsubscribe", user |-> owner[e],
                                        endpoint |-> e]
      OBVIOUS
    <2> USE DEF PushInvariant, PushTypeOK
    <2>1. ASSUME NEW s \in Sessions, delete_push_subscription(s)
          PROVE  job[s] = [op |-> "unsubscribe", user |-> owner[e], endpoint |-> e]
      <3>1. job[s] \in [op: {"unsubscribe"}, user: Users, endpoint: Endpoints]
        BY <2>1 DEF delete_push_subscription, PushJobs, Notices, Idle
      <3> QED BY <2>1, <3>1 DEF delete_push_subscription, delete_by_endpoint
    <2>2. ASSUME NEW s \in Sessions, Prune(s) PROVE e \in dead
      BY <2>2 DEF Prune, delete_by_endpoint, TaskKnows
    <2> QED
      BY <2>1, <2>2 DEF PushNext, upsert_push_subscription, EndpointDies, Unsubscribe,
         schedule_notify_from_actor, notify_user, Delivered, SendFails, SubscriptionGone
  <1> QED BY <1>1, PushInitially, PushInductive, PTL DEF PushSpec, RowsGoForACause

-----------------------------------------------------------------------------
(***************************************************************************)
(* All services                                                            *)
(***************************************************************************)
LEMMA EachServiceTakesItsSteps ==
    /\ Spec => ChatSpec /\ PushSpec /\ SignInSpec
    /\ Spec => ProjectionSpec /\ FavoritesSpec /\ WireSpec
  <1>1. [Next]_vars => /\ [ChatNext]_chatVars /\ [PushNext]_pushVars
                       /\ [SignInNext]_signInVars /\ [ProjectionNext]_projectionVars
                       /\ [FavoritesNext]_favoriteVars /\ [WireNext]_letter
    BY DEF Next, vars
  <1>2. Init => /\ ChatInit /\ PushInit /\ SignInInit
                /\ ProjectionInit /\ FavoritesInit /\ WireInit
    BY DEF Init
  <1> QED BY <1>1, <1>2, PTL DEF Spec, ChatSpec, PushSpec, SignInSpec, ProjectionSpec,
          FavoritesSpec, WireSpec

(***************************************************************************)
(* Every service keeps its types, whichever of them moves.                 *)
(***************************************************************************)
THEOREM ServicesTypeCorrect == Spec => []TypeOK
  <1>1. ChatTypeOK /\ PushTypeOK /\ SignInTypeOK /\ ProjectionTypeOK /\ FavoritesTypeOK
          /\ WireTypeOK => TypeOK
    BY DEF TypeOK
  <1> QED BY <1>1, EachServiceTakesItsSteps, ChatTypeCorrect, PushTypeCorrect,
             SignInTypeCorrect, ProjectionTypeCorrect, FavoritesTypeCorrect,
             WireTypeCorrect, PTL
=============================================================================
