--------------------------- MODULE ComponentProofs ---------------------------
(* What TLAPS proves of components around the lifecycle of a run:          *)
(* Confirmation, for any runs, calendars and outages; MarketCalendar, for  *)
(* any ranges and revisions; TradeTape, for any tape and any meaning of    *)
(* its codes; RateLimits, for any clients and limits; DecisionWeek, for    *)
(* any candidates, weights and forecasts; SequentialTest, for any          *)
(* outcomes, threshold and number of weeks.                                *)
EXTENDS Confirmation, MarketCalendar, TradeTape, RateLimits, DecisionWeek,
        SequentialTest, FiniteSetTheorems, SequenceTheorems, WellFoundedInduction, TLAPS

-----------------------------------------------------------------------------
(* The least member of a set of numbers.                                   *)

\* Every nonempty set of numbers has a least member.
LEMMA LeastExists ==
    ASSUME NEW S \in SUBSET Nat, S # {}
    PROVE  \E m \in S : \A k \in S : m <= k
<1>1. PICK m \in S : \A y \in S : ~(<<y, m>> \in OpToRel(<, Nat))
  BY WFMin, NatLessThanWellFounded, Zenon
<1>2. \A y \in S : ~(y < m)
  BY <1>1, Zenon DEF OpToRel
<1> QED BY <1>2

\* Every nonempty bounded set of numbers has a greatest member.
LEMMA GreatestExists ==
    ASSUME NEW n \in Nat, NEW S \in SUBSET (0..n), S # {}
    PROVE  \E m \in S : \A k \in S : k <= m
<1> DEFINE T == {n - k : k \in S}
<1>1. T \in SUBSET Nat /\ T # {}
  OBVIOUS
<1>2. PICK t \in T : \A u \in T : t <= u
  BY <1>1, LeastExists
<1>3. PICK m \in S : t = n - m
  BY <1>2
<1>4. \A k \in S : n - m <= n - k
  BY <1>2, <1>3
<1> QED BY <1>4

-----------------------------------------------------------------------------
(* Sums over finite sets: the fold of the community modules removes one    *)
(* chosen member after the other; the sum does not depend on the choice.   *)

\* Among finite sets one is smallest.
LEMMA SmallestSet ==
    ASSUME NEW C, C # {}, \A c \in C : IsFiniteSet(c)
    PROVE  \E m \in C : \A c \in C : ~(Cardinality(c) < Cardinality(m))
<1> DEFINE N == {Cardinality(c) : c \in C}
<1>1. N \in SUBSET Nat /\ N # {}
  BY FS_CardinalityType
<1>2. PICK n \in N : \A k \in N : n <= k
  BY <1>1, LeastExists
<1>3. PICK m \in C : n = Cardinality(m)
  BY <1>2
<1>4. \A c \in C : Cardinality(m) <= Cardinality(c) /\ Cardinality(c) \in Nat
  BY <1>1, <1>2, <1>3
<1> QED BY <1>3, <1>4, FS_CardinalityType

\* Removing a member of a finite set makes a smaller finite set.
LEMMA RemovalShrinks ==
    ASSUME NEW S, IsFiniteSet(S), NEW x \in S
    PROVE  IsFiniteSet(S \ {x}) /\ Cardinality(S \ {x}) < Cardinality(S)
<1>1. Cardinality(S \ {x}) = Cardinality(S) - 1 /\ IsFiniteSet(S \ {x})
  BY FS_RemoveElement
<1>2. Cardinality(S) \in Nat
  BY FS_CardinalityType
<1> QED BY <1>1, <1>2

AnyOf(s) == CHOOSE x \in s : TRUE

\* f is the sum of h over every subset of S, in the order of the choice.
IsTotal(f, h, S) ==
    /\ f = [s \in SUBSET S |-> f[s]]
    /\ f[{}] = 0
    /\ \A s \in SUBSET S : s # {} => f[s] = h[AnyOf(s)] + f[s \ {AnyOf(s)}]
Total(h, S) == (CHOOSE f : IsTotal(f, h, S))[S]

LEMMA TotalsAgree ==
    ASSUME NEW h, NEW S, NEW T, NEW f, NEW g, IsTotal(f, h, S), IsTotal(g, h, T),
           IsFiniteSet(T), T \subseteq S
    PROVE  \A s \in SUBSET T : f[s] = g[s]
<1> DEFINE C == {s \in SUBSET T : f[s] # g[s]}
<1> SUFFICES ASSUME C # {} PROVE FALSE
  OBVIOUS
<1>1. \A s \in C : IsFiniteSet(s)
  BY FS_Subset
<1>2. PICK s \in C : \A c \in C : ~(Cardinality(c) < Cardinality(s))
  BY <1>1, SmallestSet
<1>3. s \in SUBSET T /\ s \in SUBSET S /\ f[s] # g[s] /\ s # {}
  BY DEF IsTotal
<1>4. AnyOf(s) \in s
  BY <1>3 DEF AnyOf
<1>5. s \ {AnyOf(s)} \notin C
  BY <1>1, <1>2, <1>4, RemovalShrinks
<1>6. f[s \ {AnyOf(s)}] = g[s \ {AnyOf(s)}]
  BY <1>3, <1>5
<1> QED BY <1>3, <1>6 DEF IsTotal

LEMMA TotalsExist ==
    ASSUME NEW h, NEW S, IsFiniteSet(S)
    PROVE  \E f : IsTotal(f, h, S)
<1> DEFINE C == {s \in SUBSET S : ~\E f : IsTotal(f, h, s)}
<1> SUFFICES ASSUME C # {} PROVE FALSE
  OBVIOUS
<1>1. \A s \in C : IsFiniteSet(s)
  BY FS_Subset
<1>2. PICK s \in C : \A c \in C : ~(Cardinality(c) < Cardinality(s))
  BY <1>1, SmallestSet
<1>3. s \in SUBSET S /\ IsFiniteSet(s) /\ ~\E f : IsTotal(f, h, s)
  BY <1>1, <1>2
<1>4. \A t \in SUBSET s : t # s => IsTotal(CHOOSE f : IsTotal(f, h, t), h, t)
  <2> SUFFICES ASSUME NEW t \in SUBSET s, t # s PROVE \E f : IsTotal(f, h, t)
    OBVIOUS
  <2>1. Cardinality(t) < Cardinality(s) /\ IsFiniteSet(t)
    BY <1>3, FS_Subset, FS_CardinalityType
  <2> QED BY <1>2, <1>3, <2>1
<1> DEFINE V(t) == IF t = {} THEN 0
                   ELSE h[AnyOf(t)] + Total(h, t \ {AnyOf(t)})
<1>5. \A t \in SUBSET s : t # s => Total(h, t) = V(t)
  <2> SUFFICES ASSUME NEW t \in SUBSET s, t # s PROVE Total(h, t) = V(t)
    OBVIOUS
  <2>1. PICK f : f = CHOOSE f1 : IsTotal(f1, h, t)
    OBVIOUS
  <2>2. IsTotal(f, h, t) /\ Total(h, t) = f[t]
    BY <1>4, <2>1 DEF Total
  <2>3. CASE t = {}
    BY <2>2, <2>3 DEF IsTotal
  <2>4. CASE t # {}
    <3> DEFINE u == t \ {AnyOf(t)}
    <3>1. AnyOf(t) \in t /\ u \in SUBSET t /\ u \in SUBSET s /\ u # s
      BY <2>4 DEF AnyOf
    <3>2. PICK g : IsTotal(g, h, u) /\ Total(h, u) = g[u]
      BY <1>4, <3>1 DEF Total
    <3>3. IsFiniteSet(u)
      BY <1>3, <3>1, FS_Subset
    <3>4. f[u] = g[u]
      BY <2>2, <3>1, <3>2, <3>3, TotalsAgree
    <3> QED BY <2>2, <2>4, <3>2, <3>4 DEF IsTotal
  <2> QED BY <2>3, <2>4
<1> DEFINE f == [t \in SUBSET s |-> V(t)]
<1>6. IsTotal(f, h, s)
  <2>1. f[{}] = 0 /\ f = [t \in SUBSET s |-> f[t]]
    OBVIOUS
  <2>2. ASSUME NEW t \in SUBSET s, t # {} PROVE f[t] = h[AnyOf(t)] + f[t \ {AnyOf(t)}]
    <3> DEFINE u == t \ {AnyOf(t)}
    <3>1. AnyOf(t) \in t /\ u \in SUBSET s /\ u # s
      BY <2>2 DEF AnyOf
    <3>2. f[t] = h[AnyOf(t)] + Total(h, u)
      BY <2>2
    <3>3. f[u] = V(u)
      BY <3>1
    <3>4. Total(h, u) = V(u)
      BY <1>5, <3>1
    <3> QED BY <3>2, <3>3, <3>4
  <2> QED BY <2>1, <2>2 DEF IsTotal
<1> QED BY <1>3, <1>6

LEMMA TotalUnfolds ==
    ASSUME NEW h, NEW S, IsFiniteSet(S)
    PROVE  /\ S = {} => Total(h, S) = 0
           /\ S # {} => Total(h, S) = h[AnyOf(S)] + Total(h, S \ {AnyOf(S)})
<1>1. PICK f : IsTotal(f, h, S) /\ Total(h, S) = f[S]
  BY TotalsExist DEF Total
<1>2. CASE S = {}
  BY <1>1, <1>2 DEF IsTotal
<1>3. CASE S # {}
  <2> DEFINE u == S \ {AnyOf(S)}
  <2>1. u \in SUBSET S /\ IsFiniteSet(u)
    BY FS_Subset
  <2>2. PICK g : IsTotal(g, h, u) /\ Total(h, u) = g[u]
    BY <2>1, TotalsExist DEF Total
  <2>3. f[u] = g[u]
    BY <1>1, <2>1, <2>2, TotalsAgree
  <2> QED BY <1>1, <1>3, <2>2, <2>3 DEF IsTotal
<1> QED BY <1>2, <1>3

LEMMA TotalIsNat ==
    ASSUME NEW h, NEW S, IsFiniteSet(S), \A x \in S : h[x] \in Nat
    PROVE  Total(h, S) \in Nat
<1> DEFINE C == {s \in SUBSET S : Total(h, s) \notin Nat}
<1> SUFFICES ASSUME C # {} PROVE FALSE
  OBVIOUS
<1>1. \A s \in C : IsFiniteSet(s)
  BY FS_Subset
<1>2. PICK s \in C : \A c \in C : ~(Cardinality(c) < Cardinality(s))
  BY <1>1, SmallestSet
<1>3. s \in SUBSET S /\ IsFiniteSet(s) /\ s # {}
  <2>1. s = {} => Total(h, s) = 0
    BY <1>1, TotalUnfolds
  <2> QED BY <1>1, <2>1
<1>4. AnyOf(s) \in s
  BY <1>3 DEF AnyOf
<1>5. Total(h, s \ {AnyOf(s)}) \in Nat
  BY <1>2, <1>3, <1>4, RemovalShrinks
<1>6. Total(h, s) = h[AnyOf(s)] + Total(h, s \ {AnyOf(s)})
  BY <1>3, TotalUnfolds
<1> QED BY <1>3, <1>4, <1>5, <1>6

\* Any member may be taken out first.
LEMMA TotalRemoves ==
    ASSUME NEW h, NEW S, IsFiniteSet(S), \A x \in S : h[x] \in Nat
    PROVE  \A x \in S : Total(h, S) = h[x] + Total(h, S \ {x})
<1> DEFINE Bad(s) == \E x \in s : Total(h, s) # h[x] + Total(h, s \ {x})
           C == {s \in SUBSET S : Bad(s)}
<1> SUFFICES ASSUME C # {} PROVE FALSE
  OBVIOUS
<1>1. \A s \in C : IsFiniteSet(s)
  BY FS_Subset
<1>2. PICK s \in C : \A c \in C : ~(Cardinality(c) < Cardinality(s))
  BY <1>1, SmallestSet
<1>3. s \in SUBSET S /\ IsFiniteSet(s)
  BY <1>1
<1>4. PICK x \in s : Total(h, s) # h[x] + Total(h, s \ {x})
  BY <1>2
<1>5. PICK p \in s : p = AnyOf(s)
  BY <1>4 DEF AnyOf
<1>6. Total(h, s) = h[p] + Total(h, s \ {p}) /\ x # p
  BY <1>3, <1>4, <1>5, TotalUnfolds
<1>7. IsFiniteSet(s \ {p}) /\ IsFiniteSet(s \ {x}) /\ s \ {p} \notin C /\ s \ {x} \notin C
  BY <1>2, <1>3, RemovalShrinks
<1>8. Total(h, s \ {p}) = h[x] + Total(h, (s \ {p}) \ {x})
  BY <1>3, <1>6, <1>7
<1>9. Total(h, s \ {x}) = h[p] + Total(h, (s \ {x}) \ {p})
  BY <1>3, <1>6, <1>7
<1>10. (s \ {p}) \ {x} = (s \ {x}) \ {p} /\ (s \ {p}) \ {x} \in SUBSET S
  BY <1>3
<1>11. Total(h, (s \ {p}) \ {x}) \in Nat /\ h[x] \in Nat /\ h[p] \in Nat
  BY <1>3, <1>7, <1>10, TotalIsNat, FS_Subset
<1> QED BY <1>4, <1>6, <1>8, <1>9, <1>10, <1>11

LEMMA TotalAdds ==
    ASSUME NEW h, NEW S, IsFiniteSet(S), NEW x, x \notin S, \A y \in S \cup {x} : h[y] \in Nat
    PROVE  Total(h, S \cup {x}) = Total(h, S) + h[x] /\ Total(h, S) \in Nat
<1>1. IsFiniteSet(S \cup {x}) /\ (S \cup {x}) \ {x} = S
  BY FS_AddElement
<1>2. Total(h, S \cup {x}) = h[x] + Total(h, S)
  BY <1>1, TotalRemoves
<1> QED BY <1>2, TotalIsNat

\* Two functions that agree on a set have the same total.
LEMMA TotalSame ==
    ASSUME NEW h, NEW g, NEW S, IsFiniteSet(S), \A x \in S : h[x] = g[x]
    PROVE  Total(h, S) = Total(g, S)
<1> DEFINE C == {s \in SUBSET S : Total(h, s) # Total(g, s)}
<1> SUFFICES ASSUME C # {} PROVE FALSE
  OBVIOUS
<1>1. \A s \in C : IsFiniteSet(s)
  BY FS_Subset
<1>2. PICK s \in C : \A c \in C : ~(Cardinality(c) < Cardinality(s))
  BY <1>1, SmallestSet
<1>3. s \in SUBSET S /\ IsFiniteSet(s) /\ s # {}
  BY <1>1, TotalUnfolds
<1>4. AnyOf(s) \in s /\ h[AnyOf(s)] = g[AnyOf(s)]
  BY <1>3 DEF AnyOf
<1>5. Total(h, s \ {AnyOf(s)}) = Total(g, s \ {AnyOf(s)})
  BY <1>2, <1>3, <1>4, RemovalShrinks
<1> QED BY <1>2, <1>3, <1>4, <1>5, TotalUnfolds

\* A total over fewer members, each of them no larger, is no larger.
LEMMA TotalGrows ==
    ASSUME NEW h, NEW S, IsFiniteSet(S), \A x \in S : h[x] \in Nat
    PROVE  \A T \in SUBSET S : Total(h, T) <= Total(h, S)
<1> DEFINE C == {s \in SUBSET S : \E T \in SUBSET s : ~(Total(h, T) <= Total(h, s))}
<1> SUFFICES ASSUME C # {} PROVE FALSE
  OBVIOUS
<1>1. \A s \in C : IsFiniteSet(s)
  BY FS_Subset
<1>2. PICK s \in C : \A c \in C : ~(Cardinality(c) < Cardinality(s))
  BY <1>1, SmallestSet
<1>3. s \in SUBSET S /\ IsFiniteSet(s) /\ Total(h, s) \in Nat
  BY <1>1, TotalIsNat, FS_Subset
<1>4. PICK T \in SUBSET s : ~(Total(h, T) <= Total(h, s))
  BY <1>2
<1>5. PICK x \in s : x \notin T
  BY <1>3, <1>4
<1>6. T \in SUBSET (s \ {x}) /\ s \ {x} \notin C /\ s \ {x} \in SUBSET S /\ IsFiniteSet(s \ {x})
  BY <1>2, <1>3, <1>5, RemovalShrinks
<1>7. Total(h, T) <= Total(h, s \ {x})
  BY <1>6
<1>8. Total(h, s) = h[x] + Total(h, s \ {x}) /\ h[x] \in Nat
  BY <1>3, TotalRemoves
<1>9. Total(h, T) \in Nat /\ Total(h, s \ {x}) \in Nat
  BY <1>3, <1>6, TotalIsNat, FS_Subset
<1> QED BY <1>4, <1>7, <1>8, <1>9

\* Totals compare like their members, scaled on both sides.
LEMMA TotalRatio ==
    ASSUME NEW h, NEW g, NEW S, IsFiniteSet(S), NEW c \in Nat, NEW d \in Nat,
           \A x \in S : h[x] \in Nat /\ g[x] \in Nat /\ h[x] * c <= g[x] * d
    PROVE  Total(h, S) * c <= Total(g, S) * d
<1> DEFINE C == {s \in SUBSET S : ~(Total(h, s) * c <= Total(g, s) * d)}
<1> SUFFICES ASSUME C # {} PROVE FALSE
  OBVIOUS
<1>1. \A s \in C : IsFiniteSet(s)
  BY FS_Subset
<1>2. PICK s \in C : \A t \in C : ~(Cardinality(t) < Cardinality(s))
  BY <1>1, SmallestSet
<1>3. s \in SUBSET S /\ IsFiniteSet(s) /\ s # {}
  <2>1. s = {} => Total(h, s) = 0 /\ Total(g, s) = 0
    BY <1>1, TotalUnfolds
  <2>2. s \in SUBSET S /\ IsFiniteSet(s) /\ ~(Total(h, s) * c <= Total(g, s) * d)
    BY <1>1, <1>2
  <2>3. 0 * c = 0 /\ 0 * d = 0
    OBVIOUS
  <2> QED BY <2>1, <2>2, <2>3
<1>4. PICK x \in s : x = AnyOf(s)
  BY <1>3 DEF AnyOf
<1>5. PICK u \in SUBSET S : u = s \ {x} /\ IsFiniteSet(u) /\ u \notin C
  BY <1>2, <1>3, RemovalShrinks
<1>6. PICK hs, gs, hu, gu, hx, gx \in Nat :
         /\ hs = Total(h, s) /\ gs = Total(g, s) /\ hu = Total(h, u) /\ gu = Total(g, u)
         /\ hx = h[x] /\ gx = g[x]
  <2>1. Total(h, s) \in Nat /\ Total(g, s) \in Nat
    BY <1>3, TotalIsNat
  <2>2. Total(h, u) \in Nat /\ Total(g, u) \in Nat
    BY <1>5, TotalIsNat
  <2> QED BY <1>3, <2>1, <2>2
<1>7. hs = hx + hu /\ gs = gx + gu
  BY <1>3, <1>4, <1>5, <1>6, TotalUnfolds
<1>8. hu * c <= gu * d /\ hx * c <= gx * d /\ ~(hs * c <= gs * d)
  BY <1>2, <1>3, <1>5, <1>6
<1>9. hs * c = hx * c + hu * c /\ gs * d = gx * d + gu * d
  BY <1>7
<1>10. hs * c \in Nat /\ hx * c \in Nat /\ hu * c \in Nat
       /\ gs * d \in Nat /\ gx * d \in Nat /\ gu * d \in Nat
  OBVIOUS
<1> QED BY <1>8, <1>9, <1>10

LEMMA TotalSmaller ==
    ASSUME NEW h, NEW g, NEW S, IsFiniteSet(S),
           \A x \in S : h[x] \in Nat /\ g[x] \in Nat /\ h[x] <= g[x]
    PROVE  Total(h, S) <= Total(g, S)
<1>1. \A x \in S : h[x] \in Nat /\ g[x] \in Nat /\ h[x] * 1 <= g[x] * 1
  OBVIOUS
<1>2. Total(h, S) * 1 <= Total(g, S) * 1
  BY <1>1, TotalRatio
<1>3. Total(h, S) \in Nat /\ Total(g, S) \in Nat
  BY TotalIsNat
<1> QED BY <1>2, <1>3

\* A total of the same number everywhere.
LEMMA TotalConstant ==
    ASSUME NEW h, NEW S, IsFiniteSet(S), NEW c \in Nat, \A x \in S : h[x] = c
    PROVE  Total(h, S) = c * Cardinality(S)
<1> DEFINE C == {s \in SUBSET S : Total(h, s) # c * Cardinality(s)}
<1> SUFFICES ASSUME C # {} PROVE FALSE
  OBVIOUS
<1>1. \A s \in C : IsFiniteSet(s)
  BY FS_Subset
<1>2. PICK s \in C : \A t \in C : ~(Cardinality(t) < Cardinality(s))
  BY <1>1, SmallestSet
<1>3. s \in SUBSET S /\ IsFiniteSet(s) /\ Total(h, s) # c * Cardinality(s)
  BY <1>1, <1>2
<1>4. s # {}
  <2>1. s = {} => Total(h, s) = 0 /\ Cardinality(s) = 0
    BY <1>3, TotalUnfolds, FS_EmptySet
  <2> QED BY <1>3, <2>1
<1>5. AnyOf(s) \in s
  BY <1>4 DEF AnyOf
<1>6. PICK u \in SUBSET S : u = s \ {AnyOf(s)} /\ u \notin C /\ IsFiniteSet(u)
  BY <1>2, <1>3, <1>5, RemovalShrinks
<1>7. PICK n \in Nat : n = Cardinality(s)
  BY <1>3, FS_CardinalityType
<1>8. Cardinality(u) = n - 1
  BY <1>3, <1>5, <1>6, <1>7, FS_RemoveElement
<1>9. Total(h, s) = c + c * (n - 1)
  BY <1>3, <1>4, <1>5, <1>6, <1>8, TotalUnfolds
<1>10. c + c * (n - 1) = c * n
  OBVIOUS
<1> QED BY <1>3, <1>7, <1>9, <1>10

\* A total is the total of a part and of the rest.
LEMMA TotalSplits ==
    ASSUME NEW h, NEW S, IsFiniteSet(S), \A x \in S : h[x] \in Nat, NEW T \in SUBSET S
    PROVE  Total(h, S) = Total(h, T) + Total(h, S \ T)
<1> DEFINE C == {s \in SUBSET T : Total(h, (S \ T) \cup s) # Total(h, s) + Total(h, S \ T)}
<1>1. (S \ T) \cup T = S
  OBVIOUS
<1> SUFFICES ASSUME C # {} PROVE FALSE
  <2>1. C = {} => Total(h, (S \ T) \cup T) = Total(h, T) + Total(h, S \ T)
    OBVIOUS
  <2> QED BY <1>1, <2>1, Zenon
<1>2. \A s \in C : IsFiniteSet(s)
  BY FS_Subset
<1>3. PICK s \in C : \A t \in C : ~(Cardinality(t) < Cardinality(s))
  BY <1>2, SmallestSet
<1>4. /\ s \in SUBSET T /\ IsFiniteSet(s) /\ IsFiniteSet(S \ T)
      /\ Total(h, (S \ T) \cup s) # Total(h, s) + Total(h, S \ T)
  BY <1>2, <1>3, FS_Subset
<1>5. Total(h, S \ T) \in Nat
  BY <1>4, TotalIsNat
<1>6. s # {}
  <2> SUFFICES ASSUME s = {} PROVE FALSE
    OBVIOUS
  <2>1. (S \ T) \cup s = S \ T
    OBVIOUS
  <2>2. Total(h, (S \ T) \cup s) = Total(h, S \ T)
    BY <2>1, Zenon
  <2>3. Total(h, s) = 0
    BY <1>4, TotalUnfolds
  <2> QED BY <1>4, <1>5, <2>2, <2>3
<1>7. PICK x \in s : TRUE
  BY <1>6
<1>8. PICK u \in SUBSET T : u = s \ {x} /\ IsFiniteSet(u) /\ u \notin C
  BY <1>3, <1>4, <1>7, RemovalShrinks
<1>9. PICK v \in SUBSET S : v = (S \ T) \cup u /\ x \notin v /\ IsFiniteSet(v)
  <2>1. (S \ T) \cup u \in SUBSET S /\ x \notin (S \ T) \cup u
    BY <1>4, <1>7, <1>8
  <2>2. IsFiniteSet((S \ T) \cup u)
    BY <2>1, FS_Subset
  <2> QED BY <2>1, <2>2
<1>10. (S \ T) \cup s = v \cup {x} /\ s = u \cup {x}
  BY <1>7, <1>8, <1>9
<1>11. Total(h, (S \ T) \cup s) = Total(h, v \cup {x}) /\ Total(h, s) = Total(h, u \cup {x})
  BY <1>10, Zenon
<1>12. /\ Total(h, v \cup {x}) = Total(h, v) + h[x] /\ Total(h, u \cup {x}) = Total(h, u) + h[x]
       /\ Total(h, v) \in Nat /\ Total(h, u) \in Nat /\ h[x] \in Nat
  <2>1. x \in S /\ x \notin u /\ x \notin v
    BY <1>7, <1>8, <1>9
  <2>2. \A y \in v \cup {x} : h[y] \in Nat
    BY <1>7, <1>9
  <2>3. \A y \in u \cup {x} : h[y] \in Nat
    BY <1>7, <1>8
  <2>4. Total(h, v \cup {x}) = Total(h, v) + h[x] /\ Total(h, v) \in Nat
    BY <1>9, <2>1, <2>2, TotalAdds
  <2>5. Total(h, u \cup {x}) = Total(h, u) + h[x] /\ Total(h, u) \in Nat
    BY <1>8, <2>1, <2>3, TotalAdds
  <2> QED BY <2>1, <2>4, <2>5
<1>13. Total(h, v) = Total(h, u) + Total(h, S \ T)
  BY <1>8, <1>9
<1> QED BY <1>4, <1>5, <1>11, <1>12, <1>13

\* The sum of the community modules is this total.
LEMMA UnitsAreATotal ==
    ASSUME NEW S, IsFiniteSet(S)
    PROVE  MapThenSumSet(LAMBDA g : g.units, S) = Total([g \in S |-> g.units], S)
<1> DEFINE h == [g \in S |-> g.units]
           Eq(f) == f = [s \in SUBSET S |->
                            IF s = {} THEN 0
                            ELSE (CHOOSE x \in s : TRUE).units + f[s \ {CHOOSE x \in s : TRUE}]]
<1>1. PICK f : IsTotal(f, h, S) /\ Total(h, S) = f[S]
  BY TotalsExist DEF Total
<1>2. \A s \in SUBSET S : s # {} => AnyOf(s) \in S /\ h[AnyOf(s)] = AnyOf(s).units
  BY DEF AnyOf
<1>3. MapThenSumSet(LAMBDA g : g.units, S) = (CHOOSE f1 : Eq(f1))[S]
  BY DEF MapThenSumSet, MapThenFoldSet
<1>4. Eq(f)
  <2>1. \A s \in SUBSET S :
            f[s] = IF s = {} THEN 0
                   ELSE (CHOOSE x \in s : TRUE).units + f[s \ {CHOOSE x \in s : TRUE}]
    BY <1>1, <1>2 DEF IsTotal, AnyOf
  <2> QED BY <1>1, <2>1 DEF IsTotal
<1>5. PICK k : k = CHOOSE f1 : Eq(f1)
  OBVIOUS
<1>6. Eq(k)
  <2> HIDE DEF Eq
  <2> QED BY <1>4, <1>5
<1>7. IsTotal(k, h, S)
  BY <1>2, <1>6 DEF IsTotal, AnyOf
<1>8. k[S] = f[S]
  BY <1>1, <1>7, TotalsAgree
<1> QED BY <1>1, <1>3, <1>5, <1>8

-----------------------------------------------------------------------------
(* Confirmation: what an admission decided stays decided.                  *)

LEMMA LowestIsLeast ==
    ASSUME NEW S \in SUBSET Nat, S # {}
    PROVE  Lowest(S) \in S /\ \A k \in S : Lowest(S) <= k
BY LeastExists DEF Lowest

Heights == 0..MaxTime
Proofs == [waits : SUBSET Calendars, heights : SUBSET Heights]
Loads == [run : Runs, proof : Proofs]
Results == [run : Runs, proof : Proofs, verified : BOOLEAN]
Kinds == Tickets \cup {"not_scorable_status", "halt_evidence_missing"}
Rows == [read : {TRUE}, kind : Kinds, proof : Proofs]
Statuses == {"COMMITTED", "ANCHORED", "EXECUTED", "PARTIAL"}

\* Some verified block at or below the height t attests the proof.
Attests(heights, t) == \E h \in heights \ {0} : h <= t

ConfTypes ==
    /\ hour \in 1..(MaxTime + 1) /\ status \in [Runs -> Statuses]
    /\ halted \subseteq Runs /\ live \subseteq Runs
    /\ proof \in [Runs -> Proofs]
    /\ mined \in [Runs -> [Calendars -> Heights \cup {Pending}]]
    /\ pass \in [Upgraders -> [todo : Seq(Loads), result : Seq(Results)]]
    /\ \A r \in Runs : evidence[r] = NotRead \/ evidence[r] \in Rows
    /\ DOMAIN evidence = Runs
    /\ DOMAIN verdict = Runs
    /\ ticket \in [Runs -> 1..NoTicket]

\* A run is not anchored twice, is executed only when it is live, and PARTIAL by a halt.
StatusesMakeSense ==
    \A r \in Runs :
        /\ status[r] = "COMMITTED" => proof[r] = NoProof
        /\ status[r] = "EXECUTED" => r \in live
        /\ status[r] = "PARTIAL" <=> r \in halted

\* The run has an anchor row and nothing in the store is missing from the proof.
Newer(r, p) == status[r] # "COMMITTED" /\ proof[r].heights \subseteq p.heights

\* What the one running pass carries is no older than what is stored.
OnePass == \A u, v \in Upgraders : pass[u] # NoPass /\ pass[v] # NoPass => u = v
PassIsCurrent(p) ==
    /\ \A i \in DOMAIN p.todo : Newer(p.todo[i].run, p.todo[i].proof)
    /\ \A i, j \in DOMAIN p.todo : i # j => p.todo[i].run # p.todo[j].run
    /\ p.result # <<>> =>
          /\ Newer(Head(p.result).run, Head(p.result).proof)
          /\ \A i \in DOMAIN p.todo : p.todo[i].run # Head(p.result).run
PassesAreCurrent == \A u \in Upgraders : PassIsCurrent(pass[u])

\* What an admission has read is still stored, and backs the ticket the run has.
EvidenceIsCurrent ==
    \A r \in Runs : evidence[r] # NotRead =>
        /\ evidence[r].proof.heights \subseteq proof[r].heights
        /\ evidence[r].kind \in Tickets => Classify(r) \in Tickets
        /\ ticket[r] # NoTicket =>
              evidence[r].kind \in Tickets /\ Attests(evidence[r].proof.heights, ticket[r])

\* A run with a ticket is in a state that is scored, below its resolution when live.
TicketsAreBacked ==
    \A r \in Runs : ticket[r] # NoTicket =>
        /\ Classify(r) \in Tickets
        /\ Attests(proof[r].heights, ticket[r])
        /\ r \in live => ticket[r] < Resolves
        /\ verdict[r] \in Tickets \cup {"evidence_unavailable"}

ConfInv ==
    /\ ConfTypes /\ StatusesMakeSense /\ OnePass /\ PassesAreCurrent
    /\ EvidenceIsCurrent /\ TicketsAreBacked

LEMMA ConfInitHolds == ConfInit => ConfInv
<1> SUFFICES ASSUME ConfInit PROVE ConfInv
  OBVIOUS
<1>1. NoProof \in Proofs /\ NoPass \in [todo : Seq(Loads), result : Seq(Results)]
  BY DEF NoProof, NoPass, Proofs
<1>2. ConfTypes
  <2>1. Pending \in Nat /\ NoTicket \in 1..NoTicket /\ hour \in 1..(MaxTime + 1)
    BY ConfirmationAssumption DEF ConfInit, Pending, NoTicket
  <2>2. /\ status \in [Runs -> Statuses] /\ DOMAIN verdict = Runs
        /\ proof \in [Runs -> Proofs] /\ ticket \in [Runs -> 1..NoTicket]
    BY <1>1, <2>1 DEF ConfInit, Statuses
  <2>3. mined \in [Runs -> [Calendars -> Heights \cup {Pending}]]
    BY DEF ConfInit
  <2>4. pass \in [Upgraders -> [todo : Seq(Loads), result : Seq(Results)]]
    BY <1>1 DEF ConfInit
  <2> QED BY <2>1, <2>2, <2>3, <2>4 DEF ConfInit, ConfTypes
<1>3. PassesAreCurrent
  BY DEF ConfInit, PassesAreCurrent, PassIsCurrent, NoPass
<1> QED
  BY <1>2, <1>3 DEF ConfInit, ConfInv, StatusesMakeSense, OnePass, EvidenceIsCurrent, TicketsAreBacked

\* The clock, outages and mining touch nothing that is stored or remembered.
LEMMA WorldKeeps ==
    ASSUME ConfInv,
           UNCHANGED <<store, live, pass, scoring>>,
           hour' \in 1..(MaxTime + 1),
           mined' \in [Runs -> [Calendars -> Heights \cup {Pending}]]
    PROVE  ConfInv'
<1>1. ConfTypes'
  BY DEF ConfInv, ConfTypes, store, scoring
<1>2. StatusesMakeSense' /\ OnePass' /\ PassesAreCurrent'
  BY DEF ConfInv, StatusesMakeSense, OnePass, PassesAreCurrent, PassIsCurrent, Newer, store, scoring
<1>3. EvidenceIsCurrent' /\ TicketsAreBacked'
  BY DEF ConfInv, EvidenceIsCurrent, TicketsAreBacked, Classify, store, scoring
<1> QED BY <1>1, <1>2, <1>3 DEF ConfInv

\* What an hour brings.
LEMMA ConfWorldSteps ==
    ASSUME ConfInv,
           \/ Tick \/ GoDown \/ ComeBack \/ (\E r \in Runs, c \in Calendars : Mine(r, c))
           \/ UNCHANGED confVars
    PROVE  ConfInv'
<1>1. /\ hour \in 1..(MaxTime + 1)
      /\ mined \in [Runs -> [Calendars -> Heights \cup {Pending}]]
  BY DEF ConfInv, ConfTypes
<1>2. CASE Tick
  BY <1>1, <1>2, WorldKeeps, ConfirmationAssumption DEF Tick
<1>3. CASE GoDown \/ ComeBack
  BY <1>1, <1>3, WorldKeeps DEF GoDown, ComeBack
<1>4. ASSUME NEW r \in Runs, NEW c \in Calendars, Mine(r, c) PROVE ConfInv'
  <2>1. PICK height \in {0, hour} : mined' = [mined EXCEPT ![r][c] = height]
    BY <1>4 DEF Mine
  <2>2. height \in Heights \cup {Pending}
    BY <1>1, ConfirmationAssumption DEF Heights, Pending
  <2>3. mined' \in [Runs -> [Calendars -> Heights \cup {Pending}]]
    BY <1>1, <2>1, <2>2
  <2> QED BY <1>1, <1>4, <2>3, WorldKeeps DEF Mine
<1>5. CASE UNCHANGED confVars
  BY <1>1, <1>5, WorldKeeps DEF confVars, store, scoring
<1> QED BY <1>2, <1>3, <1>4, <1>5

LEMMA LoadsAreTyped ==
    ASSUME ConfTypes, NEW u \in Upgraders
    PROVE  /\ \A i \in DOMAIN pass[u].todo : pass[u].todo[i] \in Loads
           /\ pass[u].result # <<>> => Head(pass[u].result) \in Results
BY DEF ConfTypes

\* A run keeps the class of its ticket: live runs by EXECUTED or a halt, others by ANCHORED or a halt.
LEMMA TransitionsKeep ==
    ASSUME ConfInv, NEW r \in Runs, Anchor(r) \/ Execute(r) \/ Halt(r)
    PROVE  ConfInv'
<1>0. /\ UNCHANGED <<hour, mined, live, pass, evidence, verdict, ticket>>
      /\ \A q \in Runs \ {r} : status'[q] = status[q] /\ proof'[q] = proof[q] /\ (q \in halted' <=> q \in halted)
  BY DEF Anchor, Execute, Halt, world, scoring, ConfInv, ConfTypes
<1>1. /\ status'[r] # "COMMITTED" /\ proof[r].heights \subseteq proof'[r].heights
      /\ status' \in [Runs -> Statuses] /\ proof' \in [Runs -> Proofs] /\ halted' \subseteq Runs
      /\ status'[r] = "EXECUTED" => r \in live
      /\ status'[r] = "PARTIAL" <=> r \in halted'
      /\ status[r] # "COMMITTED" => proof'[r] = proof[r]
  <2>1. CASE Anchor(r)
    <3>1. PICK accepted \in SUBSET (Calendars \ outage) :
              proof' = [proof EXCEPT ![r] = [waits |-> accepted, heights |-> {}]]
      BY <2>1 DEF Anchor
    <3>2. [waits |-> accepted, heights |-> {}] \in Proofs
      BY DEF Proofs
    <3>3. status[r] = "COMMITTED" /\ status' = [status EXCEPT ![r] = "ANCHORED"] /\ UNCHANGED halted
      BY <2>1 DEF Anchor
    <3>4. proof \in [Runs -> Proofs] /\ status \in [Runs -> Statuses] /\ halted \subseteq Runs
      BY DEF ConfInv, ConfTypes
    <3>5. proof[r].heights = {} /\ r \notin halted
      BY <3>3 DEF ConfInv, StatusesMakeSense, NoProof
    <3>6. proof' \in [Runs -> Proofs]
      BY <3>1, <3>2, <3>4
    <3>7. status'[r] = "ANCHORED" /\ status' \in [Runs -> Statuses]
      BY <3>3, <3>4 DEF Statuses
    <3> QED
      BY <3>3, <3>4, <3>5, <3>6, <3>7
  <2>2. CASE Execute(r) \/ Halt(r)
    BY <2>2 DEF Execute, Halt, ConfInv, ConfTypes, StatusesMakeSense, Statuses
  <2> QED BY <2>1, <2>2
<1>2. status[r] = "COMMITTED" => ~(Classify(r) \in Tickets)
  BY DEF ConfInv, StatusesMakeSense, Classify, Tickets
<1>3. Classify(r) \in Tickets => Classify(r)' \in Tickets
  BY <1>0, <1>1, <1>2 DEF Anchor, Execute, Halt, Classify, Tickets, ConfInv, ConfTypes, StatusesMakeSense
<1>4. ConfTypes'
  BY <1>0, <1>1 DEF ConfInv, ConfTypes
<1>5. StatusesMakeSense'
  BY <1>0, <1>1 DEF ConfInv, StatusesMakeSense
<1>6. OnePass' /\ PassesAreCurrent'
  <2>1. \A p : \A q \in Runs : Newer(q, p) => Newer(q, p)'
    BY <1>0, <1>1 DEF Newer
  <2> QED
    BY <1>0, <2>1, LoadsAreTyped DEF ConfInv, OnePass, PassesAreCurrent, PassIsCurrent, Loads, Results
<1>7. EvidenceIsCurrent' /\ TicketsAreBacked'
  <2>1. \A q \in Runs : /\ proof[q].heights \subseteq proof'[q].heights
                        /\ Classify(q) \in Tickets => Classify(q)' \in Tickets
    BY <1>0, <1>1, <1>3 DEF Classify
  <2>2. EvidenceIsCurrent'
    BY <1>0, <2>1 DEF ConfInv, EvidenceIsCurrent
  <2>3. TicketsAreBacked'
    BY <1>0, <2>1 DEF ConfInv, TicketsAreBacked, Attests
  <2> QED BY <2>2, <2>3
<1> QED BY <1>4, <1>5, <1>6, <1>7 DEF ConfInv

\* A step of a pass keeps what is stored apart from the store of one proof.
PassOnly == UNCHANGED <<store, hour, mined, live, scoring>>

LEMMA PassKeeps ==
    ASSUME ConfInv, PassOnly, OnePass', PassesAreCurrent',
           pass' \in [Upgraders -> [todo : Seq(Loads), result : Seq(Results)]]
    PROVE  ConfInv'
<1>1. ConfTypes'
  BY DEF ConfInv, ConfTypes, PassOnly, store, scoring
<1>2. StatusesMakeSense'
  BY DEF ConfInv, StatusesMakeSense, PassOnly, store
<1>3. EvidenceIsCurrent' /\ TicketsAreBacked'
  BY DEF ConfInv, EvidenceIsCurrent, TicketsAreBacked, Classify, PassOnly, store, scoring
<1> QED BY <1>1, <1>2, <1>3 DEF ConfInv

\* A pass ends, by an outage or a death.
LEMMA EndedPassKeeps ==
    ASSUME ConfInv, PassOnly, NEW u \in Upgraders, pass' = [pass EXCEPT ![u] = NoPass]
    PROVE  ConfInv'
<1>1. NoPass \in [todo : Seq(Loads), result : Seq(Results)]
  BY DEF NoPass
<1>2. pass \in [Upgraders -> [todo : Seq(Loads), result : Seq(Results)]]
  BY DEF ConfInv, ConfTypes
<1>3. pass' \in [Upgraders -> [todo : Seq(Loads), result : Seq(Results)]]
  BY <1>1, <1>2
<1>4. PassIsCurrent(NoPass)'
  BY DEF PassIsCurrent, NoPass
<1>5. OnePass'
  BY <1>2 DEF ConfInv, OnePass
<1>6. \A v \in Upgraders \ {u} : PassIsCurrent(pass[v])'
  BY <1>2 DEF ConfInv, PassesAreCurrent, PassIsCurrent, Newer, PassOnly, store
<1>7. PassesAreCurrent'
  BY <1>2, <1>4, <1>6 DEF PassesAreCurrent
<1> QED BY <1>3, <1>5, <1>7, PassKeeps

\* A pass loads every anchored and unverified run once.
LEMMA StartPassKeeps ==
    ASSUME ~OverlappingPasses, ConfInv, NEW u \in Upgraders, StartPass(u)
    PROVE  ConfInv'
<1>1. PICK order \in SetToSeqs(Awaiting) :
          pass' = [pass EXCEPT ![u].todo =
                     [i \in DOMAIN order |-> [run |-> order[i], proof |-> proof[order[i]]]]]
  BY DEF StartPass
<1>2. PICK n \in Nat : n = Cardinality(Awaiting)
  BY FS_Subset, FS_CardinalityType, ConfirmationAssumption DEF Awaiting
<1>3. order \in [1..n -> Awaiting] /\ \A i, j \in 1..n : i # j => order[i] # order[j]
  BY <1>1, <1>2 DEF SetToSeqs
<1>0. PICK todo : todo = [i \in DOMAIN order |-> [run |-> order[i], proof |-> proof[order[i]]]]
  OBVIOUS
<1>4. \A i \in 1..n : /\ order[i] \in Runs /\ status[order[i]] # "COMMITTED"
                      /\ proof[order[i]] \in Proofs
  BY <1>3 DEF Awaiting, ConfInv, ConfTypes
<1>5. /\ todo = [i \in 1..n |-> [run |-> order[i], proof |-> proof[order[i]]]]
      /\ DOMAIN todo = 1..n /\ \A i \in 1..n : todo[i] = [run |-> order[i], proof |-> proof[order[i]]]
  BY <1>0, <1>3
<1>6. todo \in [1..n -> Loads]
  <2>1. \A i \in 1..n : [run |-> order[i], proof |-> proof[order[i]]] \in Loads
    BY <1>4 DEF Loads
  <2> QED BY <1>5, <2>1
<1>7. todo \in Seq(Loads)
  BY <1>2, <1>6, SeqDef
<1>8. pass \in [Upgraders -> [todo : Seq(Loads), result : Seq(Results)]] /\ pass[u] = NoPass
  BY DEF ConfInv, ConfTypes, StartPass
<1>9. pass'[u] = [todo |-> todo, result |-> <<>>] /\ \A v \in Upgraders \ {u} : pass'[v] = pass[v]
  <2>1. pass' = [pass EXCEPT ![u] = [NoPass EXCEPT !.todo = todo]]
    BY <1>0, <1>1, <1>8
  <2>2. [NoPass EXCEPT !.todo = todo] = [todo |-> todo, result |-> <<>>]
    BY DEF NoPass
  <2> QED BY <1>8, <2>1, <2>2
<1>10. pass' \in [Upgraders -> [todo : Seq(Loads), result : Seq(Results)]]
  BY <1>0, <1>1, <1>7, <1>8
<1>11. OnePass'
  BY <1>9 DEF StartPass, OnePass
<1>12. UNCHANGED <<status, proof>>
  BY DEF StartPass, store
<1>13. PassIsCurrent(pass[u])'
  <2>1. \A i \in 1..n : /\ status'[order[i]] # "COMMITTED"
                         /\ proof'[order[i]].heights \subseteq proof[order[i]].heights
    BY <1>4, <1>12
  <2>2. \A i \in DOMAIN todo : todo[i].run = order[i] /\ todo[i].proof = proof[order[i]]
    BY <1>5
  <2>3. pass'[u].todo = todo /\ pass'[u].result = <<>>
    BY <1>9
  <2>4. \A i \in DOMAIN todo : Newer(todo[i].run, todo[i].proof)'
    BY <1>5, <2>1, <2>2 DEF Newer
  <2>5. \A i, j \in DOMAIN todo : i # j => todo[i].run # todo[j].run
    BY <1>3, <1>5, <2>2
  <2> QED BY <2>3, <2>4, <2>5 DEF PassIsCurrent
<1>14. \A v \in Upgraders \ {u} : PassIsCurrent(pass[v])'
  BY <1>9, <1>12 DEF ConfInv, PassesAreCurrent, PassIsCurrent, Newer
<1>15. PassesAreCurrent'
  BY <1>13, <1>14 DEF PassesAreCurrent
<1>16. PassOnly
  BY DEF StartPass, PassOnly, store, world, scoring
<1> QED BY <1>10, <1>11, <1>15, <1>16, PassKeeps

\* What a merge returns has every height the loaded proof has.
LEMMA MergeGrows ==
    ASSUME ConfTypes, NEW run \in Runs, NEW old \in Proofs
    PROVE  Merge(old, run) \in Proofs /\ old.heights \subseteq Merge(old, run).heights
<1> DEFINE ready == {c \in old.waits : mined[run][c] # Pending}
<1>1. old.waits \subseteq Calendars /\ old.heights \subseteq Heights
  BY DEF Proofs
<1>2. \A c \in ready : mined[run][c] \in Heights
  BY <1>1 DEF ConfTypes
<1>3. {mined[run][c] : c \in ready} \subseteq Heights
  BY <1>2
<1> HIDE DEF ready
<1>4. Merge(old, run) = [waits |-> old.waits \ ready,
                         heights |-> old.heights \cup {mined[run][c] : c \in ready}]
  BY DEF Merge, ready
<1> QED BY <1>1, <1>3, <1>4 DEF Proofs

\* One run of a pass: the pass ends, or keeps what it read of the run until it stores it.
LEMMA UpgradeOneKeeps ==
    ASSUME ConfInv, NEW u \in Upgraders, UpgradeOne(u)
    PROVE  ConfInv'
<1> DEFINE first == Head(Todo(u))
           new == Merge(first.proof, first.run)
<1>1. /\ pass \in [Upgraders -> [todo : Seq(Loads), result : Seq(Results)]]
      /\ PassOnly /\ Todo(u) = pass[u].todo /\ Todo(u) # <<>> /\ pass[u].result = <<>>
  BY DEF ConfInv, ConfTypes, UpgradeOne, PassOnly, world, Todo
<1>2. /\ first \in Loads /\ Tail(Todo(u)) \in Seq(Loads)
      /\ first = Todo(u)[1] /\ 1 \in DOMAIN Todo(u)
      /\ \A i \in DOMAIN Tail(Todo(u)) : i + 1 \in DOMAIN Todo(u) /\ i + 1 # 1
                                         /\ Tail(Todo(u))[i] = Todo(u)[i + 1]
  BY <1>1
<1>3. new \in Proofs /\ first.proof.heights \subseteq new.heights /\ first.run \in Runs
  BY <1>2, MergeGrows DEF Loads, ConfInv
<1>4. PassIsCurrent(pass[u])
  BY DEF ConfInv, PassesAreCurrent
<1>5. Newer(first.run, new)
  BY <1>1, <1>2, <1>3, <1>4 DEF PassIsCurrent, Newer
<1> HIDE DEF first, new
<1>6. PICK result \in Seq(Results) :
          /\ \/ pass' = [pass EXCEPT ![u] = NoPass]
             \/ pass' = [pass EXCEPT ![u] = [todo |-> Tail(Todo(u)), result |-> result]]
          /\ result # <<>> => Head(result).run = first.run /\ Head(result).proof = new
  <2>1. CASE Blocked(u, new.heights)
    <3>1. pass' = [pass EXCEPT ![u] = NoPass]
      BY <2>1 DEF UpgradeOne, Loaded, first, new
    <3>2. <<>> \in Seq(Results)
      OBVIOUS
    <3> QED BY <3>1, <3>2
  <2>2. CASE ~Blocked(u, new.heights)
    <3> DEFINE row == [run |-> first.run, proof |-> new, verified |-> Confirms(new.heights)]
    <3>1. \/ pass' = [pass EXCEPT ![u] = [todo |-> Tail(Todo(u)), result |-> <<row>>]]
          \/ pass' = [pass EXCEPT ![u] = [todo |-> Tail(Todo(u)), result |-> <<>>]]
      BY <2>2 DEF UpgradeOne, Loaded, first, new
    <3>2. Confirms(new.heights) \in BOOLEAN
      BY DEF Confirms
    <3>3. row \in Results /\ row.run = first.run /\ row.proof = new
      BY <1>3, <3>2 DEF Results
    <3> HIDE DEF row
    <3>4. <<row>> \in Seq(Results) /\ <<>> \in Seq(Results) /\ Head(<<row>>) = row
      BY <3>3
    <3>5. CASE pass' = [pass EXCEPT ![u] = [todo |-> Tail(Todo(u)), result |-> <<row>>]]
      BY <3>3, <3>4, <3>5
    <3>6. CASE pass' = [pass EXCEPT ![u] = [todo |-> Tail(Todo(u)), result |-> <<>>]]
      BY <3>4, <3>6
    <3> QED BY <3>1, <3>5, <3>6
  <2> QED BY <2>1, <2>2
<1>7. CASE pass' = [pass EXCEPT ![u] = NoPass]
  BY <1>1, <1>7, EndedPassKeeps
<1>8. CASE pass' = [pass EXCEPT ![u] = [todo |-> Tail(Todo(u)), result |-> result]]
  <2>1. /\ pass' \in [Upgraders -> [todo : Seq(Loads), result : Seq(Results)]]
        /\ pass'[u].todo = Tail(Todo(u)) /\ pass'[u].result = result
        /\ \A v \in Upgraders \ {u} : pass'[v] = pass[v]
    BY <1>1, <1>2, <1>8
  <2>2. OnePass'
    <3>1. pass[u] # NoPass
      BY <1>1 DEF NoPass
    <3> QED BY <2>1, <3>1 DEF ConfInv, OnePass
  <2>3. \A q, p : Newer(q, p)' <=> Newer(q, p)
    BY <1>1 DEF Newer, PassOnly, store
  <2>4. \A v \in Upgraders \ {u} : PassIsCurrent(pass[v])'
    BY <2>1, <2>3 DEF ConfInv, PassesAreCurrent, PassIsCurrent
  <2>5. PassIsCurrent(pass[u])'
    BY <1>1, <1>2, <1>4, <1>5, <1>6, <2>1, <2>3 DEF PassIsCurrent
  <2>6. PassesAreCurrent'
    BY <2>4, <2>5 DEF PassesAreCurrent
  <2> QED BY <1>1, <2>1, <2>2, <2>6, PassKeeps
<1> QED BY <1>6, <1>7, <1>8

\* A stored proof has every height of the one it replaces.
LEMMA StoreProofKeeps ==
    ASSUME ConfInv, NEW u \in Upgraders, StoreProof(u)
    PROVE  ConfInv'
<1>0. PICK new : new = Head(pass[u].result)
  OBVIOUS
<1>1. /\ pass \in [Upgraders -> [todo : Seq(Loads), result : Seq(Results)]]
      /\ proof \in [Runs -> Proofs] /\ pass[u].result # <<>> /\ PassIsCurrent(pass[u])
  BY DEF ConfInv, ConfTypes, PassesAreCurrent, StoreProof
<1>2. new.run \in Runs /\ new.proof \in Proofs
  BY <1>0, <1>1, LoadsAreTyped DEF ConfInv, Results
<1>3. Newer(new.run, new.proof)
  BY <1>0, <1>1 DEF PassIsCurrent
<1>4. /\ proof' = [proof EXCEPT ![new.run] = new.proof]
      /\ pass' = [pass EXCEPT ![u].result = <<>>]
      /\ UNCHANGED <<status, halted, hour, mined, live, evidence, verdict, ticket>>
  BY <1>0 DEF StoreProof, world, scoring
<1>5. /\ pass' \in [Upgraders -> [todo : Seq(Loads), result : Seq(Results)]]
      /\ pass'[u].todo = pass[u].todo /\ pass'[u].result = <<>>
      /\ \A v \in Upgraders \ {u} : pass'[v] = pass[v]
      /\ proof' \in [Runs -> Proofs]
  <2>1. pass' = [pass EXCEPT ![u] = [pass[u] EXCEPT !.result = <<>>]]
    BY <1>4
  <2>2. [pass[u] EXCEPT !.result = <<>>] = [todo |-> pass[u].todo, result |-> <<>>]
    <3>1. pass[u] \in [todo : Seq(Loads), result : Seq(Results)]
      BY <1>1
    <3> QED BY <3>1
  <2>3. pass[u].todo \in Seq(Loads) /\ <<>> \in Seq(Results)
    BY <1>1
  <2> QED BY <1>1, <1>2, <1>4, <2>1, <2>2, <2>3
<1>6. /\ proof'[new.run] = new.proof /\ \A q \in Runs \ {new.run} : proof'[q] = proof[q]
      /\ \A q \in Runs : proof[q].heights \subseteq proof'[q].heights
  BY <1>1, <1>2, <1>3, <1>4 DEF Newer
<1>7. ConfTypes'
  BY <1>4, <1>5 DEF ConfInv, ConfTypes
<1>8. StatusesMakeSense'
  BY <1>3, <1>4, <1>6 DEF ConfInv, StatusesMakeSense, Newer
<1>9. pass[u] # NoPass
  BY <1>1 DEF NoPass
<1>10. OnePass' /\ \A v \in Upgraders \ {u} : pass[v] = NoPass
  BY <1>5, <1>9 DEF ConfInv, OnePass
<1>11. PassIsCurrent(pass[u])'
  <2>1. \A i \in DOMAIN pass[u].todo : /\ pass[u].todo[i].run \in Runs \ {new.run}
                                       /\ Newer(pass[u].todo[i].run, pass[u].todo[i].proof)
    BY <1>0, <1>1, LoadsAreTyped DEF ConfInv, PassIsCurrent, Loads
  <2>2. \A i \in DOMAIN pass[u].todo :
            /\ status'[pass[u].todo[i].run] # "COMMITTED"
            /\ proof'[pass[u].todo[i].run].heights \subseteq pass[u].todo[i].proof.heights
    BY <1>4, <1>6, <2>1 DEF Newer
  <2> QED BY <1>1, <1>5, <2>2 DEF PassIsCurrent, Newer
<1>12. PassesAreCurrent'
  <2>1. PassIsCurrent(NoPass)'
    BY DEF PassIsCurrent, NoPass
  <2> QED BY <1>5, <1>10, <1>11, <2>1 DEF PassesAreCurrent
<1>13. EvidenceIsCurrent' /\ TicketsAreBacked'
  <2>1. EvidenceIsCurrent'
    BY <1>4, <1>6 DEF ConfInv, EvidenceIsCurrent, Classify
  <2>2. TicketsAreBacked'
    BY <1>4, <1>6 DEF ConfInv, TicketsAreBacked, Classify, Attests
  <2> QED BY <2>1, <2>2
<1> QED BY <1>7, <1>8, <1>10, <1>12, <1>13 DEF ConfInv

LEMMA ReadEvidenceKeeps ==
    ASSUME ConfInv, NEW r \in Runs, ReadEvidence(r)
    PROVE  ConfInv'
<1>1. PICK row : /\ evidence' = [evidence EXCEPT ![r] = row]
                 /\ row = [read |-> TRUE, kind |-> Classify(r),
                           proof |-> IF Classify(r) \in Tickets THEN proof[r] ELSE NoProof]
  BY DEF ReadEvidence
<1>2. /\ UNCHANGED <<status, halted, proof, hour, mined, live, pass, verdict, ticket>>
      /\ proof[r] \in Proofs /\ DOMAIN evidence = Runs
  BY DEF ReadEvidence, store, world, ConfInv, ConfTypes
<1>3. NoProof \in Proofs /\ NoProof.heights = {} /\ Classify(r) \in Kinds
  BY DEF NoProof, Proofs, Classify, Kinds, Tickets
<1>4. row \in Rows /\ row.kind = Classify(r)
      /\ row.proof = (IF Classify(r) \in Tickets THEN proof[r] ELSE NoProof)
  BY <1>1, <1>2, <1>3 DEF Rows
<1>5. /\ DOMAIN evidence' = Runs /\ evidence'[r] = row
      /\ \A q \in Runs \ {r} : evidence'[q] = evidence[q]
  BY <1>1, <1>2
<1>6. ConfTypes'
  BY <1>2, <1>4, <1>5 DEF ConfInv, ConfTypes
<1>7. StatusesMakeSense' /\ OnePass' /\ PassesAreCurrent'
  BY <1>2 DEF ConfInv, StatusesMakeSense, OnePass, PassesAreCurrent, PassIsCurrent, Newer
<1>8. TicketsAreBacked'
  BY <1>2 DEF ConfInv, TicketsAreBacked, Classify
<1>9. EvidenceIsCurrent'
  <2>1. row.proof.heights \subseteq proof[r].heights
    BY <1>3, <1>4
  <2>2. ticket[r] # NoTicket => row.kind \in Tickets /\ Attests(row.proof.heights, ticket[r])
    BY <1>4 DEF ConfInv, TicketsAreBacked
  <2>4. row.kind \in Tickets => Classify(r)' \in Tickets
    BY <1>2, <1>4 DEF Classify
  <2>5. \A q \in Runs : Classify(q)' = Classify(q)
    BY <1>2 DEF Classify
  <2> QED BY <1>2, <1>5, <2>1, <2>2, <2>4, <2>5 DEF ConfInv, EvidenceIsCurrent
<1> QED BY <1>6, <1>7, <1>8, <1>9 DEF ConfInv

\* A ticket is issued for the lowest verified block, which a live run's outcomes follow.
LEMMA TicketIsEarned ==
    ASSUME NEW r, NEW row \in Rows, Admission(r, row) \in Tickets
    PROVE  /\ row.kind \in Tickets
           /\ BestHeight(row.proof.heights) \in row.proof.heights \ {0}
           /\ r \in live => ~(BestHeight(row.proof.heights) >= Resolves)
<1>1. row.proof.heights \subseteq Nat
  BY ConfirmationAssumption DEF Rows, Proofs, Heights
<1>2. /\ row.kind \in Tickets /\ row.proof.heights # {} /\ row.proof.heights # {0}
      /\ r \in live => ~(BestHeight(row.proof.heights) >= Resolves)
  BY DEF Admission, Tickets
<1>3. row.proof.heights \ {0} # {} /\ row.proof.heights \ {0} \in SUBSET Nat
  BY <1>1, <1>2
<1> QED BY <1>2, <1>3, LowestIsLeast DEF BestHeight

\* A run of a scored class whose proof has an early block is refused by outages alone.
LEMMA BackedIsNotRefused ==
    ASSUME NEW r, NEW row \in Rows, NEW t \in Nat, row.kind \in Tickets,
           Attests(row.proof.heights, t), r \in live => t < Resolves
    PROVE  Admission(r, row) \in Tickets \cup {"evidence_unavailable"}
<1>1. row.proof.heights \subseteq Nat
  BY ConfirmationAssumption DEF Rows, Proofs, Heights
<1>2. PICK h \in row.proof.heights \ {0} : h <= t
  BY DEF Attests
<1>3. BestHeight(row.proof.heights) \in Nat /\ BestHeight(row.proof.heights) <= h
  <2>1. row.proof.heights \ {0} \in SUBSET Nat
    BY <1>1
  <2> QED BY <1>2, <2>1, LowestIsLeast DEF BestHeight
<1>4. row.proof # NoProof /\ row.proof.heights # {} /\ row.proof.heights # {0}
  BY <1>2 DEF NoProof
<1>5. r \in live => ~(BestHeight(row.proof.heights) >= Resolves)
  BY <1>1, <1>2, <1>3, ConfirmationAssumption
<1> QED BY <1>4, <1>5 DEF Admission

\* An admission that has no ticket yet gets one from evidence that stays stored; one that
\* had a ticket finds what it rests on.
LEMMA AdmitRunKeeps ==
    ASSUME ConfInv, NEW r \in Runs, AdmitRun(r)
    PROVE  ConfInv'
<1>0. PICK row, outcome, best :
          row = evidence[r] /\ outcome = Admission(r, row) /\ best = BestHeight(row.proof.heights)
  OBVIOUS
<1>1. /\ evidence' = [evidence EXCEPT ![r] = NotRead]
      /\ UNCHANGED <<status, halted, proof, hour, mined, live, pass>>
      /\ ticket' = IF outcome \in Tickets THEN [ticket EXCEPT ![r] = Lowest({@, best})] ELSE ticket
      /\ verdict' = IF ticket'[r] = NoTicket THEN verdict ELSE [verdict EXCEPT ![r] = outcome]
  BY <1>0 DEF AdmitRun, store, world
<1>2. /\ row \in Rows /\ row.proof.heights \subseteq proof[r].heights
      /\ ticket[r] # NoTicket => row.kind \in Tickets /\ Attests(row.proof.heights, ticket[r])
  BY <1>0 DEF AdmitRun, ConfInv, ConfTypes, EvidenceIsCurrent, NotRead
<1>3. /\ ticket \in [Runs -> 1..NoTicket] /\ DOMAIN verdict = Runs /\ DOMAIN evidence = Runs
      /\ NoTicket = MaxTime + 1 /\ MaxTime \in Nat /\ Resolves \in Nat
      /\ ticket[r] \in 1..NoTicket
  BY ConfirmationAssumption DEF ConfInv, ConfTypes, NoTicket
<1>4. outcome \in Tickets => /\ row.kind \in Tickets /\ best \in row.proof.heights \ {0}
                             /\ best \in 1..MaxTime
                             /\ r \in live => best < Resolves
  <2> SUFFICES ASSUME outcome \in Tickets
               PROVE  /\ row.kind \in Tickets /\ best \in row.proof.heights \ {0}
                      /\ best \in 1..MaxTime
                      /\ r \in live => best < Resolves
    OBVIOUS
  <2>1. /\ row.kind \in Tickets /\ best \in row.proof.heights \ {0}
        /\ r \in live => ~(best >= Resolves)
    BY <1>0, <1>2, TicketIsEarned
  <2>2. row.proof.heights \subseteq 0..MaxTime
    BY <1>2 DEF Rows, Proofs, Heights
  <2> QED BY <1>3, <2>1, <2>2
<1>5. outcome \in Tickets => LET low == Lowest({ticket[r], best})
                             IN  low \in {ticket[r], best} /\ low <= best /\ low <= ticket[r]
  <2> SUFFICES ASSUME outcome \in Tickets
               PROVE  LET low == Lowest({ticket[r], best})
                      IN  low \in {ticket[r], best} /\ low <= best /\ low <= ticket[r]
    OBVIOUS
  <2>1. {ticket[r], best} \in SUBSET Nat /\ {ticket[r], best} # {}
    BY <1>3, <1>4
  <2> QED BY <2>1, LowestIsLeast
<1>6. PICK new : new = ticket'[r]
  OBVIOUS
<1>7. /\ ticket' \in [Runs -> 1..NoTicket] /\ new \in 1..NoTicket
      /\ \A q \in Runs \ {r} : ticket'[q] = ticket[q]
      /\ outcome \in Tickets => new \in {ticket[r], best} /\ new <= best /\ new <= ticket[r]
      /\ outcome \notin Tickets => new = ticket[r]
  <2>1. CASE outcome \in Tickets
    <3>1. PICK low \in {ticket[r], best} : low = Lowest({ticket[r], best}) /\ low <= best /\ low <= ticket[r]
      BY <1>5, <2>1
    <3>2. low \in 1..NoTicket
      BY <1>3, <1>4, <2>1, <3>1
    <3>3. ticket' = [ticket EXCEPT ![r] = low]
      BY <1>1, <2>1, <3>1
    <3> QED BY <1>3, <1>6, <2>1, <3>1, <3>2, <3>3
  <2>2. CASE outcome \notin Tickets
    BY <1>1, <1>3, <1>6, <2>2
  <2> QED BY <2>1, <2>2
<1>8. /\ DOMAIN verdict' = Runs /\ \A q \in Runs \ {r} : verdict'[q] = verdict[q]
      /\ new # NoTicket => verdict'[r] = outcome
  BY <1>1, <1>3, <1>6
<1>9. ConfTypes'
  BY <1>1, <1>3, <1>7, <1>8 DEF ConfInv, ConfTypes
<1>10. StatusesMakeSense' /\ OnePass' /\ PassesAreCurrent'
  BY <1>1 DEF ConfInv, StatusesMakeSense, OnePass, PassesAreCurrent, PassIsCurrent, Newer
<1>11. \A q \in Runs : Classify(q)' = Classify(q)
  BY <1>1 DEF Classify
<1>12. EvidenceIsCurrent'
  BY <1>1, <1>3, <1>7, <1>11 DEF ConfInv, EvidenceIsCurrent
<1>13. ASSUME new # NoTicket
       PROVE  /\ Classify(r) \in Tickets /\ Attests(proof[r].heights, new)
              /\ r \in live => new < Resolves
              /\ verdict'[r] \in Tickets \cup {"evidence_unavailable"}
  <2>1. CASE outcome \in Tickets
    <3>1. Classify(r) \in Tickets
      BY <1>0, <1>4, <2>1 DEF AdmitRun, NotRead, ConfInv, EvidenceIsCurrent
    <3>2. Attests(proof[r].heights, new)
      <4>1. CASE new = best
        BY <1>2, <1>3, <1>4, <2>1, <4>1 DEF Attests
      <4>2. CASE new = ticket[r]
        BY <1>13, <4>2 DEF ConfInv, TicketsAreBacked
      <4> QED BY <1>7, <2>1, <4>1, <4>2
    <3>3. r \in live => new < Resolves
      BY <1>3, <1>4, <1>7, <2>1
    <3> QED BY <1>8, <1>13, <2>1, <3>1, <3>2, <3>3
  <2>2. CASE outcome \notin Tickets
    <3>1. /\ ticket[r] = new /\ new \in Nat
          /\ Classify(r) \in Tickets /\ Attests(proof[r].heights, new)
          /\ r \in live => new < Resolves
      BY <1>3, <1>7, <1>13, <2>2 DEF ConfInv, TicketsAreBacked
    <3>2. row.kind \in Tickets /\ Attests(row.proof.heights, new)
      BY <1>2, <1>13, <3>1
    <3>3. outcome \in Tickets \cup {"evidence_unavailable"}
      BY <1>0, <1>2, <3>1, <3>2, BackedIsNotRefused
    <3> QED BY <1>8, <1>13, <3>1, <3>3
  <2> QED BY <2>1, <2>2
<1>14. TicketsAreBacked'
  <2> SUFFICES ASSUME NEW q \in Runs, ticket'[q] # NoTicket
               PROVE  /\ Classify(q)' \in Tickets /\ Attests(proof[q].heights, ticket[q])'
                      /\ q \in live' => ticket'[q] < Resolves
                      /\ verdict'[q] \in Tickets \cup {"evidence_unavailable"}
    BY DEF TicketsAreBacked, NoTicket
  <2>1. Attests(proof[q].heights, ticket'[q]) => Attests(proof[q].heights, ticket[q])'
    BY <1>1 DEF Attests
  <2>2. CASE q = r
    BY <1>1, <1>6, <1>11, <1>13, <2>1, <2>2
  <2>3. CASE q # r
    BY <1>1, <1>7, <1>8, <1>11, <2>1, <2>3 DEF ConfInv, TicketsAreBacked
  <2> QED BY <2>2, <2>3
<1> QED BY <1>9, <1>10, <1>12, <1>14 DEF ConfInv

\* evaluation/scorable.py: an admission reads its evidence anew every time, and what a
\* ticket was issued for stays true: the stored proof keeps every height (when passes do
\* not overlap), a halt leaves a scored class, and the outcomes of a live run stay later.
THEOREM AdmissionsAreStable ==
    ASSUME ~OverlappingPasses
    PROVE  ConfSpec => []AdmissionIsStable
<1>1. ConfInit => ConfInv
  BY ConfInitHolds
<1>2. ConfInv /\ [ConfNext]_confVars => ConfInv'
  <2> SUFFICES ASSUME ConfInv, [ConfNext]_confVars PROVE ConfInv'
    OBVIOUS
  <2>1. ASSUME NEW u \in Upgraders, UpgradeStep(u) \/ PassDies(u) PROVE ConfInv'
    <3>1. CASE PassDies(u)
      BY <3>1, EndedPassKeeps DEF PassDies, PassOnly
    <3> QED BY <2>1, <3>1, StartPassKeeps, UpgradeOneKeeps, StoreProofKeeps DEF UpgradeStep
  <2>2. ASSUME NEW r \in Runs,
               Anchor(r) \/ Execute(r) \/ Halt(r) \/ ReadEvidence(r) \/ AdmitRun(r)
        PROVE  ConfInv'
    BY <2>2, TransitionsKeep, ReadEvidenceKeeps, AdmitRunKeeps
  <2> QED BY <2>1, <2>2, ConfWorldSteps DEF ConfNext
<1>3. ConfInv => AdmissionIsStable
  <2> SUFFICES ASSUME ConfInv, NEW r \in Runs, ticket[r] # NoTicket
               PROVE  /\ verdict[r] \in Tickets \cup {"evidence_unavailable"}
                      /\ proof[r].heights \ {0} # {} /\ BestHeight(proof[r].heights) <= ticket[r]
    BY DEF AdmissionIsStable
  <2>1. /\ verdict[r] \in Tickets \cup {"evidence_unavailable"}
        /\ Attests(proof[r].heights, ticket[r]) /\ ticket[r] \in Nat
    BY ConfirmationAssumption DEF ConfInv, TicketsAreBacked, ConfTypes, NoTicket
  <2>2. proof[r].heights \ {0} \in SUBSET Nat
    BY ConfirmationAssumption DEF ConfInv, ConfTypes, Proofs, Heights
  <2>3. PICK h \in proof[r].heights \ {0} : h <= ticket[r]
    BY <2>1 DEF Attests
  <2>4. BestHeight(proof[r].heights) \in Nat /\ BestHeight(proof[r].heights) <= h
    BY <2>2, <2>3, LowestIsLeast DEF BestHeight
  <2> QED BY <2>1, <2>2, <2>3, <2>4
<1> QED BY <1>1, <1>2, <1>3, PTL DEF ConfSpec

-----------------------------------------------------------------------------
(* MarketCalendar: a consistent calendar answers what was read last.       *)

\* What a set of fetched sessions says of a date it covers.
SaidIn(read, d) ==
    IF \E s \in read : s[1] = d THEN (CHOOSE s \in read : s[1] = d)[2] ELSE Holiday
Said(t, d) == SaidIn(fetches[t].read, d)
Reader(t, d) == t \in DOMAIN fetches /\ In(d, fetches[t].range)

\* Sessions of the range, each with one opening that is no holiday.
Sound(read, range) ==
    /\ \A s \in read : s[1] \in Dates /\ In(s[1], range) /\ s[2] # Holiday /\ s = <<s[1], s[2]>>
    /\ \A s, r \in read : s[1] = r[1] => s = r

LEMMA SaidOfSession ==
    ASSUME NEW range, NEW read, Sound(read, range), NEW s \in read
    PROVE  SaidIn(read, s[1]) = s[2]
BY DEF SaidIn, Sound

LEMMA SaidOfHoliday ==
    ASSUME NEW range, NEW read, Sound(read, range), NEW d
    PROVE  SaidIn(read, d) = Holiday <=> \A s \in read : s[1] # d
<1>1. CASE \A s \in read : s[1] # d
  BY <1>1 DEF SaidIn
<1>2. ASSUME NEW s \in read, s[1] = d PROVE SaidIn(read, d) # Holiday
  <2>1. SaidIn(read, s[1]) = s[2]
    BY SaidOfSession
  <2>2. s[2] # Holiday
    BY DEF Sound
  <2> QED BY <1>2, <2>1, <2>2
<1> QED BY <1>1, <1>2

\* A sync reads the exchange as it is.
LEMMA FetchedIsTheExchange ==
    ASSUME NEW range
    PROVE  /\ Sound(Fetched(range), range)
           /\ \A d \in Dates : In(d, range) => SaidIn(Fetched(range), d) = exchange[d]
<1>1. \A s : s \in Fetched(range) <=>
             \E d \in Dates : In(d, range) /\ exchange[d] # Holiday /\ s = <<d, exchange[d]>>
  BY DEF Fetched
<1>2. Sound(Fetched(range), range)
  BY <1>1 DEF Sound
<1>3. ASSUME NEW d \in Dates, In(d, range) PROVE SaidIn(Fetched(range), d) = exchange[d]
  <2>1. CASE exchange[d] = Holiday
    <3>1. \A s \in Fetched(range) : s[1] # d
      BY <1>1, <2>1
    <3> QED BY <1>2, <2>1, <3>1, SaidOfHoliday
  <2>2. CASE exchange[d] # Holiday
    <3>1. <<d, exchange[d]>> \in Fetched(range)
      BY <1>1, <1>3, <2>2
    <3>2. SaidIn(Fetched(range), <<d, exchange[d]>>[1]) = <<d, exchange[d]>>[2]
      BY <1>2, <3>1, SaidOfSession
    <3> QED BY <3>2
  <2> QED BY <2>1, <2>2
<1> QED BY <1>2, <1>3

Clocked == \E n \in Nat : DOMAIN fetches = 1..n
ReadsAreSound ==
    \A t \in DOMAIN fetches : Sound(fetches[t].read, fetches[t].range)

\* What was read is remembered, and what a date is now it has been since it was first read.
ReadsAreRemembered ==
    \A d \in Dates :
        /\ exchange[d] \in had[d]
        /\ \A t \in DOMAIN fetches : Reader(t, d) => Said(t, d) \in had[d]
CurrentStays ==
    \A d \in Dates, t, u \in DOMAIN fetches :
        t < u /\ Reader(t, d) /\ Reader(u, d) /\ Said(t, d) = exchange[d] => Said(u, d) = exchange[d]

\* Between two reads that agree, no other read said something else.
NothingReturns ==
    \A d \in Dates, t, u, v \in DOMAIN fetches :
        /\ t <= u /\ u <= v /\ Reader(t, d) /\ Reader(u, d) /\ Reader(v, d)
        /\ Said(t, d) = Said(v, d)
        => Said(u, d) = Said(t, d)

\* A session version was read at its time, and a coverage row is the fetch of its time.
VersionsWereRead ==
    \A v \in sessions : /\ v.at \in DOMAIN fetches
                        /\ <<v.date, v.hours>> \in fetches[v.at].read
RowsWereRead ==
    \A c \in coverage : /\ c.at \in DOMAIN fetches
                        /\ c.range = fetches[c.at].range /\ c.digest = fetches[c.at].read
ReadsHaveRows ==
    \A t \in DOMAIN fetches :
        \E c \in coverage : c.at <= t /\ c.range = fetches[t].range /\ c.digest = fetches[t].read

CalendarInv ==
    /\ Clocked /\ ReadsAreSound /\ ReadsAreRemembered /\ CurrentStays /\ NothingReturns
    /\ VersionsWereRead /\ RowsWereRead /\ ReadsHaveRows
    /\ DOMAIN exchange = Dates /\ DOMAIN had = Dates

LEMMA ClockCounts ==
    ASSUME Clocked
    PROVE  SyncClock \in Nat /\ DOMAIN fetches = 1..SyncClock
<1>1. PICK n \in Nat : DOMAIN fetches = 1..n
  BY DEF Clocked
<1>2. Cardinality(1..n) = n
  BY FS_Interval
<1> QED BY <1>1, <1>2 DEF SyncClock

LEMMA CalendarInitHolds == CalendarInit => CalendarInv
<1> SUFFICES ASSUME CalendarInit PROVE CalendarInv
  OBVIOUS
<1>1. DOMAIN fetches = 1..0 /\ DOMAIN fetches = {}
  BY DEF CalendarInit
<1>2. Clocked
  BY <1>1 DEF Clocked
<1>3. DOMAIN exchange = Dates /\ DOMAIN had = Dates /\ \A d \in Dates : exchange[d] \in had[d]
  BY DEF CalendarInit
<1>4. sessions = {} /\ coverage = {}
  BY DEF CalendarInit
<1> QED
  BY <1>1, <1>2, <1>3, <1>4
  DEF CalendarInv, ReadsAreSound, ReadsAreRemembered, CurrentStays, NothingReturns, VersionsWereRead,
      RowsWereRead, ReadsHaveRows

\* The exchange changes a date to what it never was.
LEMMA ChangeKeeps ==
    ASSUME HoursReturn = FALSE, CalendarInv, NEW d \in Dates, NEW h, ExchangeChanges(d, h)
    PROVE  CalendarInv'
<1>1. /\ UNCHANGED <<fetches, sessions, coverage>> /\ h \notin had[d]
      /\ exchange' = [exchange EXCEPT ![d] = h] /\ had' = [had EXCEPT ![d] = @ \cup {h}]
  BY DEF ExchangeChanges
<1>2. /\ DOMAIN exchange' = Dates /\ DOMAIN had' = Dates /\ exchange'[d] = h
      /\ had'[d] = had[d] \cup {h}
      /\ \A e \in Dates \ {d} : exchange'[e] = exchange[e] /\ had'[e] = had[e]
  BY <1>1 DEF CalendarInv
<1>3. \A t, e : (Said(t, e)' = Said(t, e)) /\ (Reader(t, e)' <=> Reader(t, e))
  BY <1>1 DEF Said, Reader
<1>4. Clocked' /\ ReadsAreSound' /\ VersionsWereRead' /\ RowsWereRead' /\ ReadsHaveRows'
  BY <1>1 DEF CalendarInv, Clocked, ReadsAreSound, VersionsWereRead, RowsWereRead, ReadsHaveRows
<1>5. NothingReturns'
  BY <1>1, <1>3 DEF CalendarInv, NothingReturns
<1>6. ReadsAreRemembered'
  BY <1>1, <1>2, <1>3 DEF CalendarInv, ReadsAreRemembered
<1>7. CurrentStays'
  BY <1>1, <1>2, <1>3 DEF CalendarInv, ReadsAreRemembered, CurrentStays
<1> QED BY <1>2, <1>4, <1>5, <1>6, <1>7 DEF CalendarInv

\* A sync adds one read of the exchange, the versions that are new and a row for what it read.
LEMMA SyncKeeps ==
    ASSUME CalendarInv, NEW range \in Ranges, Sync(range)
    PROVE  CalendarInv'
<1>0. PICK n \in Nat : n = SyncClock /\ DOMAIN fetches = 1..n
  BY ClockCounts DEF CalendarInv
<1> DEFINE read == Fetched(range)
           now == n + 1
<1>1. /\ fetches' = [t \in 1..now |-> IF t = now THEN [range |-> range, read |-> read] ELSE fetches[t]]
      /\ sessions' = sessions \cup NewSessions(range, now)
      /\ coverage' = coverage \cup NewCoverage(range, now)
      /\ UNCHANGED <<exchange, had>>
  BY <1>0 DEF Sync
<1>2. /\ Sound(read, range) /\ \A d \in Dates : In(d, range) => SaidIn(read, d) = exchange[d]
  BY FetchedIsTheExchange
<1> HIDE DEF read
<1>3. /\ DOMAIN fetches' = 1..now /\ fetches'[now].range = range /\ fetches'[now].read = read
      /\ \A t \in 1..n : fetches'[t] = fetches[t]
      /\ 1..now = 1..n \cup {now} /\ \A t \in 1..n : t < now
  BY <1>0, <1>1
<1>4. Clocked'
  BY <1>3 DEF Clocked
<1>5. ReadsAreSound'
  BY <1>0, <1>2, <1>3 DEF CalendarInv, ReadsAreSound, Sound
<1>6. /\ \A d : \A t \in 1..n : (Said(t, d)' = Said(t, d)) /\ (Reader(t, d)' <=> Reader(t, d))
      /\ \A d \in Dates : Reader(now, d)' => Said(now, d)' = exchange[d]
  <2>1. \A d : \A t \in 1..n : (Said(t, d)' = Said(t, d)) /\ (Reader(t, d)' <=> Reader(t, d))
    BY <1>0, <1>3 DEF Said, Reader
  <2>2. \A d \in Dates : Reader(now, d)' => Said(now, d)' = exchange[d]
    BY <1>2, <1>3 DEF Said, Reader
  <2> QED BY <2>1, <2>2
<1>7. ReadsAreRemembered'
  BY <1>0, <1>1, <1>3, <1>6 DEF CalendarInv, ReadsAreRemembered
<1>8. CurrentStays'
  <2> SUFFICES ASSUME NEW d \in Dates, NEW t \in 1..now, NEW u \in 1..now, t < u,
                      Reader(t, d)', Reader(u, d)', Said(t, d)' = exchange'[d]
               PROVE  Said(u, d)' = exchange'[d]
    BY <1>3 DEF CurrentStays
  <2>1. t \in 1..n
    BY <1>3
  <2>2. CASE u = now
    BY <1>1, <1>6, <2>2
  <2>3. CASE u \in 1..n
    BY <1>0, <1>1, <1>6, <2>1, <2>3 DEF CalendarInv, CurrentStays
  <2> QED BY <1>3, <2>2, <2>3
<1>9. NothingReturns'
  <2> SUFFICES ASSUME NEW d \in Dates, NEW t \in 1..now, NEW u \in 1..now, NEW v \in 1..now,
                      t <= u, u <= v, Reader(t, d)', Reader(u, d)', Reader(v, d)',
                      Said(t, d)' = Said(v, d)'
               PROVE  Said(u, d)' = Said(t, d)'
    BY <1>3 DEF NothingReturns
  <2>1. CASE v \in 1..n
    <3>1. t \in 1..n /\ u \in 1..n
      BY <2>1
    <3> QED BY <1>0, <1>6, <2>1, <3>1 DEF CalendarInv, NothingReturns
  <2>2. CASE v = now
    <3>1. Said(t, d)' = exchange[d]
      BY <1>6, <2>2
    <3>2. CASE u = now \/ t = u
      BY <1>6, <2>2, <3>1, <3>2
    <3>3. CASE u \in 1..n /\ t < u
      <4>1. t \in 1..n
        BY <3>3
      <4> QED BY <1>0, <1>6, <3>1, <3>3, <4>1 DEF CalendarInv, CurrentStays
    <3> QED BY <1>3, <3>2, <3>3
  <2> QED BY <1>3, <2>1, <2>2
<1>10. VersionsWereRead'
  <2>1. \A v \in NewSessions(range, now) : v.at = now /\ <<v.date, v.hours>> \in read
    <3>1. \A v \in NewSessions(range, now) : \E s \in Fetched(range) :
              v = [date |-> s[1], hours |-> s[2], at |-> now]
      BY DEF NewSessions
    <3>2. \A s \in read : s = <<s[1], s[2]>>
      BY <1>2 DEF Sound
    <3> QED BY <3>1, <3>2 DEF read
  <2> QED BY <1>0, <1>1, <1>3, <2>1 DEF CalendarInv, VersionsWereRead
<1>11. RowsWereRead'
  <2>1. \A c \in NewCoverage(range, now) : c.at = now /\ c.range = range /\ c.digest = read
    BY DEF NewCoverage, read
  <2> QED BY <1>0, <1>1, <1>3, <2>1 DEF CalendarInv, RowsWereRead
<1>12. ReadsHaveRows'
  <2>1. \A t \in 1..n : \E c \in coverage' :
            c.at <= t /\ c.range = fetches'[t].range /\ c.digest = fetches'[t].read
    <3> SUFFICES ASSUME NEW t \in 1..n
                 PROVE  \E c \in coverage' :
                            c.at <= t /\ c.range = fetches'[t].range /\ c.digest = fetches'[t].read
      OBVIOUS
    <3>1. PICK c \in coverage : c.at <= t /\ c.range = fetches[t].range /\ c.digest = fetches[t].read
      BY <1>0 DEF CalendarInv, ReadsHaveRows
    <3>2. fetches'[t] = fetches[t] /\ c \in coverage'
      BY <1>1, <1>3
    <3> QED BY <3>1, <3>2
  <2>2. \E c \in coverage' : c.at <= now /\ c.range = range /\ c.digest = read
    <3>1. CASE \E c \in coverage : c.range = range /\ c.digest = read
      BY <1>0, <1>1, <3>1 DEF CalendarInv, RowsWereRead
    <3>2. CASE ~\E c \in coverage : c.range = range /\ c.digest = read
      <4>1. [range |-> range, digest |-> read, at |-> now] \in coverage'
        BY <1>1, <3>2 DEF NewCoverage, read
      <4> QED BY <4>1
    <3> QED BY <3>1, <3>2
  <2> QED BY <1>3, <2>1, <2>2 DEF ReadsHaveRows
<1> QED
  BY <1>1, <1>4, <1>5, <1>7, <1>8, <1>9, <1>10, <1>11, <1>12 DEF CalendarInv

-----------------------------------------------------------------------------
(* Answers.                                                                *)

\* The latest version of a date was read, and no visible one is newer.
LEMMA LatestIsNewest ==
    ASSUME CalendarInv, NEW d, NEW asOf \in Nat, VersionsOf(d, asOf) # {}
    PROVE  LET v == Latest(VersionsOf(d, asOf))
           IN  /\ v \in VersionsOf(d, asOf) /\ v.at \in DOMAIN fetches /\ v.at \in Nat
               /\ \A w \in VersionsOf(d, asOf) : w.at <= v.at
<1> DEFINE V == VersionsOf(d, asOf)
           S == {v.at : v \in V}
<1>1. SyncClock \in Nat /\ DOMAIN fetches = 1..SyncClock
  BY ClockCounts DEF CalendarInv
<1>2. \A v \in V : v.at \in DOMAIN fetches /\ v.at \in 0..asOf
  <2> SUFFICES ASSUME NEW v \in V PROVE v.at \in DOMAIN fetches /\ v.at \in 0..asOf
    OBVIOUS
  <2>1. v \in sessions /\ v.at <= asOf
    BY DEF VersionsOf
  <2>2. v.at \in DOMAIN fetches
    BY <2>1 DEF CalendarInv, VersionsWereRead
  <2>3. v.at \in Nat
    BY <1>1, <2>2
  <2> QED BY <2>1, <2>2, <2>3
<1>3. S \in SUBSET (0..asOf) /\ S # {}
  BY <1>2
<1>4. PICK m \in S : \A k \in S : k <= m
  BY <1>3, GreatestExists
<1>5. \E v \in V : \A w \in V : w.at <= v.at
  BY <1>4
<1> HIDE DEF V
<1>6. Latest(V) \in V /\ \A w \in V : w.at <= Latest(V).at
  BY <1>5 DEF Latest
<1> QED BY <1>2, <1>6 DEF V

\* The newest read of a date.
LEMMA LastReadIsNewest ==
    ASSUME CalendarInv, NEW d \in Dates, NEW asOf \in Nat, Reads(d, asOf) # {}
    PROVE  \E t \in Reads(d, asOf) : /\ \A u \in Reads(d, asOf) : u <= t
                                     /\ LastRead(d, asOf) = Said(t, d)
<1>1. SyncClock \in Nat /\ DOMAIN fetches = 1..SyncClock
  BY ClockCounts DEF CalendarInv
<1>2. Reads(d, asOf) \in SUBSET (0..asOf)
  BY <1>1 DEF Reads
<1>3. \E t \in Reads(d, asOf) : \A u \in Reads(d, asOf) : u <= t
  BY <1>2, GreatestExists
<1>4. PICK t : t = CHOOSE r \in Reads(d, asOf) : \A u \in Reads(d, asOf) : u <= r
  OBVIOUS
<1>5. t \in Reads(d, asOf) /\ \A u \in Reads(d, asOf) : u <= t
  BY <1>3, <1>4
<1> DEFINE read == fetches[t].read
           hours == {s[2] : s \in {r \in read : r[1] = d}}
<1>6. Sound(read, fetches[t].range)
  BY <1>5 DEF Reads, CalendarInv, ReadsAreSound
<1> HIDE DEF read
<1>7. LastRead(d, asOf) = IF hours = {} THEN Holiday ELSE CHOOSE h \in hours : TRUE
  BY <1>4 DEF LastRead, read
<1>8. CASE \A s \in read : s[1] # d
  <2>1. hours = {}
    BY <1>8
  <2> QED BY <1>5, <1>6, <1>7, <1>8, <2>1, SaidOfHoliday DEF Said, read
<1>9. ASSUME NEW s \in read, s[1] = d
      PROVE  LastRead(d, asOf) = Said(t, d)
  <2>1. hours = {s[2]}
    BY <1>6, <1>9 DEF Sound
  <2>2. LastRead(d, asOf) = s[2]
    BY <1>7, <2>1
  <2>3. SaidIn(read, s[1]) = s[2]
    BY <1>6, SaidOfSession
  <2> QED BY <1>9, <2>2, <2>3 DEF Said, read
<1> QED BY <1>5, <1>8, <1>9

\* The newest coverage row of a covered date's last read describes what that read said.
LEMMA RowSaysLastRead ==
    ASSUME CalendarInv, NEW d \in Dates, NEW asOf \in Nat,
           NEW t \in Reads(d, asOf), \A u \in Reads(d, asOf) : u <= t
    PROVE  \E c \in ByRange(asOf) : /\ In(d, c.range) /\ c.at \in Reads(d, asOf)
                                    /\ Said(c.at, d) = Said(t, d)
<1>1. SyncClock \in Nat /\ DOMAIN fetches = 1..SyncClock
  BY ClockCounts DEF CalendarInv
<1>2. t \in DOMAIN fetches /\ t \in Nat /\ t <= asOf /\ In(d, fetches[t].range)
  BY <1>1 DEF Reads
<1>3. PICK old \in coverage : /\ old.at <= t /\ old.range = fetches[t].range
                              /\ old.digest = fetches[t].read
  BY <1>2 DEF CalendarInv, ReadsHaveRows
<1> DEFINE C == {c \in coverage : c.at <= asOf /\ c.range = old.range}
           S == {c.at : c \in C}
<1>4. \A c \in coverage : /\ c.at \in DOMAIN fetches /\ c.at \in Nat
                          /\ c.range = fetches[c.at].range /\ c.digest = fetches[c.at].read
  BY <1>1 DEF CalendarInv, RowsWereRead
<1>5. old \in C
  BY <1>2, <1>3, <1>4
<1>6. S \in SUBSET (0..asOf) /\ S # {}
  BY <1>4, <1>5
<1>7. PICK m \in S : \A k \in S : k <= m
  BY <1>6, GreatestExists
<1>8. PICK c \in C : c.at = m
  BY <1>7
<1>9. c \in ByRange(asOf)
  BY <1>7, <1>8 DEF ByRange
<1>10. old.at <= c.at /\ c.range = old.range /\ c \in coverage /\ c.at <= asOf
  BY <1>5, <1>7, <1>8
<1>11. Reader(old.at, d) /\ Reader(c.at, d) /\ Reader(t, d) /\ In(d, c.range)
  BY <1>2, <1>3, <1>4, <1>10 DEF Reader
<1>12. c.at \in Reads(d, asOf) /\ c.at <= t
  BY <1>4, <1>10, <1>11 DEF Reads, Reader
<1>13. Said(old.at, d) = Said(t, d)
  BY <1>3, <1>4 DEF Said
<1>14. Said(c.at, d) = Said(old.at, d)
  BY <1>2, <1>4, <1>10, <1>11, <1>12, <1>13 DEF CalendarInv, NothingReturns
<1> QED BY <1>9, <1>11, <1>12, <1>13, <1>14

\* A covered date of a consistent calendar has a session exactly when the last read had one,
\* and then its hours.
LEMMA CoveredIsCurrent ==
    ASSUME CalendarInv, NEW d \in Dates, NEW asOf \in Nat, Consistent(asOf), Covering(d, asOf) # {}
    PROVE  /\ Reads(d, asOf) # {}
           /\ VersionsOf(d, asOf) = {} => LastRead(d, asOf) = Holiday
           /\ VersionsOf(d, asOf) # {} => /\ LastRead(d, asOf) = Latest(VersionsOf(d, asOf)).hours
                                          /\ LastRead(d, asOf) # Holiday
<1>1. SyncClock \in Nat /\ DOMAIN fetches = 1..SyncClock
  BY ClockCounts DEF CalendarInv
<1>2. Reads(d, asOf) # {}
  <2>1. PICK c \in coverage : c.at <= asOf /\ In(d, c.range)
    BY DEF Covering, ByRange
  <2>2. c.at \in DOMAIN fetches /\ c.range = fetches[c.at].range
    BY <2>1 DEF CalendarInv, RowsWereRead
  <2> QED BY <2>1, <2>2 DEF Reads
<1>3. PICK t \in Reads(d, asOf) : /\ \A u \in Reads(d, asOf) : u <= t
                                  /\ LastRead(d, asOf) = Said(t, d)
  BY <1>2, LastReadIsNewest
<1>4. PICK c \in ByRange(asOf) : /\ In(d, c.range) /\ c.at \in Reads(d, asOf)
                                 /\ Said(c.at, d) = Said(t, d)
  BY <1>3, RowSaysLastRead
<1>5. /\ c.digest = fetches[c.at].read /\ Describes(c) /\ c.at \in Nat /\ c.at <= asOf
      /\ t \in Nat /\ c.at <= t /\ Reader(c.at, d) /\ Reader(t, d)
      /\ Sound(fetches[c.at].read, fetches[c.at].range)
  BY <1>1, <1>3, <1>4 DEF Consistent, ByRange, Reads, Reader, CalendarInv, RowsWereRead, ReadsAreSound
\* A version newer than the row says what the last read says.
<1>6. ASSUME NEW v \in VersionsOf(d, asOf)
      PROVE  /\ v.at \in Nat /\ Reader(v.at, d) /\ Said(v.at, d) = v.hours /\ v.hours # Holiday
             /\ v.at > c.at => v.hours = Said(t, d)
  <2>1. v \in sessions /\ v.date = d /\ v.at <= asOf
    BY DEF VersionsOf
  <2>2. v.at \in DOMAIN fetches /\ <<d, v.hours>> \in fetches[v.at].read
    BY <2>1 DEF CalendarInv, VersionsWereRead
  <2>3. Sound(fetches[v.at].read, fetches[v.at].range)
    BY <2>2 DEF CalendarInv, ReadsAreSound
  <2>4. v.hours # Holiday /\ In(d, fetches[v.at].range)
    BY <2>2, <2>3 DEF Sound
  <2>5. Said(v.at, d) = v.hours
    <3>1. SaidIn(fetches[v.at].read, <<d, v.hours>>[1]) = <<d, v.hours>>[2]
      BY <2>2, <2>3, SaidOfSession
    <3> QED BY <3>1 DEF Said
  <2>6. v.at \in Reads(d, asOf) /\ v.at \in Nat /\ v.at <= t
    BY <1>1, <1>3, <2>1, <2>2, <2>4 DEF Reads
  <2>7. Reader(v.at, d)
    BY <2>2, <2>4 DEF Reader
  <2>8. v.at > c.at => Said(v.at, d) = Said(t, d)
    BY <1>4, <1>5, <2>6, <2>7 DEF CalendarInv, NothingReturns, Reader
  <2> QED BY <2>4, <2>5, <2>6, <2>7, <2>8
<1>7. /\ VersionsOf(d, c.at) \subseteq VersionsOf(d, asOf)
      /\ \A v \in VersionsOf(d, asOf) : v \notin VersionsOf(d, c.at) => v.at > c.at
  <2>1. \A v \in sessions : v.at \in Nat
    <3>1. \A v \in sessions : v.at \in DOMAIN fetches
      BY DEF CalendarInv, VersionsWereRead
    <3> QED BY <1>1, <3>1
  <2> QED BY <1>5, <2>1 DEF VersionsOf
<1>8. \/ VersionsOf(d, c.at) = {} /\ Said(c.at, d) = Holiday
      \/ VersionsOf(d, c.at) # {} /\ Said(c.at, d) = Latest(VersionsOf(d, c.at)).hours
  <2>1. CASE VersionsOf(d, c.at) = {}
    <3>1. \A s \in c.digest : s[1] # d
      BY <1>5, <2>1 DEF Describes
    <3>2. Said(c.at, d) = Holiday
      BY <1>5, <3>1, SaidOfHoliday DEF Said
    <3> QED BY <2>1, <3>2
  <2>2. CASE VersionsOf(d, c.at) # {}
    <3> DEFINE h == Latest(VersionsOf(d, c.at)).hours
    <3>1. <<d, h>> \in c.digest
      BY <1>4, <1>5, <2>2 DEF Describes
    <3>2. SaidIn(c.digest, <<d, h>>[1]) = <<d, h>>[2]
      BY <1>5, <3>1, SaidOfSession
    <3> QED BY <1>5, <2>2, <3>2 DEF Said
  <2> QED BY <2>1, <2>2
<1>9. VersionsOf(d, asOf) = {} => LastRead(d, asOf) = Holiday
  BY <1>3, <1>4, <1>7, <1>8
<1>10. ASSUME VersionsOf(d, asOf) # {}
       PROVE  /\ LastRead(d, asOf) = Latest(VersionsOf(d, asOf)).hours
              /\ LastRead(d, asOf) # Holiday
  <2>1. PICK v \in VersionsOf(d, asOf) : /\ v = Latest(VersionsOf(d, asOf))
                                         /\ \A w \in VersionsOf(d, asOf) : w.at <= v.at
    BY <1>10, LatestIsNewest
  <2>2. CASE v.at > c.at
    BY <1>3, <1>6, <2>1, <2>2
  <2>3. CASE ~(v.at > c.at)
    <3>1. v \in VersionsOf(d, c.at)
      BY <1>7, <2>3
    <3>2. PICK w \in VersionsOf(d, c.at) : /\ w = Latest(VersionsOf(d, c.at))
                                           /\ \A x \in VersionsOf(d, c.at) : x.at <= w.at
      BY <1>5, <3>1, LatestIsNewest
    <3>3. w.at = v.at
      BY <1>6, <1>7, <2>1, <3>1, <3>2
    <3>4. w.hours = v.hours
      BY <1>6, <1>7, <3>3
    <3> QED BY <1>3, <1>4, <1>6, <1>8, <2>1, <3>1, <3>2, <3>4
  <2> QED BY <2>2, <2>3
<1> QED BY <1>2, <1>9, <1>10

\* evaluation/calendar_rules.py: the calendar fails closed.  If no date ever becomes again
\* what it was, whatever is revised, added, cancelled or read twice, an answer is what the
\* last complete fetch of the date said.
THEOREM CalendarAnswersAreCurrent ==
    ASSUME HoursReturn = FALSE
    PROVE  CalendarSpec => []AnswersAreCurrent
<1>1. CalendarInit => CalendarInv
  BY CalendarInitHolds
<1>2. CalendarInv /\ [CalendarNext]_calendarVars => CalendarInv'
  <2> SUFFICES ASSUME CalendarInv, [CalendarNext]_calendarVars PROVE CalendarInv'
    OBVIOUS
  <2>1. CASE UNCHANGED calendarVars
    BY <2>1 DEF CalendarInv, Clocked, ReadsAreSound, ReadsAreRemembered, CurrentStays,
                NothingReturns, VersionsWereRead, RowsWereRead, ReadsHaveRows, Reader, Said,
                calendarVars
  <2> QED BY <2>1, ChangeKeeps, SyncKeeps DEF CalendarNext
<1>3. CalendarInv => AnswersAreCurrent
  <2> SUFFICES ASSUME CalendarInv, NEW asOf \in 0..SyncClock, Consistent(asOf)
               PROVE  /\ \A d \in Dates : Status(d, asOf) # "uncovered" =>
                             Status(d, asOf) = LastRead(d, asOf)
                      /\ \A d, date \in Dates : IsNextSession(d, date, asOf) =>
                            Opened(d, asOf) /\ \A e \in (date + 1)..(d - 1) : ~Opened(e, asOf)
                      /\ \A d, d0 \in Dates, h \in 1..LastDate : IsHorizon(d, d0, h, asOf) =>
                            Cardinality({e \in (d0 + 1)..d : Opened(e, asOf)}) = h
    BY DEF AnswersAreCurrent
  <2>0. asOf \in Nat
    BY ClockCounts DEF CalendarInv
  <2>1. ASSUME NEW d \in Dates, Covering(d, asOf) # {}
        PROVE  IsSession(d, asOf) <=> Opened(d, asOf)
    BY <2>0, <2>1, CoveredIsCurrent DEF IsSession, Opened
  <2>2. ASSUME NEW d \in Dates, Status(d, asOf) # "uncovered"
        PROVE  Status(d, asOf) = LastRead(d, asOf)
    <3>1. Covering(d, asOf) # {}
      BY <2>2 DEF Status
    <3> QED BY <2>0, <3>1, CoveredIsCurrent DEF Status
  <2>3. ASSUME NEW d \in Dates, NEW date \in Dates, IsNextSession(d, date, asOf)
        PROVE  Opened(d, asOf) /\ \A e \in (date + 1)..(d - 1) : ~Opened(e, asOf)
    <3>1. Opened(d, asOf)
      BY <2>1, <2>3 DEF IsNextSession, IsSession
    <3>2. \A e \in (date + 1)..(d - 1) :
              /\ e \in Dates /\ Covering(e, asOf) # {} /\ ~IsSession(e, asOf)
      BY <2>3, CalendarAssumption DEF IsNextSession, Covered, Dates
    <3> QED BY <2>1, <3>1, <3>2
  <2>4. ASSUME NEW d \in Dates, NEW d0 \in Dates, NEW h \in 1..LastDate, IsHorizon(d, d0, h, asOf)
        PROVE  Cardinality({e \in (d0 + 1)..d : Opened(e, asOf)}) = h
    <3>1. \A e \in (d0 + 1)..d : e \in Dates /\ Covering(e, asOf) # {}
      BY <2>4, CalendarAssumption DEF IsHorizon, Covered, Dates
    <3>2. \A e \in (d0 + 1)..d : IsSession(e, asOf) <=> Opened(e, asOf)
      BY <2>1, <3>1
    <3>3. {e \in (d0 + 1)..d : IsSession(e, asOf)} = {e \in (d0 + 1)..d : Opened(e, asOf)}
      BY <3>2
    <3> QED BY <2>4, <3>3 DEF IsHorizon
  <2> QED BY <2>2, <2>3, <2>4
<1> QED BY <1>1, <1>2, <1>3, PTL DEF CalendarSpec

-----------------------------------------------------------------------------
(* TradeTape: what the rules decide is so in every world.                  *)

Unseen == [qualifying |-> FALSE, unknown |-> FALSE]
SeenAfter(before, group) ==
    [qualifying |-> before.qualifying \/ "qualifies" \in Verdicts(group, before),
     unknown |-> before.unknown \/ Verdicts(group, before) \ Decided # {}]

\* f is what the first n groups settle, before each of them and after the last.
IsSeen(f, groups, n) ==
    /\ f = [i \in 1..(n + 1) |-> f[i]]
    /\ f[1] = Unseen
    /\ \A i \in 1..n : f[i + 1] = SeenAfter(f[i], groups[i])

LEMMA SeenAfterSays ==
    ASSUME NEW before, NEW group
    PROVE  /\ SeenAfter(before, group).qualifying <=>
                before.qualifying \/ "qualifies" \in Verdicts(group, before)
           /\ SeenAfter(before, group).unknown <=>
                before.unknown \/ Verdicts(group, before) \ Decided # {}
<1> DEFINE q == before.qualifying \/ "qualifies" \in Verdicts(group, before)
           u == before.unknown \/ Verdicts(group, before) \ Decided # {}
<1>1. SeenAfter(before, group) = [qualifying |-> q, unknown |-> u]
  BY Zenon DEF SeenAfter
<1> HIDE DEF q, u
<1>2. SeenAfter(before, group).qualifying = q /\ SeenAfter(before, group).unknown = u
  BY <1>1
<1> USE DEF q, u
<1> QED BY <1>2, Zenon

LEMMA SeenExists ==
    ASSUME NEW groups, NEW n \in Nat
    PROVE  \E f : IsSeen(f, groups, n)
<1> DEFINE C == {k \in Nat : ~\E f : IsSeen(f, groups, k)}
<1> SUFFICES ASSUME C # {} PROVE FALSE
  OBVIOUS
<1>1. PICK k \in C : \A l \in C : k <= l
  BY LeastExists
<1>2. CASE k = 0
  <2>1. IsSeen([i \in 1..(0 + 1) |-> Unseen], groups, 0)
    BY DEF IsSeen
  <2> QED BY <1>1, <1>2, <2>1
<1>3. CASE k > 0
  <2>1. k - 1 \in Nat /\ k - 1 \notin C
    BY <1>1, <1>3
  <2>2. PICK f : IsSeen(f, groups, k - 1)
    BY <2>1
  <2> DEFINE g == [i \in 1..(k + 1) |-> IF i <= k THEN f[i] ELSE SeenAfter(f[k], groups[k])]
  <2>3. g[1] = Unseen /\ g = [i \in 1..(k + 1) |-> g[i]]
    BY <1>3, <2>2 DEF IsSeen
  <2>4. ASSUME NEW i \in 1..k PROVE g[i + 1] = SeenAfter(g[i], groups[i])
    <3>1. g[i] = f[i]
      OBVIOUS
    <3>2. CASE i < k
      <4>1. i \in 1..(k - 1) /\ g[i + 1] = f[i + 1]
        BY <3>2
      <4> QED BY <2>2, <3>1, <4>1 DEF IsSeen
    <3>3. CASE i = k
      BY <3>1, <3>3
    <3> QED BY <3>2, <3>3
  <2>5. IsSeen(g, groups, k)
    BY <2>3, <2>4 DEF IsSeen
  <2> QED BY <1>1, <2>5
<1> QED BY <1>1, <1>2, <1>3

LEMMA SeenIsSeen ==
    ASSUME NEW groups, Len(groups) \in Nat
    PROVE  IsSeen(Seen(groups), groups, Len(groups))
<1> DEFINE n == Len(groups)
           Eq(f) == f = [i \in 1..(Len(groups) + 1) |->
                IF i = 1 THEN [qualifying |-> FALSE, unknown |-> FALSE]
                ELSE [qualifying |-> f[i - 1].qualifying \/ "qualifies" \in Verdicts(groups[i - 1], f[i - 1]),
                      unknown |-> f[i - 1].unknown \/ Verdicts(groups[i - 1], f[i - 1]) \ Decided # {}]]
<1>1. Seen(groups) = CHOOSE f : Eq(f)
  BY DEF Seen
<1>2. PICK g : IsSeen(g, groups, n)
  BY SeenExists
<1>3. Eq(g)
  <2>1. ASSUME NEW i \in 1..(n + 1), i # 1 PROVE g[i] = SeenAfter(g[i - 1], groups[i - 1])
    <3>1. i - 1 \in 1..n /\ (i - 1) + 1 = i
      BY <2>1
    <3> QED BY <1>2, <3>1 DEF IsSeen
  <2> QED BY <1>2, <2>1 DEF IsSeen, Unseen, SeenAfter
<1>4. PICK k : k = CHOOSE f : Eq(f)
  OBVIOUS
<1>5. Eq(k)
  <2> HIDE DEF Eq
  <2> QED BY <1>3, <1>4
<1>6. IsSeen(k, groups, n)
  <2>1. k = [i \in 1..(n + 1) |-> k[i]] /\ k[1] = Unseen
    BY <1>5 DEF Unseen
  <2>2. ASSUME NEW i \in 1..n PROVE k[i + 1] = SeenAfter(k[i], groups[i])
    <3>1. i + 1 \in 1..(n + 1) /\ i + 1 # 1 /\ (i + 1) - 1 = i
      OBVIOUS
    <3> QED BY <1>5, <3>1 DEF SeenAfter
  <2> QED BY <2>1, <2>2 DEF IsSeen
<1> QED BY <1>1, <1>4, <1>6

\* Does the trade at a place set the price, when f tells it of the places before.
SetsAt(f, s, m, i) ==
    \/ m[s[i]] = "eligible"
    \/ m[s[i]] = "first_only" /\ \A j \in 1..(i - 1) : ~f[j]
IsSets(f, s, m, n) == f = [i \in 1..n |-> SetsAt(f, s, m, i)]

LEMMA SetsExist ==
    ASSUME NEW s, NEW m, NEW n \in Nat
    PROVE  \E f : IsSets(f, s, m, n)
<1> DEFINE C == {k \in Nat : ~\E f : IsSets(f, s, m, k)}
<1> SUFFICES ASSUME C # {} PROVE FALSE
  OBVIOUS
<1>1. PICK k \in C : \A l \in C : k <= l
  BY LeastExists
<1>2. CASE k = 0
  <2>1. IsSets([i \in 1..0 |-> TRUE], s, m, 0)
    BY DEF IsSets
  <2> QED BY <1>1, <1>2, <2>1
<1>3. CASE k > 0
  <2>1. k - 1 \in Nat /\ k - 1 \notin C
    BY <1>1, <1>3
  <2>2. PICK f : IsSets(f, s, m, k - 1)
    BY <2>1
  <2> DEFINE g == [i \in 1..k |-> SetsAt(f, s, m, i)]
  <2>3. \A i \in 1..(k - 1) : g[i] = f[i]
    BY <2>2 DEF IsSets
  <2>4. ASSUME NEW i \in 1..k PROVE SetsAt(f, s, m, i) = SetsAt(g, s, m, i)
    <3>1. \A j \in 1..(i - 1) : g[j] = f[j]
      BY <2>3
    <3> HIDE DEF g
    <3> QED BY <3>1 DEF SetsAt
  <2>5. IsSets(g, s, m, k)
    BY <2>4 DEF IsSets
  <2> QED BY <1>1, <2>5
<1> QED BY <1>1, <1>2, <1>3

LEMMA SetsAre ==
    ASSUME NEW s, NEW m, NEW n \in Nat, DOMAIN s = 1..n
    PROVE  /\ Sets(s, m) \subseteq 1..n
           /\ \A i \in 1..n : i \in Sets(s, m) <=>
                \/ m[s[i]] = "eligible"
                \/ m[s[i]] = "first_only" /\ \A j \in 1..(i - 1) : j \notin Sets(s, m)
<1> DEFINE Eq(f) == f = [i \in DOMAIN s |->
                \/ m[s[i]] = "eligible"
                \/ m[s[i]] = "first_only" /\ \A j \in 1..(i - 1) : ~f[j]]
<1>1. PICK k : k = CHOOSE f : Eq(f)
  OBVIOUS
<1>2. Sets(s, m) = {i \in DOMAIN s : k[i]}
  BY <1>1 DEF Sets
<1>3. PICK g : IsSets(g, s, m, n)
  BY SetsExist
<1>4. Eq(g)
  BY <1>3 DEF IsSets, SetsAt
<1>5. Eq(k)
  <2> HIDE DEF Eq
  <2> QED BY <1>1, <1>4
<1>6. \A i \in 1..n : \A j \in 1..(i - 1) : j \in 1..n
  OBVIOUS
<1>7. \A j \in 1..n : j \in Sets(s, m) <=> k[j]
  BY <1>2
<1>8. ASSUME NEW i \in 1..n
      PROVE  k[i] <=> SetsAt(k, s, m, i)
  BY <1>5 DEF SetsAt
<1>9. ASSUME NEW i \in 1..n
      PROVE  (\A j \in 1..(i - 1) : ~k[j]) <=> (\A j \in 1..(i - 1) : j \notin Sets(s, m))
  BY <1>6, <1>7
<1>10. ASSUME NEW i \in 1..n
       PROVE  i \in Sets(s, m) <=>
                \/ m[s[i]] = "eligible"
                \/ m[s[i]] = "first_only" /\ \A j \in 1..(i - 1) : j \notin Sets(s, m)
  BY <1>7, <1>8, <1>9 DEF SetsAt
<1> QED BY <1>2, <1>10

\* The tape of a behaviour: numbered instants with finitely many trades each.
TapeIsFinite ==
    /\ Len(tape) \in Nat /\ DOMAIN tape = 1..Len(tape)
    /\ IsFiniteSet(Printed) /\ \A i \in DOMAIN tape : IsFiniteSet(tape[i])

\* A world: an order of the printed trades, and a meaning for each.
IsWorld(s, m) == s \in Orders /\ m \in Worlds(s)

Places == 1..Cardinality(Printed)

\* An order has a place for every trade of the tape, and instants do not go back.
LEMMA OrderIsWhole ==
    ASSUME TapeIsFinite, NEW s \in Orders
    PROVE  /\ Cardinality(Printed) \in Nat /\ DOMAIN s = Places
           /\ \A i \in Places : /\ s[i] \in Printed
                                /\ s[i] = <<s[i][1], s[i][2]>>
                                /\ s[i][1] \in 1..Len(tape) /\ s[i][2] \in tape[s[i][1]]
           /\ \A i, j \in Places : i < j => s[i] # s[j] /\ s[i][1] <= s[j][1]
           /\ \A i \in 1..Len(tape) : \A t \in tape[i] : \E j \in Places : s[j] = <<i, t>>
<1>1. Cardinality(Printed) \in Nat
  BY FS_CardinalityType DEF TapeIsFinite
<1>2. s \in [Places -> Printed]
  BY DEF Orders, Places
<1>3. /\ \A i, j \in Places : i # j => s[i] # s[j]
      /\ \A i, j \in Places : i < j => s[i][1] <= s[j][1]
  BY <1>2 DEF Orders
<1>4. \A x \in Printed : x = <<x[1], x[2]>> /\ x[1] \in 1..Len(tape) /\ x[2] \in tape[x[1]]
  BY DEF Printed, TapeIsFinite
<1>5. ASSUME NEW i \in 1..Len(tape), NEW t \in tape[i], ~\E j \in Places : s[j] = <<i, t>>
      PROVE  FALSE
  <2>1. <<i, t>> \in Printed
    BY DEF Printed, TapeIsFinite
  <2>2. /\ IsFiniteSet(Printed \ {<<i, t>>})
        /\ Cardinality(Printed \ {<<i, t>>}) = Cardinality(Printed) - 1
    BY <2>1, FS_RemoveElement DEF TapeIsFinite
  <2>3. IsFiniteSet(Places) /\ Cardinality(Places) = Cardinality(Printed)
    <3>1. PICK c \in Nat : c = Cardinality(Printed)
      BY <1>1
    <3>2. IsFiniteSet(1..c) /\ Cardinality(1..c) = IF 1 > c THEN 0 ELSE c - 1 + 1
      <4>1. 1 \in Int /\ c \in Int
        OBVIOUS
      <4> QED BY <4>1, FS_Interval, Zenon
    <3>3. Places = 1..c
      BY <3>1 DEF Places
    <3>4. (IF 1 > c THEN 0 ELSE c - 1 + 1) = c
      OBVIOUS
    <3>5. IsFiniteSet(Places) /\ Cardinality(Places) = c
      BY <3>2, <3>3, <3>4, Zenon
    <3> QED BY <3>1, <3>5
  <2>4. s \in [Places -> Printed \ {<<i, t>>}]
    <3>1. \A j \in Places : s[j] \in Printed \ {<<i, t>>}
      BY <1>2, <1>5
    <3> QED BY <1>2, <3>1
  <2>5. Cardinality(Printed \ {<<i, t>>}) < Cardinality(Places)
    BY <1>1, <2>2, <2>3
  <2>6. \E j, l \in Places : j # l /\ s[j] = s[l]
    BY <2>2, <2>3, <2>4, <2>5, FS_PigeonHole
  <2> QED BY <1>3, <2>6
<1>6. \A i, j \in Places : i < j => s[i] # s[j] /\ s[i][1] <= s[j][1]
  BY <1>1, <1>3 DEF Places
<1>7. \A i \in Places : s[i] \in Printed
  BY <1>2
<1>8. DOMAIN s = Places
  BY <1>2
<1> QED BY <1>1, <1>4, <1>5, <1>6, <1>7, <1>8

\* The groups read so far are the first instants of the tape.
Begins(groups) ==
    Len(groups) \in Nat /\ Len(groups) <= Len(tape)
    /\ \A i \in 1..Len(groups) : groups[i] = tape[i]

\* The trades before an instant that set the price, in a world.
Early(s, m, i) == {j \in Sets(s, m) : s[j][1] < i}
\* What is said of the trades before an instant is so in a world.
Honest(before, s, m, i) ==
    /\ before.qualifying => Early(s, m, i) # {}
    /\ ~before.qualifying /\ ~before.unknown => Early(s, m, i) = {}

LEMMA EvaluateSays ==
    \A codes : Evaluate(codes) \in {"ineligible", "unvalidated", "unknown_condition", "note3",
                                    "first_only", "eligible"}
BY DEF Evaluate

LEMMA MeaningOf ==
    ASSUME NEW s, NEW m, IsWorld(s, m), NEW x \in Printed
    PROVE  /\ Evaluate(x[2].codes) \in {"eligible", "ineligible", "first_only"} =>
                  m[x] = Evaluate(x[2].codes)
           /\ Evaluate(x[2].codes) = "note3" => m[x] \in {"first_only", "eligible"}
<1>1. m[x] \in Meanings(x[2])
  BY DEF IsWorld, Worlds
<1> QED BY <1>1 DEF Meanings, Unknown

\* The places of a world that set the price.
LEMMA WorldSets ==
    ASSUME TapeIsFinite, NEW s, NEW m, IsWorld(s, m)
    PROVE  /\ Sets(s, m) \subseteq Places
           /\ \A i \in Places :
                /\ m[s[i]] = "eligible" => i \in Sets(s, m)
                /\ m[s[i]] = "ineligible" => i \notin Sets(s, m)
                /\ m[s[i]] = "first_only" =>
                      (i \in Sets(s, m) <=> \A j \in 1..(i - 1) : j \notin Sets(s, m))
<1>1. DOMAIN s = 1..Cardinality(Printed) /\ Cardinality(Printed) \in Nat
  BY OrderIsWhole DEF IsWorld, Places
<1>2. PICK n \in Nat : n = Cardinality(Printed)
  BY <1>1
<1>3. /\ Sets(s, m) \subseteq 1..n
      /\ \A i \in 1..n : i \in Sets(s, m) <=>
                \/ m[s[i]] = "eligible"
                \/ m[s[i]] = "first_only" /\ \A j \in 1..(i - 1) : j \notin Sets(s, m)
  BY <1>1, <1>2, SetsAre
<1> QED BY <1>2, <1>3 DEF Places

LEMMA GroupIsJudged ==
    ASSUME TapeIsFinite, NEW s, NEW m, IsWorld(s, m), NEW i \in 1..Len(tape),
           NEW before, Honest(before, s, m, i), NEW j \in Places, s[j][1] = i
    PROVE  /\ Verdict(s[j][2], tape[i], before) = "qualifies" => j \in Sets(s, m)
           /\ Verdict(s[j][2], tape[i], before) = "not" => j \notin Sets(s, m)
<1> DEFINE trade == s[j][2]
           base == Evaluate(trade.codes)
<1>1. s \in Orders
  BY DEF IsWorld
<1>2. /\ s[j] \in Printed /\ s[j] = <<i, trade>> /\ trade \in tape[i]
      /\ \A l \in Places : s[l] \in Printed /\ s[l] = <<s[l][1], s[l][2]>>
                           /\ s[l][1] \in 1..Len(tape) /\ s[l][2] \in tape[s[l][1]]
      /\ \A k, l \in Places : k < l => s[k] # s[l] /\ s[k][1] <= s[l][1]
      /\ Cardinality(Printed) \in Nat
  BY <1>1, OrderIsWhole
<1>3. /\ base \in {"eligible", "ineligible", "first_only"} => m[s[j]] = base
      /\ base = "note3" => m[s[j]] \in {"first_only", "eligible"}
  BY <1>2, MeaningOf
<1>4. CASE base = "eligible"
  <2>1. Verdict(trade, tape[i], before) = "qualifies"
    BY <1>4 DEF Verdict
  <2> QED BY <1>3, <1>4, <2>1, WorldSets
<1>5. CASE base = "ineligible"
  <2>1. Verdict(trade, tape[i], before) = "not"
    BY <1>5 DEF Verdict
  <2> QED BY <1>3, <1>5, <2>1, WorldSets
<1>6. CASE base \in Unknown
  <2>1. Verdict(trade, tape[i], before) = base
    BY <1>6 DEF Verdict, Unknown
  <2> QED BY <1>6, <2>1 DEF Unknown
<1>7. CASE base \in {"note3", "first_only"} /\ before.qualifying
  <2>1. PICK l \in Sets(s, m) : s[l][1] < i
    BY <1>7 DEF Honest, Early
  <2>2. l \in Places /\ l < j
    <3>1. l \in Places
      BY <2>1, WorldSets
    <3>2. l # j
      BY <2>1
    <3>3. ~(j < l)
      BY <1>2, <2>1, <3>1
    <3> QED BY <3>1, <3>2, <3>3 DEF Places
  <2>3. base = "first_only" => j \notin Sets(s, m)
    <3>1. l \in 1..(j - 1)
      BY <2>2 DEF Places
    <3> QED BY <1>3, <2>1, <3>1, WorldSets
  <2>4. Verdict(trade, tape[i], before) = IF base = "note3" THEN "unknown_condition" ELSE "not"
    BY <1>7 DEF Verdict, Unknown
  <2> QED BY <1>7, <2>3, <2>4
<1>8. CASE base \in {"note3", "first_only"} /\ ~before.qualifying
  <2>1. Verdict(trade, tape[i], before) =
            IF Tied(trade, tape[i]) THEN "ambiguous_order"
            ELSE IF before.unknown THEN "unknown_condition" ELSE "qualifies"
    BY <1>8 DEF Verdict, Unknown
  <2>2. ASSUME ~Tied(trade, tape[i]), ~before.unknown PROVE j \in Sets(s, m)
    <3>1. ASSUME NEW l \in 1..(j - 1), l \in Sets(s, m) PROVE FALSE
      <4>1. l \in Places /\ l < j
        BY <1>2 DEF Places
      <4>2. s[l][1] <= i /\ s[l] # s[j]
        BY <1>2, <4>1
      <4>3. s[l][1] \notin {k \in 1..Len(tape) : k < i}
        BY <1>8, <2>2, <3>1 DEF Honest, Early
      <4>4. s[l][1] = i
        BY <1>2, <4>1, <4>2, <4>3
      <4>5. s[l][2] \in tape[i] \ {trade}
        BY <1>2, <4>1, <4>2, <4>4
      <4>6. Evaluate(s[l][2].codes) = "ineligible"
        BY <2>2, <4>5 DEF Tied
      <4>7. m[s[l]] = "ineligible"
        BY <1>2, <4>1, <4>6, MeaningOf
      <4> QED BY <3>1, <4>1, <4>7, WorldSets
    <3>2. m[s[j]] \in {"first_only", "eligible"}
      BY <1>3, <1>8
    <3> QED BY <3>1, <3>2, WorldSets
  <2> QED BY <2>1, <2>2
<1>9. base \in {"eligible", "ineligible", "note3", "first_only"} \cup Unknown
  BY EvaluateSays DEF Unknown
<1> QED BY <1>4, <1>5, <1>6, <1>7, <1>8, <1>9

\* What is said of the trades before any instant that was read is so in every world.
LEMMA SeenIsHonest ==
    ASSUME TapeIsFinite, NEW s, NEW m, IsWorld(s, m), NEW groups, Begins(groups)
    PROVE  \A i \in 1..(Len(groups) + 1) : Honest(Seen(groups)[i], s, m, i)
<1> DEFINE n == Len(groups)
           C == {i \in 1..(n + 1) : ~Honest(Seen(groups)[i], s, m, i)}
<1> SUFFICES ASSUME C # {} PROVE FALSE
  OBVIOUS
<1>0. n \in Nat /\ n <= Len(tape) /\ Len(tape) \in Nat /\ \A i \in 1..n : groups[i] = tape[i]
  BY DEF Begins, TapeIsFinite
<1>1. IsSeen(Seen(groups), groups, n)
  BY <1>0, SeenIsSeen
<1>2. PICK i \in C : \A k \in C : i <= k
  <2>1. C \in SUBSET Nat
    BY <1>0
  <2> QED BY <2>1, LeastExists
<1>3. s \in Orders
  BY DEF IsWorld
<1>4. CASE i = 1
  <2>1. Seen(groups)[1] = Unseen
    BY <1>1 DEF IsSeen
  <2>2. Early(s, m, 1) = {}
    BY <1>3, OrderIsWhole, WorldSets DEF Early
  <2> QED BY <1>2, <1>4, <2>1, <2>2 DEF Honest, Unseen
<1>5. CASE i > 1
  <2>1. PICK h \in 1..n : i = h + 1
    <3>1. i \in 1..(n + 1) /\ i - 1 \in 1..n /\ i = (i - 1) + 1
      BY <1>0, <1>2, <1>5
    <3> QED BY <3>1
  <2>2. h \in 1..(n + 1) /\ h \notin C /\ h \in 1..Len(tape)
    BY <1>0, <1>2, <2>1
  <2>3. PICK before : before = Seen(groups)[h]
    OBVIOUS
  <2>4. Honest(before, s, m, h)
    BY <2>2, <2>3
  <2>5. Seen(groups)[i] = SeenAfter(before, tape[h])
    BY <1>0, <1>1, <2>1, <2>3 DEF IsSeen
  <2>6. \A j \in Sets(s, m) : s[j][1] \in Nat
    BY <1>3, OrderIsWhole, WorldSets
  <2>7. Early(s, m, i) = Early(s, m, h) \cup {j \in Sets(s, m) : s[j][1] = h}
    BY <2>1, <2>6 DEF Early
  <2>8. ASSUME Seen(groups)[i].qualifying PROVE Early(s, m, i) # {}
    <3>1. CASE before.qualifying
      BY <2>4, <2>7, <3>1 DEF Honest
    <3>2. CASE "qualifies" \in Verdicts(tape[h], before)
      <4>1. PICK t \in tape[h] : Verdict(t, tape[h], before) = "qualifies"
        BY <3>2 DEF Verdicts
      <4>2. PICK j \in Places : s[j] = <<h, t>>
        BY <1>3, <2>2, OrderIsWhole
      <4>3. s[j][1] = h /\ s[j][2] = t
        BY <4>2
      <4>4. j \in Sets(s, m)
        BY <2>2, <2>4, <4>1, <4>3, GroupIsJudged
      <4> QED BY <2>7, <4>3, <4>4
    <3>3. before.qualifying \/ "qualifies" \in Verdicts(tape[h], before)
      BY <2>5, <2>8, SeenAfterSays, Zenon
    <3> QED BY <3>1, <3>2, <3>3
  <2>9. ASSUME ~Seen(groups)[i].qualifying, ~Seen(groups)[i].unknown PROVE Early(s, m, i) = {}
    <3>1. /\ ~before.qualifying /\ ~before.unknown
          /\ "qualifies" \notin Verdicts(tape[h], before) /\ Verdicts(tape[h], before) \ Decided = {}
      BY <2>5, <2>9, SeenAfterSays, Zenon
    <3>2. Early(s, m, h) = {}
      BY <2>4, <3>1 DEF Honest
    <3>3. ASSUME NEW j \in Sets(s, m), s[j][1] = h PROVE FALSE
      <4>1. j \in Places /\ s[j][2] \in tape[h]
        BY <1>3, <3>3, OrderIsWhole, WorldSets
      <4>2. Verdict(s[j][2], tape[h], before) = "not"
        BY <3>1, <4>1 DEF Verdicts, Decided
      <4> QED BY <2>2, <2>4, <3>3, <4>1, <4>2, GroupIsJudged
    <3> QED BY <2>7, <3>2, <3>3
  <2> QED BY <1>2, <2>8, <2>9 DEF Honest
<1> QED BY <1>0, <1>2, <1>4, <1>5

\* Two members make a finite set larger than one.
LEMMA OneMember ==
    ASSUME NEW S, IsFiniteSet(S), ~(Cardinality(S) > 1), NEW x \in S, NEW y \in S
    PROVE  x = y
<1> SUFFICES ASSUME x # y PROVE FALSE
  OBVIOUS
<1>1. IsFiniteSet(S \ {x}) /\ Cardinality(S \ {x}) = Cardinality(S) - 1
  BY FS_RemoveElement
<1>2. y \in S \ {x}
  OBVIOUS
<1>3. Cardinality(S \ {x}) \in Nat /\ Cardinality(S \ {x}) # 0
  BY <1>1, <1>2, FS_CardinalityType, FS_EmptySet
<1> QED BY <1>1, <1>3, FS_CardinalityType

\* A group whose price is resolved: every trade is decided, and those that qualify agree.
LEMMA ResolvedGroup ==
    ASSUME NEW group, IsFiniteSet(group), NEW before, Decisive(group, before),
           DecideGroup(group, before).state = "resolved"
    PROVE  /\ \A t \in group : Verdict(t, group, before) \in Decided
           /\ \E t \in group : Verdict(t, group, before) = "qualifies"
           /\ \A t \in group : Verdict(t, group, before) = "qualifies" =>
                  t.price = DecideGroup(group, before).price
<1> DEFINE reasons == Verdicts(group, before) \ Decided
           qualifying == Qualifying(group, before)
           prices == {t.price : t \in qualifying}
<1>1. PICK result : result = DecideGroup(group, before)
  OBVIOUS
<1>2. result = IF reasons # {} THEN NoPrice(CHOOSE r \in reasons : TRUE)
               ELSE IF Cardinality(prices) > 1 THEN NoPrice("ambiguous_order")
               ELSE Resolved(CHOOSE p \in prices : TRUE)
  BY <1>1 DEF DecideGroup
<1>3. \A r : NoPrice(r).state # "resolved"
  BY DEF NoPrice
<1>4. reasons = {} /\ ~(Cardinality(prices) > 1) /\ result = Resolved(CHOOSE p \in prices : TRUE)
  BY <1>1, <1>2, <1>3
<1>5. result.price = CHOOSE p \in prices : TRUE
  BY <1>4 DEF Resolved
<1>6. \A t \in group : Verdict(t, group, before) \in Decided
  BY <1>4 DEF Verdicts
<1>7. PICK t \in group : Verdict(t, group, before) = "qualifies"
  BY <1>6 DEF Decisive, Verdicts, Decided
<1>8. IsFiniteSet(qualifying)
  BY FS_Subset DEF Qualifying
<1>9. IsFiniteSet(prices)
  <2> DEFINE f == [x \in qualifying |-> x.price]
  <2>1. f \in Surjection(qualifying, prices)
    BY DEF Surjection
  <2> QED BY <1>8, <2>1, FS_Surjection
<1>10. t.price \in prices
  BY <1>7 DEF Qualifying
<1>11. result.price \in prices
  BY <1>5, <1>10
<1>12. ASSUME NEW x \in group, Verdict(x, group, before) = "qualifies" PROVE x.price = result.price
  <2>1. x.price \in prices
    BY <1>12 DEF Qualifying
  <2> QED BY <1>4, <1>9, <1>11, <2>1, OneMember
<1> QED BY <1>1, <1>6, <1>7, <1>12

\* What an instant that was read says is so in every world.
LEMMA InstantIsJudged ==
    ASSUME TapeIsFinite, NEW s, NEW m, IsWorld(s, m), NEW groups, Begins(groups),
           NEW i \in 1..Len(groups)
    PROVE  /\ i \in 1..Len(tape) /\ groups[i] = tape[i] /\ IsFiniteSet(groups[i])
           /\ \A j \in Places : s[j][1] = i =>
                /\ s[j][2] \in groups[i]
                /\ Verdict(s[j][2], groups[i], Seen(groups)[i]) = "qualifies" => j \in Sets(s, m)
                /\ Verdict(s[j][2], groups[i], Seen(groups)[i]) = "not" => j \notin Sets(s, m)
<1>1. /\ i \in 1..Len(tape) /\ groups[i] = tape[i] /\ i \in 1..(Len(groups) + 1)
      /\ IsFiniteSet(tape[i])
  BY DEF Begins, TapeIsFinite
<1>2. PICK before : before = Seen(groups)[i]
  OBVIOUS
<1>3. Honest(before, s, m, i)
  BY <1>1, <1>2, SeenIsHonest
<1>4. s \in Orders
  BY DEF IsWorld
<1>5. ASSUME NEW j \in Places, s[j][1] = i
      PROVE  /\ s[j][2] \in tape[i]
             /\ Verdict(s[j][2], tape[i], before) = "qualifies" => j \in Sets(s, m)
             /\ Verdict(s[j][2], tape[i], before) = "not" => j \notin Sets(s, m)
  BY <1>1, <1>3, <1>4, <1>5, GroupIsJudged, OrderIsWhole
<1> QED BY <1>1, <1>2, <1>5

\* No trade of an instant that decides nothing sets the price.
LEMMA NothingDecided ==
    ASSUME TapeIsFinite, NEW s, NEW m, IsWorld(s, m), NEW groups, Begins(groups),
           NEW i \in 1..Len(groups), ~Decisive(groups[i], Seen(groups)[i])
    PROVE  \A j \in Sets(s, m) : s[j][1] # i
<1> SUFFICES ASSUME NEW j \in Sets(s, m), s[j][1] = i PROVE FALSE
  OBVIOUS
<1>1. j \in Places
  BY WorldSets
<1>2. s[j][2] \in groups[i]
  BY <1>1, InstantIsJudged
<1>3. Verdict(s[j][2], groups[i], Seen(groups)[i]) = "not"
  BY <1>2 DEF Decisive, Verdicts
<1> QED BY <1>1, <1>3, InstantIsJudged

\* The trades of a resolved instant that set the price have its price, and there is one.
LEMMA ResolvedInstant ==
    ASSUME TapeIsFinite, NEW s, NEW m, IsWorld(s, m), NEW groups, Begins(groups),
           NEW i \in 1..Len(groups), Decisive(groups[i], Seen(groups)[i]),
           DecideGroup(groups[i], Seen(groups)[i]).state = "resolved"
    PROVE  /\ \E j \in Sets(s, m) : s[j][1] = i
           /\ \A j \in Sets(s, m) : s[j][1] = i =>
                 s[j][2].price = DecideGroup(groups[i], Seen(groups)[i]).price
<1>1. PICK before : before = Seen(groups)[i]
  OBVIOUS
<1>2. IsFiniteSet(groups[i])
  BY InstantIsJudged
<1>3. /\ \A t \in groups[i] : Verdict(t, groups[i], before) \in Decided
      /\ \E t \in groups[i] : Verdict(t, groups[i], before) = "qualifies"
      /\ \A t \in groups[i] : Verdict(t, groups[i], before) = "qualifies" =>
              t.price = DecideGroup(groups[i], before).price
  BY <1>1, <1>2, ResolvedGroup
<1>4. \E j \in Sets(s, m) : s[j][1] = i
  <2>1. PICK t \in groups[i] : Verdict(t, groups[i], before) = "qualifies"
    BY <1>3
  <2>2. PICK j \in Places : s[j] = <<i, t>>
    <3>1. i \in 1..Len(tape) /\ t \in tape[i] /\ s \in Orders
      BY InstantIsJudged DEF IsWorld
    <3> QED BY <3>1, OrderIsWhole
  <2>3. s[j][1] = i /\ s[j][2] = t
    BY <2>2
  <2>4. j \in Sets(s, m)
    BY <1>1, <2>1, <2>3, InstantIsJudged
  <2> QED BY <2>3, <2>4
<1>5. ASSUME NEW j \in Sets(s, m), s[j][1] = i
      PROVE  s[j][2].price = DecideGroup(groups[i], before).price
  <2>1. j \in Places
    BY WorldSets
  <2>2. s[j][2] \in groups[i] /\ Verdict(s[j][2], groups[i], before) # "not"
    BY <1>1, <1>5, <2>1, InstantIsJudged
  <2>3. Verdict(s[j][2], groups[i], before) = "qualifies"
    BY <1>3, <2>2 DEF Decided
  <2> QED BY <1>3, <2>2, <2>3
<1> QED BY <1>1, <1>4, <1>5

\* A resolved halt mark is the first price at or after the halt, in every world.
LEMMA HaltIsFirst ==
    ASSUME TapeIsFinite, trigger \in Nat \ {0}, NEW s, NEW m, IsWorld(s, m),
           NEW groups, Begins(groups), DOMAIN groups = 1..Len(groups),
           NEW row, row = ReconstructHalt(groups, trigger), row.state = "resolved"
    PROVE  FirstIs(row.price, s, m)
<1> DEFINE D == DecisiveInstants(groups)
           after == {i \in D : i >= trigger}
<1>1. after # {}
  <2>1. after = {} => row.state # "resolved"
    BY DEF ReconstructHalt, NoPrice
  <2> QED BY <2>1
<1>2. after \in SUBSET Nat /\ \A i \in after : i \in 1..Len(groups)
                                            /\ Decisive(groups[i], Seen(groups)[i])
  BY DEF DecisiveInstants, Begins
<1>3. PICK i : i = CHOOSE k \in after : \A l \in after : k <= l
  OBVIOUS
<1>4. i \in after /\ \A l \in after : i <= l
  BY <1>1, <1>2, <1>3, LeastExists
<1>5. row = DecideGroup(groups[i], Seen(groups)[i])
  BY <1>1, <1>3 DEF ReconstructHalt
<1>6. /\ \E j \in Sets(s, m) : s[j][1] = i
      /\ \A j \in Sets(s, m) : s[j][1] = i => s[j][2].price = row.price
  BY <1>2, <1>4, <1>5, ResolvedInstant
<1>7. /\ Sets(s, m) \subseteq Places
      /\ \A j \in Places : s[j][1] \in Nat
      /\ \A j, l \in Places : j < l => s[j][1] <= s[l][1]
      /\ Places \subseteq Nat
  BY OrderIsWhole, WorldSets DEF IsWorld, Places, TapeIsFinite
<1>8. ASSUME NEW j \in Sets(s, m), s[j][1] >= trigger,
             \A l \in {k \in Sets(s, m) : s[k][1] >= trigger} : j <= l
      PROVE  s[j][2].price = row.price
  <2>1. PICK l \in Sets(s, m) : s[l][1] = i
    BY <1>6
  <2>2. j <= l /\ i \in Nat /\ i >= trigger
    BY <1>2, <1>4, <1>8, <2>1
  <2>5. l \in Places /\ j \in Places /\ j \in Nat /\ l \in Nat
    BY <1>7, <2>1
  <2>3. s[j][1] <= i
    <3>1. l = j \/ j < l
      BY <2>2, <2>5
    <3> QED BY <1>7, <2>1, <2>2, <2>5, <3>1
  <2>4. ~(s[j][1] < i)
    <3>1. SUFFICES ASSUME s[j][1] < i PROVE FALSE
      OBVIOUS
    <3>4. i \in 1..Len(groups) /\ s[j][1] \in Nat /\ Len(groups) \in Nat
      BY <1>2, <1>4, <1>7, <2>5 DEF Begins
    <3>2. s[j][1] \in 1..Len(groups) /\ s[j][1] \notin after
      <4>1. s[j][1] \in 1..Len(groups)
        BY <1>8, <3>1, <3>4
      <4>2. ~(i <= s[j][1])
        BY <3>1, <3>4
      <4> QED BY <1>4, <4>1, <4>2
    <3>3. ~Decisive(groups[s[j][1]], Seen(groups)[s[j][1]])
      BY <1>8, <3>2 DEF DecisiveInstants
    <3> QED BY <3>2, <3>3, NothingDecided
  <2>6. s[j][1] = i
    BY <1>7, <2>2, <2>3, <2>4, <2>5
  <2> QED BY <1>6, <2>6
<1>9. PICK j \in Sets(s, m) : s[j][1] = i /\ i >= trigger
  BY <1>4, <1>6
<1> QED BY <1>8, <1>9 DEF FirstIs

\* A resolved reference is the last price of a tape that was read whole, in every world.
LEMMA EntryIsLast ==
    ASSUME TapeIsFinite, NEW s, NEW m, IsWorld(s, m),
           NEW groups, Begins(groups), DOMAIN groups = 1..Len(groups),
           \A x \in Printed : x[1] <= Len(groups),
           NEW row, row = ResolveBacktest(groups), row.state = "resolved"
    PROVE  LastIs(row.price, s, m)
<1> DEFINE D == DecisiveInstants(groups)
<1>1. D # {}
  <2>1. D = {} => row.state # "resolved"
    BY DEF ResolveBacktest, NoPrice
  <2> QED BY <2>1
<1>2. /\ D \in SUBSET (0..Len(groups)) /\ Len(groups) \in Nat
      /\ \A i \in D : i \in 1..Len(groups) /\ Decisive(groups[i], Seen(groups)[i])
  BY DEF DecisiveInstants, Begins
<1>3. PICK i : i = CHOOSE k \in D : \A l \in D : l <= k
  OBVIOUS
<1>4. i \in D /\ \A l \in D : l <= i
  BY <1>1, <1>2, <1>3, GreatestExists
<1>5. row = DecideGroup(groups[i], Seen(groups)[i])
  BY <1>1, <1>3 DEF ResolveBacktest
<1>6. /\ \E j \in Sets(s, m) : s[j][1] = i
      /\ \A j \in Sets(s, m) : s[j][1] = i => s[j][2].price = row.price
  BY <1>2, <1>4, <1>5, ResolvedInstant
<1>7. /\ Sets(s, m) \subseteq Places
      /\ \A j \in Places : s[j] \in Printed /\ s[j][1] \in 1..Len(tape)
      /\ \A j, l \in Places : j < l => s[j][1] <= s[l][1]
      /\ Places \subseteq Nat
  BY OrderIsWhole, WorldSets DEF IsWorld, Places
<1>8. ASSUME NEW j \in Sets(s, m), \A l \in Sets(s, m) : l <= j
      PROVE  s[j][2].price = row.price
  <2>1. PICK l \in Sets(s, m) : s[l][1] = i
    BY <1>6
  <2>2. i <= s[j][1]
    <3>1. l <= j /\ l \in Places /\ j \in Places /\ i \in Nat /\ l \in Nat /\ j \in Nat
      <4>1. l <= j
        BY <1>8
      <4>2. i \in Nat
        BY <1>2, <1>4
      <4>3. l \in Places /\ j \in Places
        BY <1>7
      <4> QED BY <1>7, <4>1, <4>2, <4>3
    <3>2. l = j \/ l < j
      BY <3>1
    <3> QED BY <1>7, <2>1, <3>1, <3>2
  <2>3. s[j][1] \in 1..Len(groups)
    <3>1. s[j] \in Printed /\ s[j][1] \in 1..Len(tape) /\ Len(tape) \in Nat
      BY <1>7, <1>8 DEF TapeIsFinite
    <3> QED BY <1>2, <3>1
  <2>4. ~(i < s[j][1])
    <3>1. SUFFICES ASSUME i < s[j][1] PROVE FALSE
      OBVIOUS
    <3>2. s[j][1] \notin D
      <4>1. ~(s[j][1] <= i) /\ s[j][1] \in Nat
        BY <1>2, <1>4, <2>3, <3>1
      <4> QED BY <1>4, <4>1
    <3>3. ~Decisive(groups[s[j][1]], Seen(groups)[s[j][1]])
      BY <2>3, <3>2 DEF DecisiveInstants
    <3> QED BY <2>3, <3>3, NothingDecided
  <2> QED BY <1>2, <1>4, <1>6, <2>2, <2>3, <2>4
<1> QED BY <1>6, <1>8 DEF LastIs

\* What the tape of an instant may hold.
TapeTrades == [id : 1..MaxTrades, codes : Conditions, price : Prices]
\* What was stored was read from instants that were over, and no trade comes after the close.
TapeInv ==
    /\ tape \in Seq(SUBSET TapeTrades) /\ Len(tape) > 0 /\ Len(tape) <= Instants + 1
    /\ trigger \in Nat \ {0}
    /\ IsFiniteSet(Printed) /\ \A i \in DOMAIN tape : IsFiniteSet(tape[i])
    /\ Closed => tape[Len(tape)] = {}
    /\ mark.state = "resolved" =>
          \E k \in 0..(Len(tape) - 1) : mark = ReconstructHalt(SubSeq(tape, 1, k), trigger)
    /\ entry.state = "resolved" => Closed /\ entry = ResolveBacktest(Readable)

LEMMA TapeBegins ==
    ASSUME TapeInv, NEW k \in 0..(Len(tape) - 1)
    PROVE  /\ TapeIsFinite /\ Begins(SubSeq(tape, 1, k)) /\ Len(SubSeq(tape, 1, k)) = k
           /\ DOMAIN SubSeq(tape, 1, k) = 1..k
<1>1. tape \in Seq(SUBSET TapeTrades) /\ Len(tape) \in Nat /\ DOMAIN tape = 1..Len(tape)
  BY DEF TapeInv
<1>2. SubSeq(tape, 1, k) = [i \in 1..k |-> tape[i]] /\ SubSeq(tape, 1, k) \in Seq(SUBSET TapeTrades)
  BY <1>1
<1>3. Len(SubSeq(tape, 1, k)) = k
  BY <1>1, <1>2
<1> QED BY <1>1, <1>2, <1>3 DEF TapeInv, TapeIsFinite, Begins

LEMMA TapeStarts == TapeInit => TapeInv
<1> SUFFICES ASSUME TapeInit PROVE TapeInv
  OBVIOUS
<1>1. tape = <<{}>> /\ Len(tape) = 1 /\ DOMAIN tape = {1} /\ tape[1] = {}
  BY DEF TapeInit
<1>2. tape \in Seq(SUBSET TapeTrades)
  BY <1>1
<1>3. Printed = {}
  BY <1>1 DEF Printed
<1>4. IsFiniteSet(Printed) /\ \A i \in DOMAIN tape : IsFiniteSet(tape[i])
  BY <1>1, <1>3, FS_EmptySet
<1>5. Instants \in Nat /\ trigger \in Nat \ {0}
  BY TapeAssumption DEF TapeInit
<1>6. mark.state # "resolved" /\ entry.state # "resolved"
  BY DEF TapeInit, NoMark
<1> QED BY <1>1, <1>2, <1>4, <1>5, <1>6 DEF TapeInv

\* What was read stays as it was read.
LEMMA ReadStays ==
    ASSUME TapeInv, tape' \in Seq(SUBSET TapeTrades), Len(tape') >= Len(tape),
           \A i \in 1..(Len(tape) - 1) : tape'[i] = tape[i], UNCHANGED <<trigger, mark>>,
           mark.state = "resolved"
    PROVE  \E k \in 0..(Len(tape') - 1) : mark' = ReconstructHalt(SubSeq(tape', 1, k), trigger')
<1>1. PICK k \in 0..(Len(tape) - 1) : mark = ReconstructHalt(SubSeq(tape, 1, k), trigger)
  BY DEF TapeInv
<1>2. tape \in Seq(SUBSET TapeTrades) /\ Len(tape) \in Nat /\ Len(tape') \in Nat
  BY DEF TapeInv
<1>3. SubSeq(tape, 1, k) = SubSeq(tape', 1, k)
  BY <1>2
<1>4. ReconstructHalt(SubSeq(tape, 1, k), trigger) = ReconstructHalt(SubSeq(tape', 1, k), trigger)
  BY <1>3, Zenon
<1> QED BY <1>1, <1>2, <1>4

LEMMA TradeKeeps ==
    ASSUME TapeInv, NEW codes \in Conditions, NEW price \in Prices, Trade(codes, price)
    PROVE  TapeInv'
<1>1. PICK id \in 1..MaxTrades :
          tape' = [tape EXCEPT ![Len(tape)] =
                      @ \cup {[id |-> id, codes |-> codes, price |-> price]}]
  BY DEF Trade
<1>2. PICK new \in TapeTrades : new = [id |-> id, codes |-> codes, price |-> price]
  BY DEF TapeTrades
<1>3. PICK n \in Nat : n = Len(tape) /\ n > 0 /\ n <= Instants
  BY TapeAssumption DEF TapeInv, Trade, Closed
<1>4. tape \in Seq(SUBSET TapeTrades) /\ DOMAIN tape = 1..n /\ tape[n] \in SUBSET TapeTrades
  BY <1>3 DEF TapeInv
<1>5. tape' = [tape EXCEPT ![n] = tape[n] \cup {new}]
  BY <1>1, <1>2, <1>3
<1>6. tape' \in Seq(SUBSET TapeTrades) /\ Len(tape') = n /\ DOMAIN tape' = 1..n
  BY <1>3, <1>4, <1>5
<1>7. tape'[n] = tape[n] \cup {new} /\ \A i \in 1..n : i # n => tape'[i] = tape[i]
  BY <1>3, <1>4, <1>5
<1>8. Printed' = Printed \cup {<<n, new>>}
  BY <1>3, <1>4, <1>6, <1>7 DEF Printed
<1>9. IsFiniteSet(Printed') /\ IsFiniteSet(tape'[n])
  <2>1. IsFiniteSet(Printed) /\ IsFiniteSet(tape[n])
    BY <1>3, <1>4 DEF TapeInv
  <2>2. IsFiniteSet(Printed \cup {<<n, new>>}) /\ IsFiniteSet(tape[n] \cup {new})
    BY <2>1, FS_AddElement
  <2> QED BY <1>7, <1>8, <2>2
<1>10. \A i \in DOMAIN tape' : IsFiniteSet(tape'[i])
  BY <1>4, <1>6, <1>7, <1>9 DEF TapeInv
<1>11. UNCHANGED <<trigger, mark, entry>> /\ ~Closed /\ ~Closed'
  BY <1>3, <1>6 DEF Trade, Closed
<1>12. entry.state # "resolved"
  BY <1>11 DEF TapeInv
<1>13. mark.state = "resolved" =>
          \E k \in 0..(Len(tape') - 1) : mark' = ReconstructHalt(SubSeq(tape', 1, k), trigger')
  BY <1>3, <1>6, <1>7, <1>11, ReadStays
<1> QED BY <1>3, <1>6, <1>9, <1>10, <1>11, <1>12, <1>13, TapeAssumption DEF TapeInv

LEMMA NextInstantKeeps ==
    ASSUME TapeInv, NextInstant
    PROVE  TapeInv'
<1>1. PICK n \in Nat : n = Len(tape) /\ n > 0 /\ n <= Instants
  BY TapeAssumption DEF TapeInv, NextInstant, Closed
<1>2. tape \in Seq(SUBSET TapeTrades) /\ DOMAIN tape = 1..n /\ tape' = Append(tape, {})
  BY <1>1 DEF TapeInv, NextInstant
<1>3. /\ tape' \in Seq(SUBSET TapeTrades) /\ Len(tape') = n + 1 /\ DOMAIN tape' = 1..(n + 1)
      /\ tape'[n + 1] = {} /\ \A i \in 1..n : tape'[i] = tape[i]
  BY <1>1, <1>2
<1>4. Printed' = Printed
  BY <1>2, <1>3 DEF Printed
<1>5. IsFiniteSet(Printed') /\ \A i \in DOMAIN tape' : IsFiniteSet(tape'[i])
  BY <1>2, <1>3, <1>4, FS_EmptySet DEF TapeInv
<1>6. UNCHANGED <<trigger, mark, entry>> /\ ~Closed
  BY DEF NextInstant
<1>7. entry.state # "resolved"
  BY <1>6 DEF TapeInv
<1>8. mark.state = "resolved" =>
          \E k \in 0..(Len(tape') - 1) : mark' = ReconstructHalt(SubSeq(tape', 1, k), trigger')
  BY <1>1, <1>3, <1>6, ReadStays
<1> QED BY <1>1, <1>3, <1>5, <1>6, <1>7, <1>8, TapeAssumption DEF TapeInv

LEMMA TapeStays == TapeInv /\ [TapeNext]_tapeVars => TapeInv'
<1> SUFFICES ASSUME TapeInv, [TapeNext]_tapeVars PROVE TapeInv'
  OBVIOUS
<1>1. CASE UNCHANGED <<tape, trigger>>
  <2>1. Printed' = Printed /\ Readable' = Readable /\ Closed' = Closed
    BY <1>1 DEF Printed, Readable, Closed
  <2>2. ASSUME mark'.state = "resolved"
        PROVE  \E k \in 0..(Len(tape) - 1) : mark' = ReconstructHalt(SubSeq(tape, 1, k), trigger)
    <3>1. CASE mark' = mark
      BY <2>2, <3>1 DEF TapeInv
    <3>2. CASE mark' # mark
      <4>1. mark' = ReconstructHalt(SubSeq(tape, 1, Len(tape) - 1), trigger)
        BY <1>1, <3>2
        DEF TapeNext, ResolveHalt, NextInstant, ResolveEntry, Trade, Readable, tapeVars
      <4>2. Len(tape) - 1 \in 0..(Len(tape) - 1)
        BY DEF TapeInv
      <4> QED BY <4>1, <4>2
    <3> QED BY <3>1, <3>2
  <2>3. ASSUME entry'.state = "resolved" PROVE Closed /\ entry' = ResolveBacktest(Readable)
    <3>1. CASE entry' = entry
      BY <2>3, <3>1 DEF TapeInv
    <3>2. CASE entry' # entry
      BY <1>1, <3>2 DEF TapeNext, ResolveHalt, NextInstant, ResolveEntry, Trade, tapeVars
    <3> QED BY <3>1, <3>2
  <2> QED BY <1>1, <2>1, <2>2, <2>3 DEF TapeInv
<1>2. CASE ~UNCHANGED <<tape, trigger>>
  <2>1. NextInstant \/ \E codes \in Conditions, price \in Prices : Trade(codes, price)
    BY <1>2 DEF TapeNext, ResolveHalt, ResolveEntry, tapeVars
  <2> QED BY <2>1, NextInstantKeeps, TradeKeeps
<1> QED BY <1>1, <1>2

\* MarkIsTheTape (execution/trade_conditions.py, reference_rules.py): on every tape, for every
\* meaning of the codes that are not known and every order within an instant, a price that was
\* stored, from whatever part of the session, is the price the rules select on the whole tape.
THEOREM StoredPricesAreTrue == TapeSpec => []MarkIsTheTape
<1>1. TapeInv => MarkIsTheTape
  <2> SUFFICES ASSUME TapeInv, NEW s \in Orders, NEW m \in Worlds(s)
               PROVE  /\ mark.state = "resolved" => FirstIs(mark.price, s, m)
                      /\ entry.state = "resolved" => LastIs(entry.price, s, m)
    BY DEF MarkIsTheTape
  <2>0. IsWorld(s, m) /\ trigger \in Nat \ {0} /\ Len(tape) - 1 \in 0..(Len(tape) - 1)
    BY DEF IsWorld, TapeInv
  <2>1. ASSUME mark.state = "resolved" PROVE FirstIs(mark.price, s, m)
    <3>1. PICK k \in 0..(Len(tape) - 1) : mark = ReconstructHalt(SubSeq(tape, 1, k), trigger)
      BY <2>1 DEF TapeInv
    <3>2. PICK groups : groups = SubSeq(tape, 1, k)
      OBVIOUS
    <3>3. TapeIsFinite /\ Begins(groups) /\ DOMAIN groups = 1..Len(groups)
      BY <3>2, TapeBegins
    <3> QED BY <2>0, <2>1, <3>1, <3>2, <3>3, HaltIsFirst
  <2>2. ASSUME entry.state = "resolved" PROVE LastIs(entry.price, s, m)
    <3>1. Closed /\ entry = ResolveBacktest(Readable) /\ tape[Len(tape)] = {}
      BY <2>2 DEF TapeInv
    <3>2. PICK groups : groups = Readable
      OBVIOUS
    <3>3. /\ TapeIsFinite /\ Begins(groups) /\ DOMAIN groups = 1..Len(groups)
          /\ Len(groups) = Len(tape) - 1
      BY <2>0, <3>2, TapeBegins DEF Readable
    <3>4. \A x \in Printed : x[1] <= Len(groups)
      BY <3>1, <3>3 DEF Printed, TapeIsFinite
    <3> QED BY <2>0, <2>2, <3>1, <3>2, <3>3, <3>4, EntryIsLast
  <2> QED BY <2>1, <2>2
<1> QED BY <1>1, TapeStarts, TapeStays, PTL DEF TapeSpec

-----------------------------------------------------------------------------
(* RateLimits: windows and buckets.                                        *)

Units(S) == MapThenSumSet(LAMBDA g : g.units, S)

LEMMA UnitsAreNat ==
    ASSUME NEW S, IsFiniteSet(S), \A g \in S : g.units \in Nat
    PROVE  Units(S) \in Nat /\ (S = {} => Units(S) = 0)
<1> DEFINE h == [g \in S |-> g.units]
<1>1. Units(S) = Total(h, S)
  BY UnitsAreATotal DEF Units
<1>2. Total(h, S) \in Nat
  BY TotalIsNat
<1>3. S = {} => Total(h, S) = 0
  BY TotalUnfolds
<1> QED BY <1>1, <1>2, <1>3

LEMMA UnitsAddUp ==
    ASSUME NEW S, IsFiniteSet(S), \A g \in S : g.units \in Nat, NEW x, x.units \in Nat
    PROVE  Units(S \cup {x}) <= Units(S) + x.units
<1>1. CASE x \in S
  <2>1. S \cup {x} = S
    BY <1>1
  <2>2. Units(S \cup {x}) = Units(S)
    BY <2>1, Zenon
  <2> QED BY <2>2, UnitsAreNat
<1>2. CASE x \notin S
  <2> DEFINE h == [g \in S \cup {x} |-> g.units]
             k == [g \in S |-> g.units]
  <2>1. IsFiniteSet(S \cup {x})
    BY FS_AddElement
  <2>2. Units(S \cup {x}) = Total(h, S \cup {x}) /\ Units(S) = Total(k, S)
    BY <2>1, UnitsAreATotal DEF Units
  <2>3. \A g \in S : h[g] = k[g]
    OBVIOUS
  <2>4. Total(h, S) = Total(k, S)
    BY <2>3, TotalSame
  <2>5. \A g \in S \cup {x} : h[g] \in Nat
    OBVIOUS
  <2>6. Total(h, S \cup {x}) = Total(h, S) + h[x] /\ Total(h, S) \in Nat
    BY <1>2, <2>5, TotalAdds
  <2>7. h[x] = x.units
    OBVIOUS
  <2> HIDE DEF h, k
  <2>8. Units(S \cup {x}) = Units(S) + x.units /\ Units(S) \in Nat
    BY <2>2, <2>4, <2>6, <2>7
  <2>9. PICK n \in Nat : n = Units(S)
    BY <2>8
  <2> QED BY <2>8, <2>9
<1> QED BY <1>1, <1>2

\* No log window, wherever it ends, holds more admissions than the limit.
InLog(end) == {a \in admitted : a.at <= end /\ a.at + Window > end}
WindowInv ==
    /\ redisTime \in Nat /\ IsFiniteSet(admitted)
    /\ \A a \in admitted : /\ a.at \in Nat /\ a.at <= redisTime
                           /\ a.arrives \in Nat /\ a.at <= a.arrives /\ a.arrives <= a.at + Jitter
    /\ \A end \in Nat : Cardinality(InLog(end)) <= WindowLimit

LEMMA LimitsAreNat ==
    /\ Window \in Nat /\ WindowLimit \in Nat /\ ServerWindow \in Nat /\ Jitter \in Nat
    /\ RequestCap \in Nat /\ TokenCap \in Nat /\ LimitHorizon \in Nat
    /\ Minute \in Nat /\ ServerWindow + Jitter <= Window
BY LimitAssumption

LEMMA AdmitKeepsWindow ==
    ASSUME WindowInv, NEW c \in Clients, Admit(c)
    PROVE  WindowInv'
<1>1. PICK delay \in 0..Jitter :
          admitted' = admitted \cup
              {[n |-> Cardinality(admitted), at |-> redisTime, arrives |-> redisTime + delay]}
  BY DEF Admit
<1>2. PICK a : a = [n |-> Cardinality(admitted), at |-> redisTime, arrives |-> redisTime + delay]
  OBVIOUS
<1>3. /\ a.at = redisTime /\ a.arrives = redisTime + delay /\ admitted' = admitted \cup {a}
      /\ redisTime' = redisTime /\ redisTime \in Nat /\ Cardinality(Members) < WindowLimit
  BY <1>1, <1>2 DEF Admit, WindowInv
<1>4. IsFiniteSet(admitted')
  BY <1>3, FS_AddElement DEF WindowInv
<1>5. \A b \in admitted' : /\ b.at \in Nat /\ b.at <= redisTime
                           /\ b.arrives \in Nat /\ b.at <= b.arrives /\ b.arrives <= b.at + Jitter
  BY <1>3, LimitsAreNat DEF WindowInv
<1>6. ASSUME NEW end \in Nat PROVE Cardinality(InLog(end)') <= WindowLimit
  <2>1. CASE end < redisTime
    <3>1. InLog(end)' = InLog(end)
      BY <1>3, <2>1 DEF InLog
    <3> QED BY <3>1 DEF WindowInv
  <2>2. CASE end >= redisTime
    <3>1. InLog(end)' \subseteq Members \cup {a}
      BY <1>3, <2>2, LimitsAreNat DEF InLog, Members, WindowInv
    <3>2. IsFiniteSet(Members)
      BY FS_Subset DEF Members, WindowInv
    <3>3. /\ IsFiniteSet(Members \cup {a})
          /\ Cardinality(Members \cup {a}) <= Cardinality(Members) + 1
          /\ Cardinality(Members) \in Nat
      <4>1. CASE a \in Members
        <5>1. Members \cup {a} = Members
          BY <4>1
        <5>2. /\ Cardinality(Members \cup {a}) = Cardinality(Members)
              /\ IsFiniteSet(Members \cup {a})
          BY <3>2, <5>1, Zenon
        <5> QED BY <3>2, <5>2, FS_CardinalityType
      <4>2. CASE a \notin Members
        <5>1. /\ IsFiniteSet(Members \cup {a})
              /\ Cardinality(Members \cup {a}) = Cardinality(Members) + 1
          BY <3>2, <4>2, FS_AddElement, Zenon
        <5> QED BY <3>2, <5>1, FS_CardinalityType
      <4> QED BY <4>1, <4>2
    <3>4. /\ Cardinality(InLog(end)') <= Cardinality(Members \cup {a})
          /\ Cardinality(InLog(end)') \in Nat /\ Cardinality(Members \cup {a}) \in Nat
      BY <3>1, <3>3, FS_Subset, FS_CardinalityType
    <3> QED BY <1>3, <3>3, <3>4, LimitsAreNat
  <2> QED BY <1>3, <2>1, <2>2
<1> QED BY <1>3, <1>4, <1>5, <1>6 DEF WindowInv

\* Requests that arrive within one window of the server were admitted within one of the log.
LEMMA WindowIsKept ==
    ASSUME WindowInv, NEW t \in Nat
    PROVE  Cardinality({a \in admitted : a.arrives >= t /\ a.arrives < t + ServerWindow}) <= WindowLimit
<1> DEFINE A == {a \in admitted : a.arrives >= t /\ a.arrives < t + ServerWindow}
<1>1. CASE ServerWindow = 0
  <2>1. A = {}
    BY <1>1 DEF WindowInv
  <2> QED BY <2>1, LimitsAreNat, FS_EmptySet
<1>2. CASE ServerWindow > 0
  <2> DEFINE end == t + ServerWindow - 1
  <2>1. end \in Nat
    BY <1>2, LimitsAreNat
  <2>2. A \subseteq InLog(end)
    BY <1>2, LimitsAreNat DEF InLog, WindowInv
  <2>3. IsFiniteSet(InLog(end))
    BY FS_Subset DEF InLog, WindowInv
  <2>4. /\ Cardinality(A) <= Cardinality(InLog(end)) /\ Cardinality(InLog(end)) \in Nat
        /\ Cardinality(A) \in Nat
    BY <2>2, <2>3, FS_Subset, FS_CardinalityType
  <2> QED BY <2>1, <2>4, LimitsAreNat DEF WindowInv
<1> QED BY <1>1, <1>2, LimitsAreNat

\* What a bucket has let through since a time.
Since(b, from) == {g \in granted[b] : g.at >= from}
Between(b, from, to) == {g \in granted[b] : g.at \in from..to}

LEMMA UnitsInBetween ==
    \A b, from, to : UnitsIn(b, from, to) = Units(Between(b, from, to))
BY DEF UnitsIn, Units, Between

\* What went through since any time, together with what is left, is no more than the burst
\* and what came back since.
BucketInv(b) ==
    /\ buckets[b].ts \in Nat /\ buckets[b].ts <= redisTime /\ buckets[b].units \in Nat
    /\ buckets[b].units <= CapOf(b) * Minute
    /\ IsFiniteSet(granted[b])
    /\ \A g \in granted[b] : g.at \in Nat /\ g.at <= buckets[b].ts /\ g.units \in Nat
    /\ \A from \in Nat : from <= buckets[b].ts =>
          Units(Since(b, from)) * Minute + buckets[b].units
              <= CapOf(b) * Minute + CapOf(b) * (buckets[b].ts - from)
    /\ \A from, to \in Nat : from <= to =>
          Units(Between(b, from, to)) * Minute <= CapOf(b) * Minute + CapOf(b) * (to - from)

CallsMakeSense ==
    \A c \in Clients : caller[c] = NoCall \/ (DOMAIN caller[c] = {"doing", "cost", "until"}
                                              /\ caller[c].cost \in Nat)

LimitInv ==
    /\ WindowInv /\ CallsMakeSense /\ DOMAIN caller = Clients
    /\ DOMAIN buckets = Buckets /\ DOMAIN granted = Buckets
    /\ \A b \in Buckets : DOMAIN buckets[b] = {"units", "ts"} /\ BucketInv(b)

LEMMA UnitsOfGrants ==
    ASSUME NEW b, BucketInv(b), NEW S \in SUBSET granted[b]
    PROVE  Units(S) \in Nat /\ IsFiniteSet(S) /\ (S = {} => Units(S) = 0)
<1>1. IsFiniteSet(S) /\ \A g \in S : g.units \in Nat
  BY FS_Subset DEF BucketInv
<1> QED BY <1>1, UnitsAreNat

\* Arithmetic of one use of a bucket.
LEMMA Distributes ==
    \A k, x, y \in Int : k * (x + y) = k * x + k * y /\ (x + y) * k = x * k + y * k
OBVIOUS
LEMMA Monotone ==
    \A k, x, y \in Nat : x <= y => k * x <= k * y /\ k * x \in Nat
OBVIOUS

\* A use at the time of Redis: what is left and what goes through come from the refilled bucket.
LEMMA UseKeeps ==
    ASSUME NEW b \in Buckets, BucketInv(b), redisTime \in Nat,
           NEW charge \in Nat, NEW left \in Nat, NEW new,
           left + charge * Minute = Refilled(b),
           buckets' = [buckets EXCEPT ![b] = [units |-> left, ts |-> redisTime]],
           DOMAIN buckets = Buckets, DOMAIN granted = Buckets, redisTime' = redisTime,
           \/ charge = 0 /\ granted'[b] = granted[b]
           \/ /\ granted'[b] = granted[b] \cup {new}
              /\ new.at = redisTime /\ new.units = charge
    PROVE  BucketInv(b)'
<1>1. PICK cap, ts, units, now \in Nat :
          /\ cap = CapOf(b) /\ ts = buckets[b].ts /\ units = buckets[b].units /\ now = redisTime
          /\ ts <= now
  BY LimitsAreNat DEF BucketInv, CapOf
<1>2. buckets'[b].ts = now /\ buckets'[b].units = left
  BY <1>1
<1>3. /\ left + charge * Minute <= cap * Minute
      /\ left + charge * Minute <= units + cap * (now - ts)
  <2>1. Refilled(b) = Smaller(cap * Minute, units + (now - ts) * cap)
    BY <1>1 DEF Refilled
  <2>2. (now - ts) * cap = cap * (now - ts)
    BY <1>1
  <2>3. cap * Minute \in Int /\ cap * (now - ts) \in Int
    BY <1>1, LimitsAreNat
  <2> QED BY <2>1, <2>2, <2>3 DEF Smaller
<1>4. left <= cap * Minute
  BY <1>1, <1>3, LimitsAreNat
\* A set of grants after the use has at most the charge more than the same set before.
<1>5. ASSUME NEW from \in Nat
      PROVE  /\ Units(Since(b, from)) \in Nat
             /\ from > ts => Units(Since(b, from)) = 0
             /\ Units(Since(b, from))' \in Nat
             /\ from <= now => Units(Since(b, from))' <= Units(Since(b, from)) + charge
  <2>1. Since(b, from) \in SUBSET granted[b] /\ (from > ts => Since(b, from) = {})
    <3>1. \A g \in granted[b] : g.at \in Nat /\ g.at <= ts
      BY <1>1 DEF BucketInv
    <3> QED BY <1>1, <3>1 DEF Since
  <2>2. /\ Units(Since(b, from)) \in Nat /\ IsFiniteSet(Since(b, from))
        /\ from > ts => Units(Since(b, from)) = 0
    BY <2>1, UnitsOfGrants
  <2>3. CASE charge = 0 /\ granted'[b] = granted[b]
    <3>1. Since(b, from)' = Since(b, from)
      BY <2>3 DEF Since
    <3>2. Units(Since(b, from))' = Units(Since(b, from))
      BY <3>1, Zenon
    <3> QED BY <2>2, <2>3, <3>2
  <2>4. CASE /\ granted'[b] = granted[b] \cup {new}
             /\ new.at = redisTime /\ new.units = charge
    <3>1. CASE from <= now
      <4>1. Since(b, from)' = Since(b, from) \cup {new}
        BY <1>1, <2>4, <3>1 DEF Since
      <4>2. Units(Since(b, from))' = Units(Since(b, from) \cup {new})
        BY <4>1, Zenon
      <4>3. \A g \in Since(b, from) : g.units \in Nat
        BY DEF Since, BucketInv
      <4>4. Units(Since(b, from) \cup {new}) <= Units(Since(b, from)) + charge
        BY <2>2, <2>4, <4>3, UnitsAddUp
      <4>5. Units(Since(b, from) \cup {new}) \in Nat
        <5>1. IsFiniteSet(Since(b, from) \cup {new})
          BY <2>2, FS_AddElement
        <5>2. \A g \in Since(b, from) \cup {new} : g.units \in Nat
          BY <2>4, <4>3
        <5> QED BY <5>1, <5>2, UnitsAreNat
      <4> QED BY <2>2, <4>2, <4>4, <4>5
    <3>2. CASE from > now
      <4>1. Since(b, from)' = Since(b, from)
        BY <1>1, <2>4, <3>2 DEF Since
      <4>2. Units(Since(b, from))' = Units(Since(b, from))
        BY <4>1, Zenon
      <4> QED BY <1>1, <2>2, <3>2, <4>2
    <3> QED BY <1>1, <3>1, <3>2
  <2> QED BY <2>2, <2>3, <2>4
<1>6. /\ IsFiniteSet(granted'[b])
      /\ \A g \in granted'[b] : g.at \in Nat /\ g.at <= now /\ g.units \in Nat
  <2>1. IsFiniteSet(granted[b]) /\ \A g \in granted[b] : g.at \in Nat /\ g.at <= ts /\ g.units \in Nat
    BY <1>1 DEF BucketInv
  <2>2. CASE granted'[b] = granted[b]
    BY <1>1, <2>1, <2>2
  <2>3. CASE /\ granted'[b] = granted[b] \cup {new}
             /\ new.at = redisTime /\ new.units = charge
    <3>1. IsFiniteSet(granted[b] \cup {new})
      BY <2>1, FS_AddElement
    <3> QED BY <1>1, <2>1, <2>3, <3>1
  <2> QED BY <2>2, <2>3
<1>7. ASSUME NEW from \in Nat, from <= now
      PROVE  Units(Since(b, from))' * Minute + left <= cap * Minute + cap * (now - from)
  <2>1. PICK u \in Nat : u = Units(Since(b, from)) /\ (from > ts => u = 0)
    BY <1>5
  <2>2. PICK v \in Nat : v = Units(Since(b, from))' /\ v <= u + charge
    BY <1>5, <1>7, <2>1
  <2>3. v * Minute <= u * Minute + charge * Minute
    <3>1. v * Minute <= (u + charge) * Minute
      BY <2>2, LimitsAreNat, Monotone
    <3> QED BY <3>1, <2>1, <2>2, LimitsAreNat, Distributes
  <2>4. /\ v * Minute \in Nat /\ u * Minute \in Nat /\ charge * Minute \in Nat /\ cap * Minute \in Nat
        /\ cap * (now - from) \in Nat /\ cap * (now - ts) \in Nat
    BY <1>1, <1>7, LimitsAreNat
  <2>5. CASE from > ts
    <3>1. u * Minute = 0
      BY <2>1, <2>5, LimitsAreNat
    <3> QED BY <1>3, <2>2, <2>3, <2>4, <3>1
  <2>6. CASE from <= ts
    <3>1. u * Minute + units <= cap * Minute + cap * (ts - from)
      BY <1>1, <2>1, <2>6 DEF BucketInv
    <3>2. cap * (ts - from) + cap * (now - ts) = cap * (now - from)
      <4>1. (ts - from) + (now - ts) = now - from
        BY <1>1
      <4> QED BY <1>1, <4>1, Distributes
    <3>3. cap * (ts - from) \in Nat
      BY <1>1, <2>6
    <3> QED BY <1>1, <1>3, <2>2, <2>3, <2>4, <3>1, <3>2, <3>3
  <2> QED BY <1>1, <2>5, <2>6
<1>8. ASSUME NEW from \in Nat, NEW to \in Nat, from <= to
      PROVE  Units(Between(b, from, to))' * Minute <= cap * Minute + cap * (to - from)
  <2>0. cap * Minute \in Nat /\ cap * (to - from) \in Nat
    BY <1>8, LimitsAreNat
  <2>1. CASE to < now
    <3>1. Between(b, from, to)' = Between(b, from, to)
      BY <1>1, <2>1 DEF Between
    <3>2. Units(Between(b, from, to))' = Units(Between(b, from, to))
      BY <3>1, Zenon
    <3> QED BY <1>1, <1>8, <3>2 DEF BucketInv
  <2>2. CASE to >= now /\ from <= now
    <3>1. Between(b, from, to)' = Since(b, from)'
      BY <1>1, <1>6, <2>2 DEF Between, Since
    <3>2. Units(Between(b, from, to))' = Units(Since(b, from))'
      BY <3>1, Zenon
    <3>3. PICK v \in Nat : v = Units(Since(b, from))'
      BY <1>5
    <3>4. v * Minute + left <= cap * Minute + cap * (now - from) /\ v * Minute \in Nat
      BY <1>7, <2>2, <3>3, LimitsAreNat
    <3>5. cap * (now - from) <= cap * (to - from) /\ cap * (now - from) \in Nat
      <4>1. now - from \in Nat /\ to - from \in Nat /\ now - from <= to - from
        BY <1>1, <1>8, <2>2
      <4> QED BY <1>1, <4>1, Monotone
    <3> QED BY <2>0, <3>2, <3>3, <3>4, <3>5
  <2>3. CASE from > now
    <3>1. Between(b, from, to)' = {}
      BY <1>1, <1>6, <2>3 DEF Between
    <3>2. Units(Between(b, from, to))' = Units({})
      BY <3>1, Zenon
    <3>3. Units({}) = 0
      BY UnitsAreNat, FS_EmptySet
    <3> QED BY <2>0, <3>2, <3>3, LimitsAreNat
  <2> QED BY <1>1, <1>8, <2>1, <2>2, <2>3
<1>9. CapOf(b)' = cap
  BY <1>1 DEF CapOf
<1>10. \A from \in Nat : from <= buckets'[b].ts =>
          Units(Since(b, from))' * Minute + buckets'[b].units
              <= cap * Minute + cap * (buckets'[b].ts - from)
  BY <1>2, <1>7
<1> QED
  BY <1>1, <1>2, <1>4, <1>6, <1>8, <1>9, <1>10 DEF BucketInv

LEMMA NumbersOfAUse ==
    ASSUME LimitInv, NEW b \in Buckets
    PROVE  /\ Refilled(b) \in Nat
           /\ \A c \in Clients : caller[c] # NoCall => Charge(c, b) \in Nat
<1>1. CapOf(b) \in Nat /\ CapOf(b) * Minute \in Nat
  BY LimitsAreNat DEF CapOf
<1>2. buckets[b].units \in Nat /\ buckets[b].ts \in Nat /\ redisTime \in Nat /\ buckets[b].ts <= redisTime
  BY DEF LimitInv, BucketInv, WindowInv
<1>3. (redisTime - buckets[b].ts) * CapOf(b) \in Nat
  BY <1>1, <1>2
<1>4. \A c \in Clients : caller[c] # NoCall => caller[c].cost \in Nat
  BY DEF LimitInv, CallsMakeSense
<1> QED BY <1>1, <1>2, <1>3, <1>4 DEF Refilled, Smaller, Charge

\* A step that leaves a bucket and its grants alone keeps what holds of it.
LEMMA BucketKept ==
    ASSUME NEW b \in Buckets, BucketInv(b), redisTime \in Nat, redisTime' \in Nat, redisTime <= redisTime',
           buckets'[b] = buckets[b], granted'[b] = granted[b]
    PROVE  BucketInv(b)'
<1>1. \A from : Since(b, from)' = Since(b, from)
  BY DEF Since
<1>2. \A from : Units(Since(b, from))' = Units(Since(b, from))
  BY <1>1, Zenon
<1>3. \A from, to : Between(b, from, to)' = Between(b, from, to)
  BY DEF Between
<1>4. \A from, to : Units(Between(b, from, to))' = Units(Between(b, from, to))
  BY <1>3, Zenon
<1>5. CapOf(b)' = CapOf(b)
  BY DEF CapOf
<1>6. buckets'[b].ts \in Nat /\ buckets'[b].ts <= redisTime'
  BY DEF BucketInv
<1> QED BY <1>2, <1>4, <1>5, <1>6 DEF BucketInv

LEMMA WindowKept ==
    ASSUME WindowInv, redisTime' \in Nat, redisTime <= redisTime', admitted' = admitted
    PROVE  WindowInv'
<1>1. \A end : InLog(end)' = InLog(end)
  BY DEF InLog
<1>2. \A end : Cardinality(InLog(end))' = Cardinality(InLog(end))
  BY <1>1, Zenon
<1>3. \A a \in admitted : a.at <= redisTime'
  BY DEF WindowInv
<1> QED BY <1>2, <1>3 DEF WindowInv

LEMMA SleepKeepsCalls ==
    ASSUME CallsMakeSense, DOMAIN caller = Clients, NEW c \in Clients, caller[c] # NoCall,
           NEW wait, Sleep(c, wait)
    PROVE  CallsMakeSense' /\ DOMAIN caller' = Clients
<1>1. DOMAIN caller[c] = {"doing", "cost", "until"} /\ caller[c].cost \in Nat
  BY DEF CallsMakeSense
<1>2. PICK r : r = [caller[c] EXCEPT !.until = redisTime + wait]
  OBVIOUS
<1>3. DOMAIN r = {"doing", "cost", "until"} /\ r.cost \in Nat
  BY <1>1, <1>2
<1>4. caller' = [caller EXCEPT ![c] = r]
  BY <1>2 DEF Sleep
<1> QED BY <1>3, <1>4 DEF CallsMakeSense, NoCall

LEMMA LimitsAtFirst == LimitInit => LimitInv
<1> SUFFICES ASSUME LimitInit PROVE LimitInv
  OBVIOUS
<1>1. admitted = {} /\ redisTime = 0 /\ IsFiniteSet({}) /\ Cardinality({}) = 0
  BY FS_EmptySet DEF LimitInit
<1>2. WindowInv
  <2>1. \A end \in Nat : InLog(end) = {}
    BY <1>1 DEF InLog
  <2>2. \A end \in Nat : Cardinality(InLog(end)) = Cardinality({})
    BY <2>1, Zenon
  <2> QED BY <1>1, <2>2, LimitsAreNat DEF WindowInv
<1>3. CallsMakeSense /\ DOMAIN caller = Clients /\ DOMAIN buckets = Buckets /\ DOMAIN granted = Buckets
  BY DEF LimitInit, CallsMakeSense
<1>4. ASSUME NEW b \in Buckets PROVE DOMAIN buckets[b] = {"units", "ts"} /\ BucketInv(b)
  <2>1. PICK cap \in Nat : cap = CapOf(b)
    BY LimitsAreNat DEF CapOf
  <2>2. /\ buckets[b] = [units |-> cap * Minute, ts |-> 0] /\ granted[b] = {}
        /\ cap * Minute \in Nat
    BY <2>1, LimitsAreNat DEF LimitInit
  <2>3. Units({}) = 0
    BY UnitsAreNat, FS_EmptySet
  <2>4. ASSUME NEW from, NEW to
        PROVE  Units(Since(b, from)) = 0 /\ Units(Between(b, from, to)) = 0
    <3>1. Since(b, from) = {} /\ Between(b, from, to) = {}
      BY <2>2 DEF Since, Between
    <3>2. Units(Since(b, from)) = Units({}) /\ Units(Between(b, from, to)) = Units({})
      BY <3>1, Zenon
    <3> QED BY <2>3, <3>2
  <2>5. \A from, to \in Nat : from <= to => cap * (to - from) \in Nat
    BY LimitsAreNat
  <2>6. \A from, to \in Nat : from <= to =>
          Units(Between(b, from, to)) * Minute <= CapOf(b) * Minute + CapOf(b) * (to - from)
    BY <2>1, <2>2, <2>4, <2>5, LimitsAreNat
  <2>7. \A from \in Nat : from <= buckets[b].ts =>
          Units(Since(b, from)) * Minute + buckets[b].units
              <= CapOf(b) * Minute + CapOf(b) * (buckets[b].ts - from)
    <3>1. buckets[b].ts = 0 /\ buckets[b].units = cap * Minute
      BY <2>2
    <3> SUFFICES ASSUME NEW from \in Nat, from <= buckets[b].ts
                 PROVE  Units(Since(b, from)) * Minute + cap * Minute
                            <= cap * Minute + cap * (0 - from)
      BY <2>1, <3>1
    <3>2. from = 0 /\ Units(Since(b, from)) = 0
      BY <2>4, <3>1
    <3>3. cap * (0 - from) = 0
      BY <3>2
    <3>4. Units(Since(b, from)) * Minute = 0
      BY <3>2, LimitsAreNat
    <3> QED BY <2>2, <3>3, <3>4
  <2> QED BY <1>1, <2>1, <2>2, <2>6, <2>7 DEF BucketInv
<1> QED BY <1>2, <1>3, <1>4 DEF LimitInv

\* The new state of the bucket used, the other one as it was.
LEMMA UseStep ==
    ASSUME LimitInv, NEW b \in Buckets, NEW left, Use(b, left), redisTime' = redisTime,
           BucketInv(b)', DOMAIN granted' = Buckets,
           \A d \in Buckets : d # b => granted'[d] = granted[d]
    PROVE  /\ DOMAIN buckets' = Buckets
           /\ \A d \in Buckets : DOMAIN buckets'[d] = {"units", "ts"} /\ BucketInv(d)'
<1>1. DOMAIN buckets' = Buckets
  BY DEF LimitInv, Use
<1>2. ASSUME NEW d \in Buckets, d # b
      PROVE  DOMAIN buckets'[d] = {"units", "ts"} /\ BucketInv(d)'
  <2>1. buckets'[d] = buckets[d] /\ granted'[d] = granted[d]
    BY <1>2 DEF LimitInv, Use
  <2>2. BucketInv(d) /\ redisTime \in Nat /\ DOMAIN buckets[d] = {"units", "ts"}
    BY DEF LimitInv, WindowInv
  <2> QED BY <2>1, <2>2, BucketKept
<1>3. DOMAIN buckets'[b] = {"units", "ts"}
  BY DEF LimitInv, Use
<1> QED BY <1>1, <1>2, <1>3

LEMMA GrantKeepsLimits ==
    ASSUME LimitInv, NEW c \in Clients, NEW b \in Buckets, Grant(c, b)
    PROVE  LimitInv'
<1>1. /\ redisTime' = redisTime /\ admitted' = admitted /\ redisTime \in Nat /\ caller[c] # NoCall
      /\ DOMAIN buckets = Buckets /\ DOMAIN granted = Buckets /\ DOMAIN caller = Clients
  BY DEF LimitInv, WindowInv, Grant, Awake
<1>2. WindowInv'
  BY <1>1, WindowKept DEF LimitInv
<1>3. PICK charge \in Nat : charge = Charge(c, b)
  BY <1>1, NumbersOfAUse
<1>4. PICK left \in Nat : left = Refilled(b) - charge * Minute /\ left + charge * Minute = Refilled(b)
  <2>1. Refilled(b) \in Nat /\ charge * Minute \in Nat /\ Refilled(b) >= charge * Minute
    BY <1>3, NumbersOfAUse, LimitsAreNat DEF Grant
  <2> QED BY <2>1
<1>5. PICK new : new = [n |-> Cardinality(granted[b]), at |-> redisTime, units |-> charge]
  OBVIOUS
<1>6. /\ granted' = [granted EXCEPT ![b] = granted[b] \cup {new}]
      /\ new.at = redisTime /\ new.units = charge /\ Use(b, left)
  BY <1>3, <1>4, <1>5 DEF Grant
<1>7. granted'[b] = granted[b] \cup {new} /\ DOMAIN granted' = Buckets
      /\ \A d \in Buckets : d # b => granted'[d] = granted[d]
  BY <1>1, <1>6
<1>8. BucketInv(b)'
  <2>1. BucketInv(b)
    BY DEF LimitInv
  <2>2. buckets' = [buckets EXCEPT ![b] = [units |-> left, ts |-> redisTime]]
    BY <1>6 DEF Use
  <2> QED BY <1>1, <1>4, <1>6, <1>7, <2>1, <2>2, UseKeeps
<1>9. /\ DOMAIN buckets' = Buckets
      /\ \A d \in Buckets : DOMAIN buckets'[d] = {"units", "ts"} /\ BucketInv(d)'
  BY <1>1, <1>6, <1>7, <1>8, UseStep
<1>10. CallsMakeSense' /\ DOMAIN caller' = Clients
  <2>1. PICK r : r = [caller[c] EXCEPT !.doing = "tokens", !.until = redisTime]
    OBVIOUS
  <2>2. DOMAIN caller[c] = {"doing", "cost", "until"} /\ caller[c].cost \in Nat
    BY <1>1 DEF LimitInv, CallsMakeSense
  <2>3. DOMAIN r = {"doing", "cost", "until"} /\ r.cost \in Nat
    BY <2>1, <2>2
  <2>4. caller' = [caller EXCEPT ![c] = r] \/ caller' = [caller EXCEPT ![c] = NoCall]
    BY <2>1 DEF Grant
  <2> QED BY <1>1, <2>3, <2>4 DEF CallsMakeSense, LimitInv, NoCall
<1> QED BY <1>2, <1>7, <1>9, <1>10 DEF LimitInv

LEMMA ShortKeepsLimits ==
    ASSUME LimitInv, NEW c \in Clients, NEW b \in Buckets, Short(c, b)
    PROVE  LimitInv'
<1>1. /\ redisTime' = redisTime /\ admitted' = admitted /\ granted' = granted
      /\ redisTime \in Nat /\ caller[c] # NoCall
      /\ DOMAIN buckets = Buckets /\ DOMAIN granted = Buckets /\ DOMAIN caller = Clients
  BY DEF LimitInv, WindowInv, Short, Awake
<1>2. WindowInv'
  BY <1>1, WindowKept DEF LimitInv
<1>3. PICK left \in Nat : left = Refilled(b)
  BY NumbersOfAUse
<1>4. Use(b, left) /\ left + 0 * Minute = Refilled(b) /\ 0 \in Nat
  BY <1>3, LimitsAreNat DEF Short
<1>5. BucketInv(b)'
  <2>1. BucketInv(b)
    BY DEF LimitInv
  <2>2. buckets' = [buckets EXCEPT ![b] = [units |-> left, ts |-> redisTime]]
    BY <1>4 DEF Use
  <2> QED BY <1>1, <1>3, <1>4, <2>1, <2>2, UseKeeps
<1>6. /\ DOMAIN buckets' = Buckets
      /\ \A d \in Buckets : DOMAIN buckets'[d] = {"units", "ts"} /\ BucketInv(d)'
  BY <1>1, <1>4, <1>5, UseStep
<1>7. \E wait : Sleep(c, wait)
  BY DEF Short
<1>8. CallsMakeSense' /\ DOMAIN caller' = Clients
  BY <1>1, <1>7, SleepKeepsCalls DEF LimitInv
<1> QED BY <1>1, <1>2, <1>6, <1>8 DEF LimitInv

\* Every other step leaves the buckets alone.
LEMMA OthersKeepLimits ==
    ASSUME LimitInv, buckets' = buckets, granted' = granted, WindowInv',
           redisTime <= redisTime', CallsMakeSense', DOMAIN caller' = Clients
    PROVE  LimitInv'
<1>1. redisTime \in Nat /\ redisTime' \in Nat
  BY DEF LimitInv, WindowInv
<1>2. \A b \in Buckets : BucketInv(b)'
  BY <1>1, BucketKept DEF LimitInv
<1> QED BY <1>2 DEF LimitInv

LEMMA LimitsStay == LimitInv /\ [LimitNext]_limitVars => LimitInv'
<1> SUFFICES ASSUME LimitInv, [LimitNext]_limitVars PROVE LimitInv'
  OBVIOUS
<1> USE DEF LimitInv
<1>0. redisTime \in Nat
  BY DEF WindowInv
<1>1. CASE RedisTick
  <2>1. redisTime' \in Nat /\ redisTime <= redisTime' /\ admitted' = admitted
        /\ buckets' = buckets /\ granted' = granted /\ caller' = caller
    BY <1>0, <1>1 DEF RedisTick
  <2>2. WindowInv'
    BY <2>1, WindowKept
  <2>3. CallsMakeSense' /\ DOMAIN caller' = Clients
    BY <2>1 DEF CallsMakeSense
  <2> QED BY <2>1, <2>2, <2>3, OthersKeepLimits
<1>2. ASSUME NEW c \in Clients, Ask(c) PROVE LimitInv'
  <2>1. redisTime' = redisTime /\ admitted' = admitted /\ buckets' = buckets /\ granted' = granted
    BY <1>2 DEF Ask
  <2>2. WindowInv'
    BY <1>0, <2>1, WindowKept
  <2>3. PICK cost \in IF limiter = "window" THEN {1} ELSE Costs :
            caller' = [caller EXCEPT ![c] = [doing |-> limiter, cost |-> cost, until |-> redisTime]]
    BY <1>2 DEF Ask
  <2>4. cost \in Nat
    <3>1. Costs \subseteq Nat /\ 1 \in Nat
      BY LimitAssumption
    <3> QED BY <2>3, <3>1
  <2>5. CallsMakeSense' /\ DOMAIN caller' = Clients
    BY <2>3, <2>4 DEF CallsMakeSense
  <2> QED BY <1>0, <2>1, <2>2, <2>5, OthersKeepLimits
<1>3. ASSUME NEW c \in Clients, Admit(c) PROVE LimitInv'
  <2>1. redisTime' = redisTime /\ buckets' = buckets /\ granted' = granted /\ caller[c] # NoCall
    BY <1>3 DEF Admit, Awake
  <2>2. WindowInv'
    BY <1>3, AdmitKeepsWindow
  <2>3. CASE Sleep(c, 1)
    <3>1. CallsMakeSense' /\ DOMAIN caller' = Clients
      BY <2>1, <2>3, SleepKeepsCalls
    <3> QED BY <1>0, <2>1, <2>2, <3>1, OthersKeepLimits
  <2>4. CASE caller' = [caller EXCEPT ![c] = NoCall]
    <3>1. CallsMakeSense' /\ DOMAIN caller' = Clients
      BY <2>4 DEF CallsMakeSense, NoCall
    <3> QED BY <1>0, <2>1, <2>2, <3>1, OthersKeepLimits
  <2> QED BY <1>3, <2>3, <2>4 DEF Admit
<1>4. ASSUME NEW c \in Clients, WindowFull(c) PROVE LimitInv'
  <2>1. redisTime' = redisTime /\ admitted' = admitted /\ buckets' = buckets /\ granted' = granted
        /\ caller[c] # NoCall /\ \E wait : Sleep(c, wait)
    BY <1>4 DEF WindowFull, Awake
  <2>2. WindowInv'
    BY <1>0, <2>1, WindowKept
  <2>3. CallsMakeSense' /\ DOMAIN caller' = Clients
    BY <2>1, SleepKeepsCalls
  <2> QED BY <1>0, <2>1, <2>2, <2>3, OthersKeepLimits
<1>5. CASE UNCHANGED limitVars
  <2>1. redisTime' = redisTime /\ admitted' = admitted /\ buckets' = buckets /\ granted' = granted
        /\ caller' = caller
    BY <1>5 DEF limitVars
  <2>2. WindowInv'
    BY <1>0, <2>1, WindowKept
  <2>3. CallsMakeSense' /\ DOMAIN caller' = Clients
    BY <2>1 DEF CallsMakeSense
  <2> QED BY <1>0, <2>1, <2>2, <2>3, OthersKeepLimits
<1> HIDE DEF LimitInv
<1> QED
  BY <1>1, <1>2, <1>3, <1>4, <1>5, GrantKeepsLimits, ShortKeepsLimits DEF LimitNext

LEMMA LimitsFollow == LimitInv => LimitsAreKept
<1> SUFFICES ASSUME LimitInv PROVE LimitsAreKept
  OBVIOUS
<1>1. WindowInv /\ redisTime \in Nat
  BY DEF LimitInv, WindowInv
<1>2. \A t \in 0..(LimitHorizon + Jitter) :
          Cardinality({a \in admitted : a.arrives >= t /\ a.arrives < t + ServerWindow}) <= WindowLimit
  BY <1>1, WindowIsKept
<1>3. ASSUME NEW b \in Buckets, NEW from \in 0..redisTime, NEW to \in from..redisTime
      PROVE  UnitsIn(b, from, to) * Minute <= CapOf(b) * (Minute + (to - from))
  <2>1. PICK cap \in Nat : cap = CapOf(b)
    BY LimitsAreNat DEF CapOf
  <2>2. from \in Nat /\ to \in Nat /\ from <= to
    BY <1>1
  <2>3. Units(Between(b, from, to)) * Minute <= cap * Minute + cap * (to - from)
    BY <2>1, <2>2 DEF LimitInv, BucketInv
  <2>4. cap * Minute + cap * (to - from) = cap * (Minute + (to - from))
    BY <2>1, <2>2, LimitsAreNat, Distributes
  <2>5. UnitsIn(b, from, to) = Units(Between(b, from, to))
    BY UnitsInBetween
  <2> QED BY <2>1, <2>3, <2>4, <2>5
<1> QED BY <1>2, <1>3 DEF LimitsAreKept

\* LimitsAreKept (ingest/edgar_client.py:3-6, agents/llm/ratelimit.py:44): for every number of
\* clients, every limit, capacity and cost, the SEC never counts more requests than the limit in
\* one of its windows, and no bucket lets through more than its burst and what came back.
THEOREM EveryLimitIsKept == LimitSpec => []LimitsAreKept
<1>1. LimitSpec => []LimitInv
  BY LimitsAtFirst, LimitsStay, PTL DEF LimitSpec
<1> QED BY <1>1, LimitsFollow, PTL

-----------------------------------------------------------------------------
(* DecisionWeek: the limits of the book and the floor of the weights.      *)

LEMMA SumOfIsTotal ==
    ASSUME NEW h, NEW S, IsFiniteSet(S)
    PROVE  SumOf(h, S) = Total(h, S)
<1> DEFINE Eq(f) == f = [s \in SUBSET S |->
                            IF s = {} THEN 0
                            ELSE h[CHOOSE x \in s : TRUE] + f[s \ {CHOOSE x \in s : TRUE}]]
<1>1. PICK f : IsTotal(f, h, S) /\ Total(h, S) = f[S]
  BY TotalsExist DEF Total
<1>2. SumOf(h, S) = (CHOOSE f1 : Eq(f1))[S]
  BY DEF SumOf, MapThenSumSet, MapThenFoldSet
<1>3. Eq(f)
  BY <1>1 DEF IsTotal, AnyOf
<1>4. PICK k : k = CHOOSE f1 : Eq(f1)
  OBVIOUS
<1>5. Eq(k)
  <2> HIDE DEF Eq
  <2> QED BY <1>3, <1>4
<1>6. IsTotal(k, h, S)
  BY <1>5 DEF IsTotal, AnyOf
<1>7. k[S] = f[S]
  BY <1>1, <1>6, TotalsAgree
<1> QED BY <1>1, <1>2, <1>4, <1>7

LEMMA Divides ==
    ASSUME NEW a \in Nat, NEW b \in Nat \ {0}
    PROVE  a \div b \in Nat /\ (a \div b) * b <= a /\ a < ((a \div b) + 1) * b
OBVIOUS
LEMMA DividesWhole ==
    ASSUME NEW b \in Nat \ {0}
    PROVE  b \div b = 1 /\ b \div 1 = b /\ b % b = 0 /\ b % 1 = 0
OBVIOUS

LEMMA Cancels ==
    ASSUME NEW a \in Nat, NEW b \in Nat, NEW c \in Nat \ {0}, a * c <= b * c
    PROVE  a <= b
<1> SUFFICES ASSUME a >= b + 1 PROVE FALSE
  OBVIOUS
<1>1. PICK e \in Nat : a = b + 1 + e
  <2>1. a - (b + 1) \in Nat /\ a = b + 1 + (a - (b + 1))
    OBVIOUS
  <2> QED BY <2>1
<1>2. a * c = b * c + c + e * c
  BY <1>1
<1>3. e * c \in Nat /\ b * c \in Nat
  OBVIOUS
<1> QED BY <1>2, <1>3

LEMMA SquaresGrow ==
    ASSUME NEW a \in Nat, NEW b \in Nat, a <= b, NEW q \in Nat
    PROVE  a * a * q <= b * b * q
<1>1. PICK e \in Nat : b = a + e
  <2>1. b - a \in Nat /\ b = a + (b - a)
    OBVIOUS
  <2> QED BY <2>1
<1>2. b * b * q = a * a * q + (2 * a * e + e * e) * q
  BY <1>1
<1>3. (2 * a * e + e * e) * q \in Nat /\ a * a * q \in Nat
  OBVIOUS
<1> QED BY <1>2, <1>3

LEMMA WeekNumbers ==
    /\ Whole \in Nat /\ TopN \in Nat /\ GateK \in Nat /\ RankTopM \in Nat /\ Gain \in Nat
    /\ MaxPosition \in 1..Whole /\ MaxSector \in 1..Whole /\ MinPosition \in 1..Whole
    /\ VolTarget \in 1..Whole /\ WeightFloor \in 1..Whole
    /\ Whole \in Nat \ {0}
<1>1. /\ Whole \in Nat /\ TopN \in Nat /\ GateK \in Nat /\ RankTopM \in Nat /\ Gain \in Nat
      /\ MaxPosition \in 1..Whole /\ MaxSector \in 1..Whole /\ MinPosition \in 1..Whole
      /\ VolTarget \in 1..Whole /\ WeightFloor \in 1..Whole
  BY WeekAssumption
<1> QED BY <1>1

\* What sizing is given, and what any stage of it makes: parts of the whole for candidates.
Forecasts ==
    /\ IsFiniteSet(candidates)
    /\ \A s \in candidates : /\ forecast[s].vol \in 1..Whole /\ forecast[s].edge \in Nat
                             /\ forecast[s].bear \in Nat
IsBook(w) == DOMAIN w \subseteq candidates /\ \A s \in DOMAIN w : w[s] \in Nat
Within(v, w) == DOMAIN v = DOMAIN w /\ \A s \in DOMAIN w : v[s] \in Nat /\ v[s] <= w[s]

PositionsFit(w) == \A s \in DOMAIN w : w[s] <= MaxPosition
SectorsFit(w) == \A sector : SumOf(w, InSector(w, sector)) <= MaxSector
RiskFits(w) == BookRisk(w) <= VolTarget * VolTarget /\ SumOf(w, DOMAIN w) <= Whole

Risks(w) == [s \in DOMAIN w |-> w[s] * w[s] * VolOf(s) * VolOf(s)]

LEMMA BookTotals ==
    ASSUME Forecasts, NEW w, IsBook(w)
    PROVE  /\ \A S \in SUBSET DOMAIN w :
                 IsFiniteSet(S) /\ SumOf(w, S) = Total(w, S) /\ SumOf(w, S) \in Nat
           /\ BookRisk(w) = Total(Risks(w), DOMAIN w) /\ BookRisk(w) \in Nat
           /\ \A s \in DOMAIN w : Risks(w)[s] \in Nat /\ VolOf(s) \in Nat
<1>1. ASSUME NEW S \in SUBSET DOMAIN w
      PROVE  IsFiniteSet(S) /\ SumOf(w, S) = Total(w, S) /\ SumOf(w, S) \in Nat
  <2>1. IsFiniteSet(S)
    BY FS_Subset DEF Forecasts, IsBook
  <2>2. SumOf(w, S) = Total(w, S)
    BY <2>1, SumOfIsTotal
  <2>3. Total(w, S) \in Nat
    BY <2>1, TotalIsNat DEF IsBook
  <2> QED BY <2>1, <2>2, <2>3
<1>2. \A s \in DOMAIN w : VolOf(s) \in Nat
  BY WeekNumbers DEF Forecasts, IsBook, VolOf
<1>3. \A s \in DOMAIN w : Risks(w)[s] \in Nat
  BY <1>2 DEF Risks, IsBook
<1>4. BookRisk(w) = SumOf(Risks(w), DOMAIN w)
  BY DEF BookRisk, Risks
<1>5. BookRisk(w) = Total(Risks(w), DOMAIN w) /\ Total(Risks(w), DOMAIN w) \in Nat
  BY <1>1, <1>3, <1>4, SumOfIsTotal, TotalIsNat
<1> QED BY <1>1, <1>2, <1>3, <1>5

\* Smaller positions keep every limit.
LEMMA WithinKeeps ==
    ASSUME Forecasts, NEW w, IsBook(w), NEW v, Within(v, w)
    PROVE  /\ IsBook(v)
           /\ PositionsFit(w) => PositionsFit(v)
           /\ SectorsFit(w) => SectorsFit(v)
           /\ RiskFits(w) => RiskFits(v)
<1>1. IsBook(v)
  BY DEF IsBook, Within
<1>2. \A S \in SUBSET DOMAIN w : SumOf(v, S) <= SumOf(w, S) /\ SumOf(v, S) \in Nat /\ SumOf(w, S) \in Nat
  <2> SUFFICES ASSUME NEW S \in SUBSET DOMAIN w
               PROVE  SumOf(v, S) <= SumOf(w, S) /\ SumOf(v, S) \in Nat /\ SumOf(w, S) \in Nat
    OBVIOUS
  <2>1. S \in SUBSET DOMAIN v
    BY DEF Within
  <2>2. /\ IsFiniteSet(S) /\ SumOf(v, S) = Total(v, S) /\ SumOf(w, S) = Total(w, S)
        /\ SumOf(v, S) \in Nat /\ SumOf(w, S) \in Nat
    BY <1>1, <2>1, BookTotals
  <2>3. Total(v, S) <= Total(w, S)
    BY <2>2, TotalSmaller DEF Within, IsBook
  <2> QED BY <2>2, <2>3
<1>3. PositionsFit(w) => PositionsFit(v)
  BY WeekNumbers DEF PositionsFit, Within, IsBook
<1>4. SectorsFit(w) => SectorsFit(v)
  <2> SUFFICES ASSUME SectorsFit(w), NEW sector PROVE SumOf(v, InSector(v, sector)) <= MaxSector
    BY DEF SectorsFit
  <2>1. InSector(v, sector) = InSector(w, sector) /\ InSector(w, sector) \in SUBSET DOMAIN w
    BY DEF InSector, Within
  <2>2. SumOf(v, InSector(v, sector)) = SumOf(v, InSector(w, sector))
    BY <2>1, Zenon
  <2>3. SumOf(w, InSector(w, sector)) <= MaxSector
    BY DEF SectorsFit
  <2>4. PICK S \in SUBSET DOMAIN w : S = InSector(w, sector)
    BY <2>1
  <2> QED BY <1>2, <2>2, <2>3, <2>4, WeekNumbers
<1>5. BookRisk(v) <= BookRisk(w)
  <2>1. ASSUME NEW s \in DOMAIN w PROVE Risks(v)[s] <= Risks(w)[s]
    <3>1. PICK a, b, q \in Nat : a = v[s] /\ b = w[s] /\ q = VolOf(s) * VolOf(s) /\ a <= b
      BY BookTotals DEF Within, IsBook
    <3>2. a * a * q <= b * b * q
      BY <3>1, SquaresGrow
    <3>3. Risks(v)[s] = a * a * VolOf(s) * VolOf(s) /\ Risks(w)[s] = b * b * VolOf(s) * VolOf(s)
      BY <3>1 DEF Risks, Within
    <3>4. VolOf(s) \in Nat
      BY BookTotals
    <3> QED BY <3>1, <3>2, <3>3, <3>4
  <2>2. /\ IsFiniteSet(DOMAIN w) /\ DOMAIN v = DOMAIN w
        /\ \A s \in DOMAIN w : Risks(v)[s] \in Nat /\ Risks(w)[s] \in Nat
        /\ BookRisk(v) = Total(Risks(v), DOMAIN w) /\ BookRisk(w) = Total(Risks(w), DOMAIN w)
    BY <1>1, BookTotals DEF Within
  <2> QED BY <2>1, <2>2, TotalSmaller
<1>6. RiskFits(w) => RiskFits(v)
  <2>1. BookRisk(v) \in Nat /\ BookRisk(w) \in Nat
    BY <1>1, BookTotals
  <2>2. SumOf(v, DOMAIN v) <= SumOf(w, DOMAIN w) /\ SumOf(v, DOMAIN v) \in Nat /\ SumOf(w, DOMAIN w) \in Nat
    BY <1>2 DEF Within
  <2>3. PICK t \in Nat : t = VolTarget * VolTarget
    BY WeekNumbers
  <2> QED BY <1>5, <2>1, <2>2, <2>3, WeekNumbers DEF RiskFits
<1> QED BY <1>1, <1>3, <1>4, <1>6

LEMMA PositionsAreCapped ==
    ASSUME NEW w, IsBook(w)
    PROVE  IsBook(CapPositions(w)) /\ PositionsFit(CapPositions(w))
BY WeekNumbers DEF IsBook, PositionsFit, CapPositions, Min2

LEMMA SectorsAreCapped ==
    ASSUME Forecasts, NEW w, IsBook(w)
    PROVE  Within(CapSectors(w), w) /\ SectorsFit(CapSectors(w))
<1> DEFINE v == CapSectors(w)
           Names(sector) == InSector(w, sector)
           T(sector) == SumOf(w, Names(sector))
<1>1. \A sector : Names(sector) \in SUBSET DOMAIN w
  BY DEF InSector
<1>2. \A sector : T(sector) \in Nat /\ T(sector) = Total(w, Names(sector)) /\ IsFiniteSet(Names(sector))
  BY <1>1, BookTotals
<1>3. ASSUME NEW s \in DOMAIN w, NEW sector, forecast[s].sector = sector
      PROVE  /\ T(sector) <= MaxSector => v[s] = w[s]
             /\ T(sector) > MaxSector => /\ v[s] * T(sector) <= w[s] * MaxSector
                                         /\ v[s] \in Nat /\ v[s] <= w[s]
  <2>1. PICK t \in Nat : t = T(sector)
    BY <1>2
  <2>2. v[s] = IF t <= MaxSector THEN w[s] ELSE Times(w[s], MaxSector, t)
    BY <1>3, <2>1 DEF CapSectors
  <2>3. PICK a \in Nat : a = w[s]
    BY DEF IsBook
  <2>4. MaxSector \in Nat
    BY WeekNumbers
  <2>5. ASSUME t > MaxSector
        PROVE  v[s] * t <= a * MaxSector /\ v[s] \in Nat /\ v[s] <= a
    <3>1. PICK d \in Nat : d = (a * MaxSector) \div t /\ d * t <= a * MaxSector
      BY <2>4, <2>5, Divides
    <3>2. v[s] = d
      BY <2>2, <2>3, <2>4, <2>5, <3>1 DEF Times
    <3>3. a * MaxSector <= a * t
      BY <2>4, <2>5
    <3>4. d * t <= a * t
      <4>1. d * t \in Nat /\ a * MaxSector \in Nat /\ a * t \in Nat
        BY <2>4
      <4> QED BY <3>1, <3>3, <4>1
    <3>5. d <= a
      BY <2>4, <2>5, <3>4, Cancels
    <3> QED BY <3>1, <3>2, <3>5
  <2> QED BY <2>1, <2>2, <2>3, <2>4, <2>5
<1>4. DOMAIN v = DOMAIN w
  BY DEF CapSectors
<1>5. Within(v, w)
  <2> SUFFICES ASSUME NEW s \in DOMAIN w PROVE v[s] \in Nat /\ v[s] <= w[s]
    BY <1>4 DEF Within
  <2>1. PICK sector : sector = forecast[s].sector
    OBVIOUS
  <2>2. w[s] \in Nat /\ T(sector) \in Nat /\ MaxSector \in Nat
    BY <1>2, WeekNumbers DEF IsBook
  <2> HIDE DEF v, T
  <2> QED BY <1>3, <2>1, <2>2
<1>6. ASSUME NEW sector PROVE SumOf(v, InSector(v, sector)) <= MaxSector
  <2>1. InSector(v, sector) = Names(sector)
    BY <1>4 DEF InSector
  <2>2. SumOf(v, InSector(v, sector)) = SumOf(v, Names(sector))
    BY <2>1, Zenon
  <2>3. IsBook(v)
    BY <1>5, WithinKeeps
  <2>4. SumOf(v, Names(sector)) = Total(v, Names(sector)) /\ SumOf(v, Names(sector)) \in Nat
    BY <1>1, <1>4, <2>3, BookTotals
  <2>5. \A s \in Names(sector) : s \in DOMAIN w /\ forecast[s].sector = sector /\ v[s] \in Nat /\ w[s] \in Nat
    BY <1>5 DEF InSector, Within, IsBook
  <2>6. CASE T(sector) <= MaxSector
    <3>1. \A s \in Names(sector) : v[s] = w[s]
      BY <1>3, <2>5, <2>6
    <3>2. Total(v, Names(sector)) = Total(w, Names(sector))
      BY <1>2, <3>1, TotalSame
    <3> QED BY <1>2, <2>2, <2>4, <2>6, <3>2
  <2>7. CASE T(sector) > MaxSector
    <3>1. PICK t \in Nat : t = T(sector) /\ t > MaxSector
      BY <1>2, <2>7
    <3>2. \A s \in Names(sector) : v[s] \in Nat /\ w[s] \in Nat /\ v[s] * t <= w[s] * MaxSector
      BY <1>3, <2>5, <2>7, <3>1
    <3>3. Total(v, Names(sector)) * t <= Total(w, Names(sector)) * MaxSector
      BY <1>2, <3>2, TotalRatio, WeekNumbers
    <3>4. PICK x \in Nat : x = SumOf(v, Names(sector)) /\ x * t <= t * MaxSector
      BY <1>2, <2>4, <3>1, <3>3
    <3>5. t \in Nat \ {0} /\ MaxSector \in Nat /\ t * MaxSector = MaxSector * t
      BY <3>1, WeekNumbers
    <3>6. x <= MaxSector
      BY <3>4, <3>5, Cancels
    <3> QED BY <2>2, <3>4, <3>6
  <2> QED BY <1>2, <2>6, <2>7, WeekNumbers
<1> QED BY <1>5, <1>6 DEF SectorsFit

LEMMA DustIsDropped ==
    ASSUME NEW w, IsBook(w)
    PROVE  /\ Within(DropDust(w), w)
           /\ \A s \in DOMAIN w : DropDust(w)[s] = 0 \/ DropDust(w)[s] >= MinPosition
BY WeekNumbers DEF IsBook, Within, DropDust

\* The book is scaled by as much as the volatility and the whole allow.
LEMMA ScaleFits ==
    ASSUME Forecasts, NEW w, IsBook(w)
    PROVE  /\ ScaleFactor(w) \in 0..Whole
           /\ ScaleFactor(w) * ScaleFactor(w) * BookRisk(w) <= VolTarget * VolTarget * Whole * Whole
           /\ ScaleFactor(w) * SumOf(w, DOMAIN w) <= Whole * Whole
<1> DEFINE K == {k \in 0..Whole :
                    /\ k * k * BookRisk(w) <= VolTarget * VolTarget * Whole * Whole
                    /\ k * SumOf(w, DOMAIN w) <= Whole * Whole}
<1>1. ScaleFactor(w) = CHOOSE x \in K : \A y \in K : x >= y
  BY DEF ScaleFactor, Max
<1>2. 0 \in K
  <2>1. BookRisk(w) \in Nat /\ SumOf(w, DOMAIN w) \in Nat
    BY BookTotals
  <2>2. 0 * 0 * BookRisk(w) = 0 /\ 0 * SumOf(w, DOMAIN w) = 0
    BY <2>1
  <2>3. VolTarget * VolTarget * Whole * Whole \in Nat /\ Whole * Whole \in Nat /\ 0 \in 0..Whole
    BY WeekNumbers
  <2> QED BY <2>2, <2>3
<1>3. \E x \in K : \A y \in K : y <= x
  <2>1. K \in SUBSET (0..Whole) /\ K # {} /\ Whole \in Nat
    BY <1>2, WeekNumbers
  <2> HIDE DEF K
  <2> QED BY <2>1, GreatestExists
<1>4. \E x \in K : \A y \in K : x >= y
  <2>1. \A x, y \in K : x \in Int /\ y \in Int
    BY WeekNumbers
  <2> HIDE DEF K
  <2> QED BY <1>3, <2>1
<1>5. ScaleFactor(w) \in K
  <2> HIDE DEF K
  <2> QED BY <1>1, <1>4
<1> QED BY <1>5

LEMMA ScaledFits ==
    ASSUME Forecasts, NEW w, IsBook(w)
    PROVE  Within(ScaleBook(w), w) /\ RiskFits(ScaleBook(w))
<1>1. PICK k \in 0..Whole : k = ScaleFactor(w)
  BY ScaleFits
<1>2. PICK v : v = ScaleBook(w)
  OBVIOUS
<1>3. DOMAIN v = DOMAIN w /\ \A s \in DOMAIN w : v[s] = (w[s] * k) \div Whole
  BY <1>1, <1>2 DEF ScaleBook, Times
<1>4. Whole \in Nat \ {0} /\ k \in Nat /\ k <= Whole /\ VolTarget \in Nat
  BY WeekNumbers
<1>5. ASSUME NEW s \in DOMAIN w
      PROVE  /\ v[s] \in Nat /\ v[s] * Whole <= w[s] * k /\ v[s] <= w[s] /\ w[s] \in Nat
             /\ Risks(v)[s] * (Whole * Whole) <= Risks(w)[s] * (k * k)
  <2>1. PICK a \in Nat : a = w[s]
    BY DEF IsBook
  <2>2. PICK b \in Nat : b = v[s] /\ b * Whole <= a * k
    <3>1. PICK c \in Nat : c = a * k
      BY <1>4
    <3>2. c \div Whole \in Nat /\ (c \div Whole) * Whole <= c
      BY <1>4, <3>1, Divides
    <3>3. v[s] = c \div Whole
      BY <1>3, <2>1, <3>1
    <3> QED BY <3>1, <3>2, <3>3
  <2>3. a * k <= a * Whole /\ a * k \in Nat /\ a * Whole \in Nat /\ b * Whole \in Nat
    BY <1>4, Monotone
  <2>4. b <= a
    BY <1>4, <2>2, <2>3, Cancels
  <2>5. PICK q \in Nat : q = VolOf(s)
    BY BookTotals
  <2>6. (b * Whole) * (b * Whole) * (q * q) <= (a * k) * (a * k) * (q * q)
    BY <2>2, <2>3, SquaresGrow
  <2>7. Risks(v)[s] = b * b * q * q /\ Risks(w)[s] = a * a * q * q
    BY <1>3, <2>1, <2>2, <2>5 DEF Risks
  <2>8. /\ b * b * q * q * (Whole * Whole) = (b * Whole) * (b * Whole) * (q * q)
        /\ a * a * q * q * (k * k) = (a * k) * (a * k) * (q * q)
    BY <1>4
  <2> QED BY <2>1, <2>2, <2>4, <2>6, <2>7, <2>8
<1>6. Within(v, w)
  BY <1>3, <1>5 DEF Within
<1>7. IsBook(v)
  BY <1>6, WithinKeeps
<1>8. SumOf(v, DOMAIN v) <= Whole
  <2>1. /\ SumOf(v, DOMAIN v) = Total(v, DOMAIN w) /\ SumOf(w, DOMAIN w) = Total(w, DOMAIN w)
        /\ IsFiniteSet(DOMAIN w)
    BY <1>3, <1>7, BookTotals
  <2>2. Total(v, DOMAIN w) * Whole <= Total(w, DOMAIN w) * k
    BY <1>4, <1>5, <2>1, TotalRatio
  <2>3. PICK x, y \in Nat : x = SumOf(v, DOMAIN v) /\ y = SumOf(w, DOMAIN w)
    BY <1>7, BookTotals
  <2>4. k * y <= Whole * Whole
    BY <1>1, <2>3, ScaleFits
  <2>5. x * Whole <= y * k /\ y * k = k * y /\ k * y \in Nat /\ x * Whole \in Nat
    BY <1>4, <2>1, <2>2, <2>3
  <2>6. x * Whole <= Whole * Whole
    BY <1>4, <2>4, <2>5
  <2> QED BY <1>4, <2>3, <2>6, Cancels
<1>9. BookRisk(v) <= VolTarget * VolTarget
  <2>1. /\ BookRisk(v) = Total(Risks(v), DOMAIN w) /\ BookRisk(w) = Total(Risks(w), DOMAIN w)
        /\ IsFiniteSet(DOMAIN w) /\ BookRisk(v) \in Nat /\ BookRisk(w) \in Nat
        /\ \A s \in DOMAIN w : Risks(v)[s] \in Nat /\ Risks(w)[s] \in Nat
    BY <1>3, <1>7, BookTotals
  <2>2. k * k \in Nat /\ Whole * Whole \in Nat \ {0}
    BY <1>4
  <2>3. Total(Risks(v), DOMAIN w) * (Whole * Whole) <= Total(Risks(w), DOMAIN w) * (k * k)
    BY <1>5, <2>1, <2>2, TotalRatio
  <2>4. PICK x, y \in Nat : x = BookRisk(v) /\ y = BookRisk(w)
    BY <2>1
  <2>5. k * k * y <= VolTarget * VolTarget * Whole * Whole
    BY <1>1, <2>4, ScaleFits
  <2>6. PICK square, whole, target \in Nat :
           square = k * k /\ whole = Whole * Whole /\ target = VolTarget * VolTarget /\ whole # 0
    BY <1>4, <2>2
  <2>7. x * whole <= y * square
    BY <2>1, <2>3, <2>4, <2>6
  <2>8. square * y <= target * whole
    <3>1. VolTarget * VolTarget * Whole * Whole = (VolTarget * VolTarget) * (Whole * Whole)
      BY <1>4
    <3> QED BY <2>5, <2>6, <3>1
  <2>9. x * whole <= target * whole
    BY <2>7, <2>8
  <2>10. x <= target
    BY <2>6, <2>9, Cancels
  <2> QED BY <2>4, <2>6, <2>10
<1> QED BY <1>2, <1>6, <1>8, <1>9 DEF RiskFits

-----------------------------------------------------------------------------
(* DecisionWeek: the weights of the pool.                                  *)

Stops(raw, P) == FreeWeight(raw, P) = 0 \/ BelowFloor(raw, P) = {}
More(raw, P) == P \cup BelowFloor(raw, P)

\* From P, pinning comes to E, where it stops.
PinsUpTo(raw, P, E) ==
    \E n \in Nat : \E g \in [0..n -> SUBSET DOMAIN raw] :
        /\ g[0] = P /\ g[n] = E /\ Stops(raw, E)
        /\ \A i \in 0..(n - 1) : ~Stops(raw, g[i]) /\ g[i + 1] = More(raw, g[i])
PinEnds(raw, P) == {E \in SUBSET DOMAIN raw : PinsUpTo(raw, P, E)}

LEMMA PinningStops ==
    ASSUME NEW raw, NEW P \in SUBSET DOMAIN raw, Stops(raw, P)
    PROVE  PinEnds(raw, P) = {P}
<1>1. ASSUME NEW E, PinsUpTo(raw, P, E) PROVE E = P
  <2>0. PICK n \in Nat : \E f \in [0..n -> SUBSET DOMAIN raw] :
        /\ f[0] = P /\ f[n] = E /\ Stops(raw, E)
        /\ \A i \in 0..(n - 1) : ~Stops(raw, f[i]) /\ f[i + 1] = More(raw, f[i])
    BY <1>1 DEF PinsUpTo
  <2>1. PICK g \in [0..n -> SUBSET DOMAIN raw] :
        /\ g[0] = P /\ g[n] = E /\ Stops(raw, E)
        /\ \A i \in 0..(n - 1) : ~Stops(raw, g[i]) /\ g[i + 1] = More(raw, g[i])
    BY <2>0
  <2>2. n = 0
    <3>1. n > 0 => 0 \in 0..(n - 1)
      OBVIOUS
    <3> QED BY <2>1, <3>1
  <2> QED BY <2>1, <2>2
<1>2. PinsUpTo(raw, P, P)
  <2> DEFINE g == [i \in 0..0 |-> P]
  <2>1. /\ g \in [0..0 -> SUBSET DOMAIN raw] /\ g[0] = P
        /\ \A i \in 0..(0 - 1) : ~Stops(raw, g[i]) /\ g[i + 1] = More(raw, g[i])
    OBVIOUS
  <2> HIDE DEF g
  <2>2. \E n \in Nat : \E f \in [0..n -> SUBSET DOMAIN raw] :
        /\ f[0] = P /\ f[n] = P /\ Stops(raw, P)
        /\ \A i \in 0..(n - 1) : ~Stops(raw, f[i]) /\ f[i + 1] = More(raw, f[i])
    BY <2>1
  <2> QED BY <2>2 DEF PinsUpTo
<1> QED BY <1>1, <1>2 DEF PinEnds

LEMMA PinningGoesOn ==
    ASSUME NEW raw, NEW P \in SUBSET DOMAIN raw, ~Stops(raw, P)
    PROVE  PinEnds(raw, P) = PinEnds(raw, More(raw, P)) /\ More(raw, P) \in SUBSET DOMAIN raw
<1>0. More(raw, P) \in SUBSET DOMAIN raw
  BY DEF More, BelowFloor
<1>1. ASSUME NEW E, PinsUpTo(raw, P, E) PROVE PinsUpTo(raw, More(raw, P), E)
  <2>0. PICK n \in Nat : \E f \in [0..n -> SUBSET DOMAIN raw] :
        /\ f[0] = P /\ f[n] = E /\ Stops(raw, E)
        /\ \A i \in 0..(n - 1) : ~Stops(raw, f[i]) /\ f[i + 1] = More(raw, f[i])
    BY <1>1 DEF PinsUpTo
  <2>1. PICK g \in [0..n -> SUBSET DOMAIN raw] :
        /\ g[0] = P /\ g[n] = E /\ Stops(raw, E)
        /\ \A i \in 0..(n - 1) : ~Stops(raw, g[i]) /\ g[i + 1] = More(raw, g[i])
    BY <2>0
  <2>2. n # 0
    BY <2>1
  <2>3. PICK k \in Nat : n = k + 1
    <3>1. n - 1 \in Nat /\ n = (n - 1) + 1
      BY <2>2
    <3> QED BY <3>1
  <2> DEFINE f == [i \in 0..k |-> g[i + 1]]
  <2>4. f \in [0..k -> SUBSET DOMAIN raw]
    BY <2>3
  <2>5. f[0] = More(raw, P) /\ f[k] = E
    <3>1. 0 \in 0..(n - 1) /\ 0 + 1 = 1 /\ g[0 + 1] = More(raw, g[0])
      BY <2>1, <2>3
    <3>2. f[0] = g[0 + 1] /\ f[k] = g[k + 1]
      OBVIOUS
    <3> QED BY <2>1, <2>3, <3>1, <3>2
  <2>6. ASSUME NEW i \in 0..(k - 1) PROVE ~Stops(raw, f[i]) /\ f[i + 1] = More(raw, f[i])
    <3>1. i + 1 \in 0..(n - 1) /\ f[i] = g[i + 1] /\ f[i + 1] = g[(i + 1) + 1]
      BY <2>3
    <3> QED BY <2>1, <3>1
  <2> HIDE DEF f
  <2> QED BY <2>1, <2>4, <2>5, <2>6 DEF PinsUpTo
<1>2. ASSUME NEW E, PinsUpTo(raw, More(raw, P), E) PROVE PinsUpTo(raw, P, E)
  <2>0. PICK n \in Nat : \E f \in [0..n -> SUBSET DOMAIN raw] :
        /\ f[0] = More(raw, P) /\ f[n] = E /\ Stops(raw, E)
        /\ \A i \in 0..(n - 1) : ~Stops(raw, f[i]) /\ f[i + 1] = More(raw, f[i])
    BY <1>2 DEF PinsUpTo
  <2>1. PICK g \in [0..n -> SUBSET DOMAIN raw] :
        /\ g[0] = More(raw, P) /\ g[n] = E /\ Stops(raw, E)
        /\ \A i \in 0..(n - 1) : ~Stops(raw, g[i]) /\ g[i + 1] = More(raw, g[i])
    BY <2>0
  <2> DEFINE f == [i \in 0..(n + 1) |-> IF i = 0 THEN P ELSE g[i - 1]]
  <2>2. f \in [0..(n + 1) -> SUBSET DOMAIN raw]
    OBVIOUS
  <2>3. f[0] = P /\ f[n + 1] = E
    BY <2>1
  <2>4. ASSUME NEW i \in 0..((n + 1) - 1) PROVE ~Stops(raw, f[i]) /\ f[i + 1] = More(raw, f[i])
    <3>1. f[i + 1] = g[i]
      OBVIOUS
    <3>2. CASE i = 0
      BY <2>1, <3>1, <3>2
    <3>3. CASE i # 0
      <4>1. i - 1 \in 0..(n - 1) /\ (i - 1) + 1 = i /\ f[i] = g[i - 1]
        BY <3>3
      <4> QED BY <2>1, <3>1, <4>1
    <3> QED BY <3>2, <3>3
  <2> HIDE DEF f
  <2>5. n + 1 \in Nat
    OBVIOUS
  <2> QED BY <2>1, <2>2, <2>3, <2>4, <2>5 DEF PinsUpTo
<1> QED BY <1>0, <1>1, <1>2 DEF PinEnds

\* Pinning comes to an end: every round that does not stop pins somebody.
LEMMA PinnedIsStable ==
    ASSUME NEW raw, IsFiniteSet(DOMAIN raw)
    PROVE  Pinned(raw) \in SUBSET DOMAIN raw /\ Stops(raw, Pinned(raw))
<1> DEFINE D == DOMAIN raw
           Eq(f) == f = [P \in SUBSET DOMAIN raw |->
                            IF FreeWeight(raw, P) = 0 \/ BelowFloor(raw, P) = {} THEN P
                            ELSE f[P \cup BelowFloor(raw, P)]]
           h == [P \in SUBSET D |-> AnyOf(PinEnds(raw, P))]
<1>1. Eq(h)
  <2> SUFFICES ASSUME NEW P \in SUBSET D
               PROVE  h[P] = IF Stops(raw, P) THEN P ELSE h[More(raw, P)]
    BY DEF Stops, More
  <2>1. CASE Stops(raw, P)
    <3>1. PinEnds(raw, P) = {P}
      BY <2>1, PinningStops
    <3>2. AnyOf(PinEnds(raw, P)) \in {P}
      BY <3>1 DEF AnyOf
    <3> QED BY <2>1, <3>2
  <2>2. CASE ~Stops(raw, P)
    <3>1. PinEnds(raw, P) = PinEnds(raw, More(raw, P)) /\ More(raw, P) \in SUBSET D
      BY <2>2, PinningGoesOn
    <3>2. AnyOf(PinEnds(raw, P)) = AnyOf(PinEnds(raw, More(raw, P)))
      BY <3>1, Zenon
    <3> QED BY <2>2, <3>1, <3>2
  <2> QED BY <2>1, <2>2
<1>2. PICK k : k = CHOOSE f : Eq(f)
  OBVIOUS
<1>3. Eq(k)
  <2> HIDE DEF h, Eq
  <2> QED BY <1>1, <1>2
<1>4. PICK start \in SUBSET D : Pinned(raw) = k[start]
  <2>1. Pinned(raw) = k[{a \in DOMAIN raw : raw[a] < WeightFloor}]
    BY <1>2 DEF Pinned
  <2> QED BY <2>1
<1>5. \A P \in SUBSET D : k[P] = IF Stops(raw, P) THEN P ELSE k[More(raw, P)]
  BY <1>3 DEF Stops, More
<1> DEFINE Ok(P) == k[P] \in SUBSET D /\ Stops(raw, k[P])
           C == {r \in SUBSET D : ~Ok(D \ r)}
<1>6. C = {}
  <2> SUFFICES ASSUME C # {} PROVE FALSE
    OBVIOUS
  <2>1. \A r \in C : IsFiniteSet(r)
    BY FS_Subset
  <2>2. PICK r \in C : \A t \in C : ~(Cardinality(t) < Cardinality(r))
    BY <2>1, SmallestSet
  <2>3. PICK P \in SUBSET D : P = D \ r
    OBVIOUS
  <2>4. ~Ok(P) /\ r \in SUBSET D /\ IsFiniteSet(r)
    BY <2>1, <2>3
  <2>5. ~Stops(raw, P)
    BY <1>5, <2>4
  <2>6. PICK a \in D \ P : a \in BelowFloor(raw, P)
    BY <2>5 DEF Stops, BelowFloor
  <2>7. PICK t \in SUBSET D : t = r \ BelowFloor(raw, P)
    BY <2>4
  <2>8. t \subseteq r \ {a} /\ a \in r
    BY <2>3, <2>6, <2>7
  <2>9. Cardinality(t) < Cardinality(r)
    <3>1. IsFiniteSet(r \ {a}) /\ Cardinality(r \ {a}) < Cardinality(r)
      BY <2>4, <2>8, RemovalShrinks
    <3>2. Cardinality(t) <= Cardinality(r \ {a}) /\ IsFiniteSet(t)
      BY <2>8, <3>1, FS_Subset
    <3> QED BY <2>4, <3>1, <3>2, FS_CardinalityType
  <2>10. Ok(D \ t)
    BY <2>2, <2>7, <2>9
  <2>11. D \ t = More(raw, P)
    BY <2>3, <2>4, <2>7 DEF More, BelowFloor
  <2>12. k[P] = k[D \ t]
    BY <1>5, <2>5, <2>11
  <2> QED BY <2>4, <2>10, <2>12
<1>7. Ok(start)
  <2>1. D \ (D \ start) = start /\ D \ start \in SUBSET D
    OBVIOUS
  <2> HIDE DEF Ok
  <2>2. Ok(D \ (D \ start))
    BY <1>6, <2>1
  <2> QED BY <2>1, <2>2, Zenon
<1> QED BY <1>4, <1>7

LEMMA FloorIsKept ==
    ASSUME DOMAIN poolWeights \subseteq Agents, \A a \in DOMAIN poolWeights : poolWeights[a] \in Nat
    PROVE  WeightsKeepTheFloor
<1> SUFFICES ASSUME DOMAIN poolWeights # {} PROVE WeightsKeepTheFloor
  BY DEF WeightsKeepTheFloor
<1>1. PICK raw, D, P, w : /\ raw = poolWeights /\ D = DOMAIN poolWeights /\ P = Pinned(poolWeights)
                         /\ w = ApplyFloor(poolWeights)
  OBVIOUS
<1>2. /\ IsFiniteSet(D) /\ D # {} /\ D \subseteq Agents /\ \A a \in D : raw[a] \in Nat
      /\ D = DOMAIN raw
  BY <1>1, WeekAssumption, FS_Subset
<1>3. P \in SUBSET D /\ Stops(raw, P)
  BY <1>1, <1>2, PinnedIsStable
<1>4. PICK n, p, f \in Nat : n = Cardinality(D) /\ p = Cardinality(P) /\ f = WeightFloor
  BY <1>2, <1>3, FS_Subset, FS_CardinalityType, WeekNumbers
<1>5. n # 0
  BY <1>2, <1>4, FS_EmptySet
<1>6. p <= n /\ f * n <= Whole /\ f * p <= Whole
  <2>1. p <= n
    BY <1>2, <1>3, <1>4, FS_Subset
  <2>2. n <= Cardinality(Agents) /\ Cardinality(Agents) \in Nat /\ f * Cardinality(Agents) <= Whole
    BY <1>2, <1>4, FS_Subset, FS_CardinalityType, WeekAssumption
  <2>3. f * n <= f * Cardinality(Agents) /\ f * p <= f * n
    BY <2>1, <2>2, Monotone
  <2>4. f * n \in Nat /\ f * p \in Nat /\ f * Cardinality(Agents) \in Nat
    BY <2>2
  <2> QED BY <2>1, <2>2, <2>3, <2>4, WeekNumbers
<1>7. PICK left \in Nat : left = LeftForFree(P) /\ f * p + left = Whole
  <2>1. f * p \in Nat /\ Whole \in Nat /\ LeftForFree(P) = Whole - f * p
    BY <1>4, WeekNumbers DEF LeftForFree
  <2> QED BY <1>6, <2>1
<1>8. /\ IsFiniteSet(D \ P) /\ FreeWeight(raw, P) = Total(raw, D \ P)
      /\ FreeWeight(raw, P) \in Nat
  <2>1. IsFiniteSet(D \ P)
    BY <1>2, FS_Subset
  <2>2. FreeWeight(raw, P) = Total(raw, D \ P)
    BY <1>2, <2>1, SumOfIsTotal DEF FreeWeight
  <2> QED BY <1>2, <2>1, <2>2, TotalIsNat
<1>9. PICK free \in Nat : free = FreeWeight(raw, P)
  BY <1>8
<1> DEFINE common == Max({w[a][2] : a \in D})
           h == [a \in D |-> w[a][1] * (common \div w[a][2])]
           Goal == /\ \A a \in D : w[a][1] >= WeightFloor * w[a][2] /\ common % w[a][2] = 0
                   /\ SumOf(h, D) = Whole * common
<1>10. Goal => WeightsKeepTheFloor
  BY <1>1 DEF WeightsKeepTheFloor
<1>11. SumOf(h, D) = Total(h, D)
  BY <1>2, SumOfIsTotal
<1>12. CASE free = 0
  <2>1. \A a \in D : w[a] = <<Whole, n>>
    BY <1>1, <1>2, <1>4, <1>9, <1>12 DEF ApplyFloor
  <2>2. {w[a][2] : a \in D} = {n}
    BY <1>2, <2>1
  <2>3. common = n
    BY <2>2 DEF Max
  <2>4. n \div n = 1 /\ n % n = 0
    BY <1>5, DividesWhole
  <2>5. \A a \in D : h[a] = Whole
    BY <2>1, <2>3, <2>4, WeekNumbers
  <2>6. Total(h, D) = Whole * n
    <3> HIDE DEF h
    <3> QED BY <1>2, <1>4, <2>5, TotalConstant, WeekNumbers
  <2>7. \A a \in D : w[a][1] >= WeightFloor * w[a][2] /\ common % w[a][2] = 0
    BY <1>4, <1>6, <2>1, <2>3, <2>4
  <2> QED BY <1>10, <1>11, <2>3, <2>6, <2>7
<1>13. CASE free # 0
  <2>1. \A a \in P : w[a] = <<f, 1>>
    BY <1>1, <1>2, <1>3, <1>4, <1>9, <1>13 DEF ApplyFloor
  <2>2. \A a \in D \ P : w[a] = <<raw[a] * left, free>>
    BY <1>1, <1>2, <1>7, <1>9, <1>13 DEF ApplyFloor
  <2>3. D \ P # {}
    <3>1. D \ P = {} => Total(raw, D \ P) = 0
      BY <1>8, TotalUnfolds
    <3> QED BY <1>8, <1>9, <1>13, <3>1
  <2>4. common = free
    <3> DEFINE S == {w[a][2] : a \in D}
    <3>1. free \in S /\ \A x \in S : x = 1 \/ x = free
      BY <1>3, <2>1, <2>2, <2>3
    <3>2. common = CHOOSE x \in S : \A y \in S : x >= y
      BY DEF Max
    <3> HIDE DEF S
    <3>3. \A y \in S : free >= y
      BY <1>13, <3>1
    <3>4. common \in S /\ common >= free
      BY <3>1, <3>2, <3>3
    <3>5. \A x \in Nat : x >= free /\ x = 1 => x = free
      BY <1>13
    <3> HIDE DEF common
    <3>6. common = 1 \/ common = free
      BY <3>1, <3>4
    <3> QED BY <3>4, <3>5, <3>6
  <2>5. free \div free = 1 /\ free \div 1 = free /\ free % free = 0 /\ free % 1 = 0
    BY <1>13, DividesWhole
  <2>6. ASSUME NEW a \in D PROVE w[a][1] >= WeightFloor * w[a][2] /\ common % w[a][2] = 0
    <3>1. CASE a \in P
      BY <1>4, <2>1, <2>4, <2>5, <3>1
    <3>2. CASE a \notin P
      <4>1. ~(raw[a] * left < f * free)
        BY <1>2, <1>3, <1>4, <1>7, <1>9, <1>13, <3>2 DEF Stops, BelowFloor
      <4>2. raw[a] * left \in Nat /\ f * free \in Nat
        BY <1>2
      <4> QED BY <1>4, <2>2, <2>4, <2>5, <3>2, <4>1, <4>2
    <3> QED BY <3>1, <3>2
  <2>7. \A a \in P : h[a] = f * free
    BY <1>3, <2>1, <2>4, <2>5
  <2>8. \A a \in D \ P : h[a] = raw[a] * left
    <3> SUFFICES ASSUME NEW a \in D \ P PROVE h[a] = raw[a] * left
      OBVIOUS
    <3>1. raw[a] * left \in Nat
      BY <1>2
    <3>2. h[a] = (raw[a] * left) * (free \div free)
      BY <2>2, <2>4
    <3> QED BY <2>5, <3>1, <3>2
  <2>9. \A a \in D : h[a] \in Nat
    <3>1. f * free \in Nat /\ \A a \in D : raw[a] * left \in Nat
      BY <1>2
    <3> HIDE DEF h
    <3> QED BY <2>7, <2>8, <3>1
  <2> HIDE DEF h
  <2>10. Total(h, D) = Total(h, P) + Total(h, D \ P)
    BY <1>2, <1>3, <2>9, TotalSplits
  <2>11. Total(h, P) = (f * free) * p
    <3>1. IsFiniteSet(P) /\ f * free \in Nat
      BY <1>2, <1>3, FS_Subset
    <3> QED BY <1>4, <2>7, <3>1, TotalConstant
  <2>12. Total(h, D \ P) = free * left
    <3>1. \A a \in D \ P : /\ h[a] \in Nat /\ raw[a] \in Nat
                           /\ h[a] * 1 <= raw[a] * left /\ raw[a] * left <= h[a] * 1
      BY <1>2, <2>8, <2>9
    <3>2. /\ Total(h, D \ P) * 1 <= Total(raw, D \ P) * left
          /\ Total(raw, D \ P) * left <= Total(h, D \ P) * 1
      BY <1>8, <3>1, TotalRatio
    <3>3. PICK x \in Nat : x = Total(h, D \ P)
      BY <1>8, <2>9, TotalIsNat
    <3>4. x * 1 <= free * left /\ free * left <= x * 1 /\ free * left \in Nat
      BY <1>8, <1>9, <3>2, <3>3
    <3> QED BY <3>3, <3>4
  <2>13. (f * free) * p + free * left = Whole * free
    <3>1. (f * free) * p + free * left = (f * p + left) * free
      OBVIOUS
    <3> QED BY <1>7, <3>1
  <2> QED BY <1>10, <1>11, <2>4, <2>6, <2>10, <2>11, <2>12, <2>13
<1> QED BY <1>12, <1>13

-----------------------------------------------------------------------------
(* DecisionWeek: the book that is proposed.                                *)

NoDust(w) == \A s \in DOMAIN w : w[s] = 0 \/ w[s] >= MinPosition
BookLimits(w) ==
    IsBook(w) /\ PositionsFit(w) /\ SectorsFit(w) /\ RiskFits(w) /\ NoDust(w)

LEMMA CommitteeIsLimited ==
    ASSUME Forecasts, NEW raw, IsBook(raw)
    PROVE  BookLimits(CommitteeBook(raw))
<1>1. PICK w1, w2, w3, w4, w5 :
         /\ w1 = CapPositions(raw) /\ w2 = CapSectors(w1) /\ w3 = DropDust(w2)
         /\ w4 = ScaleBook(w3) /\ w5 = DropDust(w4)
  OBVIOUS
<1>2. CommitteeBook(raw) = w5
  BY <1>1 DEF CommitteeBook
<1>3. IsBook(w1) /\ PositionsFit(w1)
  BY <1>1, PositionsAreCapped
<1>4. IsBook(w2) /\ PositionsFit(w2) /\ SectorsFit(w2)
  BY <1>1, <1>3, SectorsAreCapped, WithinKeeps
<1>5. IsBook(w3) /\ PositionsFit(w3) /\ SectorsFit(w3)
  BY <1>1, <1>4, DustIsDropped, WithinKeeps
<1>6. IsBook(w4) /\ PositionsFit(w4) /\ SectorsFit(w4) /\ RiskFits(w4)
  BY <1>1, <1>5, ScaledFits, WithinKeeps
<1>7. IsBook(w5) /\ PositionsFit(w5) /\ SectorsFit(w5) /\ RiskFits(w5)
  BY <1>1, <1>6, DustIsDropped, WithinKeeps
<1>8. NoDust(w5)
  BY <1>1, <1>6, DustIsDropped DEF NoDust, DropDust
<1> QED BY <1>2, <1>7, <1>8 DEF BookLimits

LEMMA BaselineIsLimited ==
    ASSUME Forecasts, NEW raw, IsBook(raw)
    PROVE  BookLimits(BaselineBook(raw))
<1>1. PICK w1, w2, w3, w4, w5 :
         /\ w1 = CapPositions(raw) /\ w2 = DropDust(w1) /\ w3 = CapSectors(w2)
         /\ w4 = ScaleBook(w3) /\ w5 = DropDust(w4)
  OBVIOUS
<1>2. BaselineBook(raw) = w5
  BY <1>1 DEF BaselineBook
<1>3. IsBook(w1) /\ PositionsFit(w1)
  BY <1>1, PositionsAreCapped
<1>4. IsBook(w2) /\ PositionsFit(w2)
  BY <1>1, <1>3, DustIsDropped, WithinKeeps
<1>5. IsBook(w3) /\ PositionsFit(w3) /\ SectorsFit(w3)
  BY <1>1, <1>4, SectorsAreCapped, WithinKeeps
<1>6. IsBook(w4) /\ PositionsFit(w4) /\ SectorsFit(w4) /\ RiskFits(w4)
  BY <1>1, <1>5, ScaledFits, WithinKeeps
<1>7. IsBook(w5) /\ PositionsFit(w5) /\ SectorsFit(w5) /\ RiskFits(w5)
  BY <1>1, <1>6, DustIsDropped, WithinKeeps
<1>8. NoDust(w5)
  BY <1>1, <1>6, DustIsDropped DEF NoDust, DropDust
<1> QED BY <1>2, <1>7, <1>8 DEF BookLimits

\* Neither mode divides by 0, and both give whole parts to candidates.
LEMMA RawBooks ==
    ASSUME Forecasts
    PROVE  IsBook(RankWeights) /\ IsBook(EdgeWeights)
<1>1. \A s \in candidates : /\ VolOf(s) \in Nat \ {0} /\ VolOf(s) <= Whole
                            /\ BearFactor(s) \in Nat /\ forecast[s].edge \in Nat
  BY WeekNumbers DEF Forecasts, VolOf, BearFactor
<1>2. \A s \in candidates : InverseVol(s) \in Nat /\ InverseVol(s) >= 1
  <2> SUFFICES ASSUME NEW s \in candidates PROVE InverseVol(s) \in Nat /\ InverseVol(s) >= 1
    OBVIOUS
  <2>1. PICK q \in Nat, v \in Nat \ {0} : q = InverseVol(s) /\ v <= Whole /\ Whole < (q + 1) * v
    <3>1. PICK v \in Nat \ {0} : v = VolOf(s) /\ v <= Whole
      BY <1>1
    <3>2. Whole \div v \in Nat /\ Whole < ((Whole \div v) + 1) * v
      BY WeekNumbers, Divides
    <3> QED BY <3>1, <3>2 DEF InverseVol
  <2>2. q # 0
    BY <2>1, WeekNumbers
  <2> QED BY <2>1, <2>2
<1>3. IsBook(RankWeights)
  <2>1. PICK R \in SUBSET candidates : R = Ranked /\ IsFiniteSet(R)
    <3>1. Ranked \in SUBSET candidates
      BY DEF Ranked
    <3>2. IsFiniteSet(Ranked)
      BY <3>1, FS_Subset DEF Forecasts
    <3> QED BY <3>1, <3>2
  <2>2. PICK g : g = [s \in R |-> InverseVol(s)]
    OBVIOUS
  <2>3. \A s \in R : g[s] \in Nat /\ g[s] >= 1
    BY <1>2, <2>2
  <2>4. PICK total : total = SumOf([s \in Ranked |-> InverseVol(s)], Ranked)
    OBVIOUS
  <2>5. total = Total(g, R)
    <3>1. SumOf([s \in R |-> InverseVol(s)], R) = Total([s \in R |-> InverseVol(s)], R)
      BY <2>1, SumOfIsTotal
    <3> QED BY <2>1, <2>2, <2>4, <3>1, Zenon
  <2>6. ASSUME NEW s \in R PROVE total \in Nat \ {0}
    <3>1. total = g[s] + Total(g, R \ {s})
      BY <2>1, <2>3, <2>5, TotalRemoves
    <3>2. Total(g, R \ {s}) \in Nat
      BY <2>1, <2>3, TotalIsNat, FS_Subset
    <3> QED BY <2>3, <3>1, <3>2
  <2>7. PICK w : w = RankWeights
    OBVIOUS
  <2>8. w = [s \in R |-> Times(Times(Whole, InverseVol(s), total), BearFactor(s), 100)]
    BY <2>1, <2>4, <2>7 DEF RankWeights
  <2>9. ASSUME NEW s \in R
        PROVE  Times(Times(Whole, InverseVol(s), total), BearFactor(s), 100) \in Nat
    <3>1. Whole * InverseVol(s) \in Nat
      BY <1>2, WeekNumbers
    <3>2. (Whole * InverseVol(s)) \div total \in Nat
      BY <2>6, <3>1, Divides
    <3>3. ((Whole * InverseVol(s)) \div total) * BearFactor(s) \in Nat
      BY <1>1, <3>2
    <3> QED BY <3>3, Divides DEF Times
  <2> QED BY <2>7, <2>8, <2>9 DEF IsBook
<1>4. IsBook(EdgeWeights)
  <2>1. ASSUME NEW s \in candidates
        PROVE  Times(Gain * forecast[s].edge, BearFactor(s), VolOf(s) * 100) \in Nat
    <3>1. Gain * forecast[s].edge \in Nat
      BY <1>1, WeekNumbers
    <3>2. (Gain * forecast[s].edge) * BearFactor(s) \in Nat /\ VolOf(s) * 100 \in Nat \ {0}
      BY <1>1, <3>1
    <3> QED BY <3>2, Divides DEF Times
  <2> QED BY <2>1 DEF IsBook, EdgeWeights
<1> QED BY <1>3, <1>4

\* The limits of the proposed book, from those of every position.
LEMMA LimitedBooks ==
    ASSUME Forecasts, BookLimits(book)
    PROVE  BookKeepsTheLimits
<1> DEFINE held == {s \in DOMAIN book : book[s] > 0}
<1>1. \A s \in held : book[s] \in MinPosition..MaxPosition
  BY WeekNumbers DEF BookLimits, IsBook, NoDust, PositionsFit
<1>2. \A sector \in Sectors : SumOf(book, InSector(book, sector)) <= MaxSector
  BY DEF BookLimits, SectorsFit
<1>3. SumOf(book, held) <= Whole
  <2>1. held \in SUBSET DOMAIN book
    OBVIOUS
  <2>2. IsBook(book) /\ SumOf(book, DOMAIN book) <= Whole
    BY DEF BookLimits, RiskFits
  <2> HIDE DEF held
  <2>3. /\ IsFiniteSet(DOMAIN book) /\ SumOf(book, held) = Total(book, held)
        /\ SumOf(book, DOMAIN book) = Total(book, DOMAIN book)
        /\ SumOf(book, held) \in Nat /\ SumOf(book, DOMAIN book) \in Nat
    BY <2>1, <2>2, BookTotals
  <2>4. Total(book, held) <= Total(book, DOMAIN book)
    BY <2>1, <2>2, <2>3, TotalGrows DEF IsBook
  <2> QED BY <2>2, <2>3, <2>4, WeekNumbers
<1>4. BookRisk(book) <= VolTarget * VolTarget
  BY DEF BookLimits, RiskFits
<1> QED BY <1>1, <1>2, <1>3, <1>4 DEF BookKeepsTheLimits

\* A limited book stays one while its candidates and forecasts do.
LEMMA LimitsCarryOver ==
    ASSUME BookLimits(book'), candidates' = candidates, forecast' = forecast
    PROVE  BookLimits(book)'
<1>1. IsBook(book)'
  BY DEF BookLimits, IsBook
<1>2. PositionsFit(book)' /\ NoDust(book)'
  BY DEF BookLimits, PositionsFit, NoDust
<1>3. SectorsFit(book)'
  <2>1. \A sector : InSector(book, sector)' = InSector(book', sector)
    BY DEF InSector
  <2>2. \A sector : SumOf(book', InSector(book', sector)) <= MaxSector
    BY DEF BookLimits, SectorsFit
  <2>3. \A sector : SumOf(book', InSector(book, sector)') <= MaxSector
    BY <2>1, <2>2, Zenon
  <2> QED BY <2>3 DEF SectorsFit
<1>4. RiskFits(book)'
  <2>1. Risks(book)' = Risks(book')
    BY DEF Risks, VolOf
  <2>2. SumOf(Risks(book'), DOMAIN book') <= VolTarget * VolTarget
    BY DEF BookLimits, RiskFits, BookRisk, Risks
  <2>3. SumOf(Risks(book)', DOMAIN book') <= VolTarget * VolTarget
    BY <2>1, <2>2, Zenon
  <2>4. BookRisk(book)' <= VolTarget * VolTarget
    BY <2>3 DEF BookRisk, Risks
  <2>5. SumOf(book', DOMAIN book') <= Whole
    BY DEF BookLimits, RiskFits
  <2> QED BY <2>4, <2>5 DEF RiskFits
<1> QED BY <1>1, <1>2, <1>3, <1>4 DEF BookLimits

WeekInv ==
    /\ candidates \subseteq Securities
    /\ DOMAIN poolWeights \subseteq Agents
    /\ \A a \in DOMAIN poolWeights : poolWeights[a] \in Nat
    /\ weekStage \in {"size", "proposed"} => Forecasts
    /\ weekStage = "proposed" => BookLimits(book)

LEMMA WeekStarts == WeekInit => WeekInv
BY DEF WeekInit, WeekInv

LEMMA WeekGoesOn == WeekInv /\ [WeekNext]_weekVars => WeekInv'
<1> SUFFICES ASSUME WeekInv, [WeekNext]_weekVars PROVE WeekInv'
  OBVIOUS
<1>1. CASE SnapshotUniverse
  <2>1. candidates' \subseteq candidates
    BY <1>1 DEF SnapshotUniverse, FirstOf
  <2>2. UNCHANGED poolWeights /\ weekStage' = "gate"
    BY <1>1 DEF SnapshotUniverse
  <2> QED BY <2>1, <2>2 DEF WeekInv
<1>2. CASE PassGate
  <2>1. candidates' \subseteq candidates
    BY <1>2 DEF PassGate
  <2>2. UNCHANGED poolWeights /\ weekStage' = "pool"
    BY <1>2 DEF PassGate
  <2> QED BY <2>1, <2>2 DEF WeekInv
<1>3. CASE PoolVerdicts
  <2>1. candidates' \subseteq candidates /\ weekStage' = "forecast"
    BY <1>3 DEF PoolVerdicts
  <2>2. PICK voters \in SUBSET Agents : poolWeights' \in [voters -> 0..Whole]
    BY <1>3 DEF PoolVerdicts
  <2> QED BY <2>1, <2>2, WeekNumbers DEF WeekInv
<1>4. CASE Forecast
  <2>1. candidates' = candidates /\ weekStage' = "size" /\ poolWeights' = [a \in {} |-> 0]
    BY <1>4 DEF Forecast
  <2>2. forecast' \in [candidates -> [sector : Sectors, vol : Vols, edge : Edges, bear : {50, 100}]]
    BY <1>4 DEF Forecast
  <2>3. Vols \subseteq 1..Whole /\ Edges \subseteq Nat /\ IsFiniteSet(Securities)
    BY WeekAssumption
  <2>4. IsFiniteSet(candidates)
    BY <2>3, FS_Subset DEF WeekInv
  <2>5. \A s \in candidates : /\ forecast'[s].vol \in 1..Whole /\ forecast'[s].edge \in Nat
                              /\ forecast'[s].bear \in Nat
    <3> SUFFICES ASSUME NEW s \in candidates
                 PROVE  /\ forecast'[s].vol \in 1..Whole /\ forecast'[s].edge \in Nat
                        /\ forecast'[s].bear \in Nat
      OBVIOUS
    <3>1. forecast'[s] \in [sector : Sectors, vol : Vols, edge : Edges, bear : {50, 100}]
      BY <2>2
    <3>2. forecast'[s].vol \in Vols /\ forecast'[s].edge \in Edges /\ forecast'[s].bear \in {50, 100}
      BY <3>1
    <3>3. forecast'[s].vol \in 1..Whole /\ forecast'[s].edge \in Nat
      BY <2>3, <3>2, Zenon
    <3>4. forecast'[s].bear \in Nat
      BY <3>2
    <3> QED BY <3>3, <3>4
  <2>6. Forecasts'
    BY <2>1, <2>4, <2>5 DEF Forecasts
  <2> QED BY <2>1, <2>6 DEF WeekInv
<1>5. CASE SizeBook
  <2>1. /\ weekStage = "size" /\ weekStage' = "proposed"
        /\ UNCHANGED <<candidates, poolWeights, forecast>>
        /\ book' \in {CommitteeBook(RankWeights), CommitteeBook(EdgeWeights), BaselineBook(EdgeWeights)}
    BY <1>5 DEF SizeBook
  <2>2. Forecasts
    BY <2>1 DEF WeekInv
  <2>3. BookLimits(book')
    BY <2>1, <2>2, RawBooks, CommitteeIsLimited, BaselineIsLimited
  <2>4. BookLimits(book)'
    BY <2>1, <2>3, LimitsCarryOver
  <2>5. Forecasts'
    BY <2>1, <2>2 DEF Forecasts
  <2> QED BY <2>1, <2>4, <2>5 DEF WeekInv
<1>6. CASE UNCHANGED weekVars
  <2>1. UNCHANGED <<weekStage, candidates, poolWeights, forecast, book>>
    BY <1>6 DEF weekVars
  <2>2. Forecasts => Forecasts'
    BY <2>1 DEF Forecasts
  <2>3. BookLimits(book) => BookLimits(book)'
    <3>1. BookLimits(book) => BookLimits(book')
      BY <2>1
    <3> QED BY <2>1, <3>1, LimitsCarryOver
  <2> QED BY <2>1, <2>2, <2>3 DEF WeekInv
<1> QED BY <1>1, <1>2, <1>3, <1>4, <1>5, <1>6 DEF WeekNext

\* risk/sizing.py and committee/pooling.py: whatever the week's candidates, weights and
\* forecasts, and however many, no voter of the pool is below the floor and the weights
\* are a whole; and in the proposed book every position, every sector, the whole and the
\* volatility are within their limits, though each was applied before others scaled again.
THEOREM EveryBookKeepsItsLimits == WeekSpec => []LimitsHold
<1>1. WeekInv => LimitsHold
  BY FloorIsKept, LimitedBooks DEF WeekInv, LimitsHold
<1> QED BY <1>1, WeekStarts, WeekGoesOn, PTL DEF WeekSpec

-----------------------------------------------------------------------------
(* SequentialTest: fair weeks and the paths that cross.                    *)

LEMMA TestNumbers ==
    /\ One \in Nat \ {0} /\ Cap \in 0..One /\ Threshold \in Nat /\ Excess \subseteq -One..One
    /\ MinWeek \in Nat \ {0} /\ MaxWeek \in Nat \ {0} /\ MaxWeek < One
BY SequentialAssumption

\* Division rounds down, below 0 too.
LEMMA Floors ==
    ASSUME NEW a \in Int, NEW b \in Nat \ {0}
    PROVE  a \div b \in Int /\ (a \div b) * b <= a /\ a < ((a \div b) + 1) * b
OBVIOUS

LEMMA SquareIsNat ==
    ASSUME NEW x \in Int
    PROVE  x * x \in Nat
<1>1. CASE x >= 0
  <2>1. x \in Nat
    BY <1>1
  <2> QED BY <2>1
<1>2. CASE x < 0
  <2>1. PICK z \in Nat : z = -x
    BY <1>2
  <2>2. x * x = z * z
    BY <2>1
  <2> QED BY <2>2
<1> QED BY <1>1, <1>2

LEMMA QuotientIsNat ==
    ASSUME NEW a \in Nat, NEW b \in Nat \ {0}
    PROVE  a \div b \in Nat
OBVIOUS

\* The bet is a fraction, whatever the moments are.
LEMMA LambdaIsAFraction ==
    ASSUME NEW n \in 0..MaxWeek, NEW s \in EProcesses(n)
    PROVE  NextLambda(s) \in 0..One
<1>1. s.mu \in Int /\ s.var \in Nat \ {0} /\ One \in Nat \ {0}
  BY TestNumbers DEF EProcesses
<1>2. s.mu * s.mu \in Nat
  BY <1>1, SquareIsNat
<1>3. (s.mu * s.mu) \div One \in Nat
  BY <1>1, <1>2, QuotientIsNat
<1>4. PICK d \in Nat \ {0} : d = s.var + (s.mu * s.mu) \div One
  BY <1>1, <1>3
<1>5. s.mu * One \in Int
  BY <1>1
<1>6. PICK x \in Int : x = (s.mu * One) \div d
  BY <1>4, <1>5, Floors
<1>7. NextLambda(s) = Clip(x, 0, Cap)
  BY <1>4, <1>6 DEF NextLambda
<1> QED BY <1>6, <1>7, TestNumbers DEF Clip

\* What a bet returns on an outcome.
Return(s, y) == (NextLambda(s) * y) \div One

LEMMA ReturnIsBounded ==
    ASSUME NEW n \in 0..MaxWeek, NEW s \in EProcesses(n), NEW y \in -One..One
    PROVE  /\ Return(s, y) \in Int /\ One + Return(s, y) \in Nat
           /\ Return(s, y) * One <= NextLambda(s) * y
<1>1. PICK l \in Nat : l = NextLambda(s) /\ l <= One
  BY LambdaIsAFraction, TestNumbers
<1>2. One \in Nat \ {0} /\ y \in Int /\ One + y \in Nat
  BY TestNumbers
<1>3. PICK r \in Int : r = Return(s, y) /\ r * One <= l * y /\ l * y < (r + 1) * One
  <2>1. l * y \in Int
    BY <1>2
  <2> QED BY <1>1, <1>2, <2>1, Floors DEF Return
<1>4. l * y >= 0 - l * One
  <2>1. PICK z \in Nat : z = One + y
    BY <1>2
  <2>2. l * z \in Nat /\ l * z = l * One + l * y
    BY <1>2, <2>1
  <2> QED BY <1>2, <2>2
<1>5. l * One <= One * One
  <2>1. One * l <= One * One
    BY <1>1, <1>2, Monotone
  <2> QED BY <1>2, <2>1
<1>6. One + r >= 0
  <2> SUFFICES ASSUME One + r + 1 <= 0 PROVE FALSE
    BY <1>2, <1>3
  <2>1. PICK k \in Nat : r + 1 = 0 - One - k
    <3>1. 0 - One - (r + 1) \in Nat /\ r + 1 = 0 - One - (0 - One - (r + 1))
      BY <1>2
    <3> QED BY <3>1
  <2>2. (r + 1) * One = 0 - One * One - k * One
    BY <1>2, <2>1
  <2>3. k * One \in Nat /\ One * One \in Nat /\ l * One \in Nat
    BY <1>2
  <2> QED BY <1>2, <1>3, <1>4, <1>5, <2>2, <2>3
<1> QED BY <1>1, <1>2, <1>3, <1>6

\* A bet makes an e-process with a week less to come.
LEMMA BetIsAnEProcess ==
    ASSUME NEW n \in 1..MaxWeek, NEW s \in EProcesses(n), NEW y \in -One..One
    PROVE  /\ Bet(s, y) \in EProcesses(n - 1)
           /\ Bet(s, y).wealth = (s.wealth * (One + Return(s, y))) \div One
<1>1. /\ s.t \in 0..(MaxWeek - n) /\ s.wealth \in Nat /\ s.sumY \in Int /\ s.sumSq \in Nat
      /\ s.mu \in Int /\ s.var \in Nat \ {0}
  BY DEF EProcesses
<1>2. One \in Nat \ {0} /\ MaxWeek \in Nat /\ MaxWeek < One /\ y \in Int /\ n \in Nat
  BY TestNumbers
<1>3. n \in 0..MaxWeek
  BY <1>2
<1>4. PICK t \in Nat : t = s.t + 1 /\ t \in 0..(MaxWeek - (n - 1)) /\ t + 1 <= One
  BY <1>1, <1>2
<1>5. PICK mu \in Int : mu = (s.sumY + y) \div (t + 1)
  <2>1. s.sumY + y \in Int /\ t + 1 \in Nat \ {0}
    BY <1>1, <1>2
  <2> QED BY <2>1, Floors
<1>6. PICK sq \in Nat : sq = s.sumSq + ((y - mu) * (y - mu)) \div One
  <2>1. (y - mu) * (y - mu) \in Nat
    BY <1>2, SquareIsNat
  <2>2. ((y - mu) * (y - mu)) \div One \in Nat
    BY <1>2, <2>1, QuotientIsNat
  <2> QED BY <1>1, <2>2
<1>7. PICK var \in Nat \ {0} : var = (One + sq) \div (t + 1)
  <2>1. One + sq \in Nat /\ t + 1 \in Nat \ {0} /\ t + 1 <= One + sq
    BY <1>2, <1>4
  <2>2. PICK v \in Nat : v = (One + sq) \div (t + 1) /\ One + sq < (v + 1) * (t + 1)
    <3>1. PICK x \in Nat, d \in Nat \ {0} : x = One + sq /\ d = t + 1
      BY <2>1
    <3>2. x \div d \in Nat /\ x < ((x \div d) + 1) * d
      BY QuotientIsNat, Floors
    <3> QED BY <3>1, <3>2
  <2>3. v # 0
    BY <2>1, <2>2
  <2> QED BY <2>2, <2>3
<1>8. PICK m : m = Moments(s, y)
  OBVIOUS
<1>9. m = [t |-> t, wealth |-> s.wealth, sumY |-> s.sumY + y, sumSq |-> sq, mu |-> mu, var |-> var]
  BY <1>4, <1>5, <1>6, <1>7, <1>8 DEF Moments
<1>10. PICK w \in Nat : w = (s.wealth * (One + Return(s, y))) \div One
  <2>1. One + Return(s, y) \in Nat
    BY <1>3, ReturnIsBounded
  <2>2. s.wealth * (One + Return(s, y)) \in Nat
    BY <1>1, <2>1
  <2> QED BY <1>2, <2>2, QuotientIsNat
<1>11. Bet(s, y) = [m EXCEPT !.wealth = w]
  BY <1>8, <1>10 DEF Bet, Return
<1>12. Bet(s, y) = [t |-> t, wealth |-> w, sumY |-> s.sumY + y, sumSq |-> sq, mu |-> mu, var |-> var]
  BY <1>9, <1>11
<1>13. s.sumY + y \in Int
  BY <1>1, <1>2
<1> QED BY <1>4, <1>10, <1>12, <1>13 DEF EProcesses

\* A fair bet is worth no more than the wealth, rounding included.
LEMMA BetIsFair ==
    ASSUME NEW n \in 1..MaxWeek, NEW s \in EProcesses(n), NEW a \in 0..One
    PROVE  Bet(s, a).wealth + Bet(s, -a).wealth <= 2 * s.wealth
<1>1. /\ n \in 0..MaxWeek /\ a \in -One..One /\ -a \in -One..One /\ a \in Nat
      /\ One \in Nat \ {0} /\ s.wealth \in Nat
  BY TestNumbers DEF EProcesses
<1>2. PICK l \in Nat : l = NextLambda(s)
  BY <1>1, LambdaIsAFraction, TestNumbers
<1>3. PICK p, m \in Int : /\ p = Return(s, a) /\ m = Return(s, -a)
                          /\ p * One <= l * a /\ m * One <= l * (-a)
                          /\ One + p \in Nat /\ One + m \in Nat
  BY <1>1, <1>2, ReturnIsBounded
<1>4. p + m <= 0
  <2> SUFFICES ASSUME p + m >= 1 PROVE FALSE
    OBVIOUS
  <2>1. PICK k \in Nat : p + m = k + 1
    <3>1. p + m - 1 \in Nat /\ p + m = (p + m - 1) + 1
      OBVIOUS
    <3> QED BY <3>1
  <2>2. p * One + m * One = k * One + One
    <3>1. p * One + m * One = (p + m) * One
      BY <1>1
    <3>2. (k + 1) * One = k * One + One
      BY <1>1
    <3> QED BY <2>1, <3>1, <3>2
  <2>3. l * (-a) = 0 - l * a /\ l * a \in Nat /\ k * One \in Nat
    BY <1>1
  <2>4. p * One \in Int /\ m * One \in Int
    BY <1>1
  <2> QED BY <1>1, <1>3, <2>2, <2>3, <2>4
<1>5. PICK w \in Nat : w = s.wealth
  BY <1>1
<1>6. PICK P, M \in Nat : P = One + p /\ M = One + m /\ P + M <= 2 * One
  BY <1>1, <1>3, <1>4
<1>7. PICK x, z \in Nat : /\ x = Bet(s, a).wealth /\ z = Bet(s, -a).wealth
                          /\ x * One <= w * P /\ z * One <= w * M
  <2>1. w * P \in Nat /\ w * M \in Nat
    OBVIOUS
  <2>2. Bet(s, a).wealth = (w * P) \div One /\ Bet(s, -a).wealth = (w * M) \div One
    BY <1>1, <1>3, <1>5, <1>6, BetIsAnEProcess
  <2>3. (w * P) \div One \in Nat /\ (w * M) \div One \in Nat
    BY <1>1, <2>1, QuotientIsNat
  <2>4. ((w * P) \div One) * One <= w * P /\ ((w * M) \div One) * One <= w * M
    BY <1>1, <2>1, Floors
  <2> QED BY <2>2, <2>3, <2>4
<1>8. w * P + w * M <= w * (2 * One)
  <2>1. w * (P + M) <= w * (2 * One)
    BY <1>1, <1>6, Monotone
  <2>2. w * (P + M) = w * P + w * M
    OBVIOUS
  <2> QED BY <2>1, <2>2
<1>9. (x + z) * One <= (2 * w) * One
  <2>1. (x + z) * One = x * One + z * One /\ (2 * w) * One = w * (2 * One)
    BY <1>1
  <2>2. x * One \in Nat /\ z * One \in Nat /\ w * P \in Nat /\ w * M \in Nat /\ w * (2 * One) \in Nat
    BY <1>1
  <2> QED BY <1>7, <1>8, <2>1, <2>2
<1>10. x + z <= 2 * w
  BY <1>1, <1>9, Cancels
<1> QED BY <1>5, <1>7, <1>10

LEMMA PathsAre ==
    /\ Paths[0] = 1
    /\ \A n \in 0..MaxWeek : n # 0 => Paths[n] = 2 * Paths[n - 1]
<1> DEFINE F(f, m) == f = [n \in 0..m |-> IF n = 0 THEN 1 ELSE 2 * f[n - 1]]
           C == {m \in 0..MaxWeek : ~\E f : F(f, m)}
<1>1. MaxWeek \in Nat
  BY TestNumbers
<1>2. C = {}
  <2> SUFFICES ASSUME C # {} PROVE FALSE
    OBVIOUS
  <2>1. PICK m \in C : \A k \in C : m <= k
    <3>1. C \in SUBSET Nat
      BY <1>1
    <3> HIDE DEF C
    <3> QED BY <3>1, LeastExists
  <2>2. m # 0
    <3>1. PICK f : f = [n \in 0..0 |-> 1]
      OBVIOUS
    <3>2. F(f, 0)
      BY <3>1
    <3> QED BY <3>2
  <2>3. PICK k \in 0..MaxWeek : m = k + 1 /\ k \notin C
    <3>1. m - 1 \in 0..MaxWeek /\ m = (m - 1) + 1 /\ ~(m <= m - 1)
      BY <1>1, <2>2
    <3> QED BY <2>1, <3>1
  <2>4. PICK f : F(f, k)
    BY <2>3
  <2>5. PICK g : g = [n \in 0..m |-> IF n = m THEN 2 * f[k] ELSE f[n]]
    OBVIOUS
  <2>6. ASSUME NEW n \in 0..m PROVE g[n] = IF n = 0 THEN 1 ELSE 2 * g[n - 1]
    <3>1. CASE n = m
      <4>1. n # 0 /\ n - 1 = k /\ k \in 0..m /\ k # m
        BY <2>2, <2>3, <3>1
      <4> QED BY <2>5, <3>1, <4>1
    <3>2. CASE n # m
      <4>1. n \in 0..k /\ g[n] = f[n]
        BY <2>3, <2>5, <3>2
      <4>2. n # 0 => n - 1 \in 0..m /\ n - 1 # m
        BY <2>3
      <4>3. n # 0 => g[n - 1] = f[n - 1]
        BY <2>5, <4>2
      <4> QED BY <2>4, <4>1, <4>3
    <3> QED BY <3>1, <3>2
  <2>7. F(g, m)
    BY <2>5, <2>6
  <2> QED BY <2>7
<1>3. PICK p : p = CHOOSE f : F(f, MaxWeek)
  OBVIOUS
<1>4. F(p, MaxWeek)
  <2>1. \E f : F(f, MaxWeek)
    <3>1. MaxWeek \in 0..MaxWeek
      BY <1>1
    <3> QED BY <1>2, <3>1
  <2> HIDE DEF F
  <2> QED BY <1>3, <2>1
<1>5. Paths = p
  BY <1>3 DEF Paths
<1>6. \A n \in 0..MaxWeek : p[n] = IF n = 0 THEN 1 ELSE 2 * p[n - 1]
  BY <1>4
<1>7. 0 \in 0..MaxWeek
  BY <1>1
<1> QED BY <1>5, <1>6, <1>7

\* With no week to come, an e-process has crossed or it never will.
AtTheEnd == [s \in EProcesses(0) |-> IF Won(s) THEN 1 ELSE 0]

LEMMA CrossingsAre ==
    /\ Crossings[0] = AtTheEnd
    /\ \A n \in 0..MaxWeek : n # 0 => Crossings[n] = WithOneMore(Crossings[n - 1], n)
<1> DEFINE F(f, m) == f = [n \in 0..m |-> IF n = 0 THEN AtTheEnd ELSE WithOneMore(f[n - 1], n)]
           C == {m \in 0..MaxWeek : ~\E f : F(f, m)}
<1>1. MaxWeek \in Nat
  BY TestNumbers
<1>2. C = {}
  <2> SUFFICES ASSUME C # {} PROVE FALSE
    OBVIOUS
  <2>1. PICK m \in C : \A k \in C : m <= k
    <3>1. C \in SUBSET Nat
      BY <1>1
    <3> HIDE DEF C
    <3> QED BY <3>1, LeastExists
  <2>2. m # 0
    <3>1. PICK f : f = [n \in 0..0 |-> AtTheEnd]
      OBVIOUS
    <3>2. F(f, 0)
      BY <3>1
    <3> QED BY <3>2
  <2>3. PICK k \in 0..MaxWeek : m = k + 1 /\ k \notin C
    <3>1. m - 1 \in 0..MaxWeek /\ m = (m - 1) + 1 /\ ~(m <= m - 1)
      BY <1>1, <2>2
    <3> QED BY <2>1, <3>1
  <2>4. PICK f : F(f, k)
    BY <2>3
  <2>5. PICK g : g = [n \in 0..m |-> IF n = m THEN WithOneMore(f[k], m) ELSE f[n]]
    OBVIOUS
  <2>6. ASSUME NEW n \in 0..m PROVE g[n] = IF n = 0 THEN AtTheEnd ELSE WithOneMore(g[n - 1], n)
    <3>1. CASE n = m
      <4>1. n # 0 /\ n - 1 = k /\ k \in 0..m /\ k # m
        BY <2>2, <2>3, <3>1
      <4>2. g[n] = WithOneMore(f[k], n) /\ g[n - 1] = f[k]
        BY <2>5, <3>1, <4>1
      <4> QED BY <4>1, <4>2
    <3>2. CASE n # m
      <4>1. n \in 0..k /\ g[n] = f[n]
        BY <2>3, <2>5, <3>2
      <4>2. n # 0 => n - 1 \in 0..m /\ n - 1 # m
        BY <2>3
      <4>3. n # 0 => g[n - 1] = f[n - 1]
        BY <2>5, <4>2
      <4> QED BY <2>4, <4>1, <4>3
    <3> QED BY <3>1, <3>2
  <2>7. F(g, m)
    BY <2>5, <2>6
  <2> QED BY <2>7
<1>3. PICK p : p = CHOOSE f : F(f, MaxWeek)
  OBVIOUS
<1>4. F(p, MaxWeek)
  <2>1. \E f : F(f, MaxWeek)
    <3>1. MaxWeek \in 0..MaxWeek
      BY <1>1
    <3> QED BY <1>2, <3>1
  <2> HIDE DEF F
  <2> QED BY <1>3, <2>1
<1>5. Crossings = p
  BY <1>3 DEF Crossings, AtTheEnd
<1>6. \A n \in 0..MaxWeek : p[n] = IF n = 0 THEN AtTheEnd ELSE WithOneMore(p[n - 1], n)
  BY <1>4
<1>7. 0 \in 0..MaxWeek
  BY <1>1
<1> QED BY <1>5, <1>6, <1>7

\* What is to be shown of e-processes with n weeks to come.
RareFrom(n) ==
    /\ Paths[n] \in Nat
    /\ \A s \in EProcesses(n) : /\ Crossings[n][s] \in 0..Paths[n]
                                /\ Crossings[n][s] * Threshold <= s.wealth * Paths[n]

LEMMA RareAtTheEnd == RareFrom(0)
<1>1. Paths[0] = 1
  BY PathsAre
<1> SUFFICES ASSUME NEW s \in EProcesses(0)
             PROVE  /\ Crossings[0][s] \in 0..1
                    /\ Crossings[0][s] * Threshold <= s.wealth * 1
  BY <1>1 DEF RareFrom
<1>2. s.wealth \in Nat /\ Threshold \in Nat
  BY TestNumbers DEF EProcesses
<1>3. Crossings[0][s] = IF s.wealth >= Threshold THEN 1 ELSE 0
  BY CrossingsAre DEF AtTheEnd, Won
<1> QED BY <1>2, <1>3

\* A fair bet splits the paths of an e-process between a gain and the same loss.
LEMMA FairWeekIsRare ==
    ASSUME NEW n \in 1..MaxWeek, RareFrom(n - 1), NEW s \in EProcesses(n), NEW a \in 0..One
    PROVE  LET both == Crossings[n - 1][Bet(s, a)] + Crossings[n - 1][Bet(s, -a)]
           IN  /\ both \in 0..(2 * Paths[n - 1])
               /\ both * Threshold <= s.wealth * (2 * Paths[n - 1])
<1>1. PICK half \in Nat : half = Paths[n - 1]
  BY DEF RareFrom
<1>2. a \in -One..One /\ -a \in -One..One /\ Threshold \in Nat
  BY TestNumbers
<1>3. PICK up, down \in EProcesses(n - 1) : up = Bet(s, a) /\ down = Bet(s, -a)
  BY <1>2, BetIsAnEProcess
<1>4. PICK w, x, z \in Nat : w = s.wealth /\ x = up.wealth /\ z = down.wealth
  BY DEF EProcesses
<1>5. x + z <= 2 * w
  BY <1>3, <1>4, BetIsFair
<1>6. PICK u, v \in Nat : /\ u = Crossings[n - 1][up] /\ v = Crossings[n - 1][down]
                          /\ u <= half /\ v <= half
                          /\ u * Threshold <= x * half /\ v * Threshold <= z * half
  <2>1. \A e \in EProcesses(n - 1) : /\ Crossings[n - 1][e] \in 0..half
                                     /\ Crossings[n - 1][e] * Threshold <= e.wealth * half
    BY <1>1 DEF RareFrom
  <2> QED BY <1>1, <1>4, <2>1
<1>7. (u + v) * Threshold <= w * (2 * half)
  <2>1. half * (x + z) <= half * (2 * w)
    BY <1>5, Monotone
  <2>2. half * (x + z) = x * half + z * half /\ half * (2 * w) = w * (2 * half)
    OBVIOUS
  <2>3. (u + v) * Threshold = u * Threshold + v * Threshold
    BY <1>2
  <2>4. /\ u * Threshold \in Nat /\ v * Threshold \in Nat
        /\ x * half \in Nat /\ z * half \in Nat /\ w * (2 * half) \in Nat
    BY <1>2
  <2> QED BY <1>6, <2>1, <2>2, <2>3, <2>4
<1>8. u + v \in 0..(2 * half)
  BY <1>6
<1> QED BY <1>1, <1>3, <1>4, <1>6, <1>7, <1>8

LEMMA AmountsAreParts == \A a \in Amounts : a \in 0..One
<1> SUFFICES ASSUME NEW y \in Excess, NEW a, a = IF y < 0 THEN -y ELSE y
             PROVE  a \in 0..One
  BY DEF Amounts
<1>1. y \in -One..One /\ One \in Nat
  BY TestNumbers
<1>2. y \in Int /\ y <= One /\ -y <= One
  BY <1>1
<1> QED BY <1>1, <1>2

LEMMA RareWithOneMore ==
    ASSUME NEW n \in 1..MaxWeek, RareFrom(n - 1), Excess # {}
    PROVE  RareFrom(n)
<1>1. n \in 0..MaxWeek /\ n # 0 /\ Threshold \in Nat /\ One \in Nat
  BY TestNumbers
<1>2. PICK half \in Nat : half = Paths[n - 1] /\ Paths[n] = 2 * half
  BY <1>1, PathsAre DEF RareFrom
<1> SUFFICES ASSUME NEW s \in EProcesses(n)
             PROVE  /\ Crossings[n][s] \in 0..(2 * half)
                    /\ Crossings[n][s] * Threshold <= s.wealth * (2 * half)
  BY <1>2 DEF RareFrom
<1>3. PICK w \in Nat : w = s.wealth
  BY DEF EProcesses
<1>4. CASE Won(s)
  <2>1. Crossings[n][s] = 2 * half
    BY <1>1, <1>2, <1>4, CrossingsAre DEF WithOneMore
  <2>2. Threshold <= w
    BY <1>3, <1>4 DEF Won
  <2>3. (2 * half) * Threshold <= (2 * half) * w
    BY <1>1, <2>2, Monotone
  <2>4. (2 * half) * w = w * (2 * half)
    OBVIOUS
  <2> QED BY <1>3, <2>1, <2>3, <2>4
<1>5. CASE ~Won(s)
  <2> DEFINE both(a) == Crossings[n - 1][Bet(s, a)] + Crossings[n - 1][Bet(s, -a)]
             S == {both(a) : a \in Amounts}
  <2>1. Crossings[n][s] = Max(S)
    BY <1>1, <1>5, CrossingsAre DEF WithOneMore
  <2>2. \A a \in Amounts : a \in 0..One
    BY AmountsAreParts
  <2>3. \A a \in Amounts : both(a) \in 0..(2 * half) /\ both(a) * Threshold <= w * (2 * half)
    <3> SUFFICES ASSUME NEW a \in Amounts
                 PROVE  both(a) \in 0..(2 * half) /\ both(a) * Threshold <= w * (2 * half)
      OBVIOUS
    <3>1. /\ both(a) \in 0..(2 * Paths[n - 1])
          /\ both(a) * Threshold <= s.wealth * (2 * Paths[n - 1])
      <4>1. a \in 0..One
        BY <2>2
      <4> QED BY <4>1, FairWeekIsRare
    <3>2. Paths[n - 1] = half /\ s.wealth = w
      BY <1>2, <1>3
    <3> HIDE DEF both
    <3> QED BY <3>1, <3>2
  <2>4. Amounts # {}
    BY DEF Amounts
  <2>5. S # {} /\ \A k \in S : k \in 0..(2 * half) /\ k * Threshold <= w * (2 * half)
    <3> HIDE DEF both
    <3> QED BY <2>3, <2>4
  <2> HIDE DEF S
  <2>6. S \in SUBSET (0..(2 * half)) /\ 2 * half \in Nat
    BY <2>5
  <2>7. \E m \in S : \A k \in S : m >= k
    <3>1. PICK m \in S : \A k \in S : k <= m
      BY <2>5, <2>6, GreatestExists
    <3>2. \A k \in S : m >= k
      BY <2>6, <3>1
    <3> QED BY <3>2
  <2>8. Max(S) \in S
    BY <2>7 DEF Max
  <2> QED BY <1>3, <2>1, <2>5, <2>8
<1> QED BY <1>4, <1>5

LEMMA RareEverywhere ==
    ASSUME Excess # {}
    PROVE  \A n \in 0..MaxWeek : RareFrom(n)
<1> DEFINE C == {m \in 0..MaxWeek : ~RareFrom(m)}
<1>1. MaxWeek \in Nat
  BY TestNumbers
<1>2. C = {}
  <2> SUFFICES ASSUME C # {} PROVE FALSE
    OBVIOUS
  <2>1. PICK m \in C : \A k \in C : m <= k
    <3>1. C \in SUBSET Nat
      BY <1>1
    <3> HIDE DEF C
    <3> QED BY <3>1, LeastExists
  <2>2. m # 0
    BY RareAtTheEnd
  <2>3. m \in 1..MaxWeek /\ m - 1 \in 0..MaxWeek /\ ~(m <= m - 1)
    BY <1>1, <2>2
  <2>4. RareFrom(m - 1)
    BY <2>1, <2>3
  <2> QED BY <2>3, <2>4, RareWithOneMore
<1> QED BY <1>2

\* The e-processes of a test have seen the weeks observed, and a running test has weeks left.
SeqInv ==
    /\ week \in 0..MaxWeek
    /\ {spy, quant, mirror} \subseteq EProcesses(MaxWeek - week)
    /\ verdictStatus = "RUNNING" => week < MaxWeek

LEMMA SeqInitInv == SeqInit => SeqInv
<1> SUFFICES ASSUME SeqInit PROVE SeqInv
  OBVIOUS
<1>1. /\ MaxWeek \in Nat \ {0} /\ One \in Nat \ {0} /\ week = 0
      /\ spy = Fresh /\ quant = Fresh /\ mirror = Fresh
  BY TestNumbers DEF SeqInit
<1>2. Fresh \in EProcesses(MaxWeek - 0)
  BY <1>1 DEF Fresh, EProcesses
<1> QED BY <1>1, <1>2 DEF SeqInv

LEMMA SeqNextInv == SeqInv /\ [SeqNext]_seqVars => SeqInv'
<1> SUFFICES ASSUME SeqInv, [SeqNext]_seqVars PROVE SeqInv'
  OBVIOUS
<1>1. CASE UNCHANGED seqVars
  BY <1>1 DEF SeqInv, seqVars
<1>2. CASE Observe
  <2>1. PICK x, y \in Excess :
          /\ spy' = Bet(spy, x) /\ quant' = Bet(quant, y) /\ mirror' = Bet(mirror, -y)
          /\ verdictStatus' = Outcome(week + 1, Bet(spy, x), Bet(quant, y), Bet(mirror, -y))[1]
    BY <1>2 DEF Observe
  <2>2. week \in 0..MaxWeek /\ week < MaxWeek /\ week' = week + 1 /\ MaxWeek \in Nat
    BY <1>2, TestNumbers DEF Observe, SeqInv
  <2>3. PICK n \in 1..MaxWeek : n = MaxWeek - week /\ MaxWeek - week' = n - 1
    <3>1. MaxWeek - week \in 1..MaxWeek /\ MaxWeek - week' = (MaxWeek - week) - 1
      BY <2>2
    <3> QED BY <3>1
  <2>4. x \in -One..One /\ y \in -One..One /\ -y \in -One..One
    BY TestNumbers
  <2>5. spy \in EProcesses(n) /\ quant \in EProcesses(n) /\ mirror \in EProcesses(n)
    BY <2>3 DEF SeqInv
  <2>6. {spy', quant', mirror'} \subseteq EProcesses(n - 1)
    BY <2>1, <2>4, <2>5, BetIsAnEProcess
  <2>7. {spy', quant', mirror'} \subseteq EProcesses(MaxWeek - week')
    BY <2>3, <2>6
  <2>8. verdictStatus' = "RUNNING" => week + 1 < MaxWeek
    BY <2>1 DEF Outcome
  <2> QED BY <2>2, <2>7, <2>8 DEF SeqInv
<1> QED BY <1>1, <1>2 DEF SeqNext

\* An e-process without an edge seldom crosses, whenever it is looked at: sequential.py:1-15.
LEMMA WeeksAreRare == SeqInv /\ [SeqNext]_seqVars =>
    [week' # week =>
        \A s \in {spy, quant, mirror} :
           Crossings[MaxWeek - week][s] * Threshold <= s.wealth * Paths[MaxWeek - week]]_week
<1> SUFFICES ASSUME SeqInv, [SeqNext]_seqVars, week' # week, NEW s \in {spy, quant, mirror}
             PROVE  Crossings[MaxWeek - week][s] * Threshold <= s.wealth * Paths[MaxWeek - week]
  OBVIOUS
<1>1. Excess # {}
  BY DEF SeqNext, Observe, seqVars
<1>2. PICK n \in 0..MaxWeek : n = MaxWeek - week
  <2>1. MaxWeek - week \in 0..MaxWeek
    BY TestNumbers DEF SeqInv
  <2> QED BY <2>1
<1>3. s \in EProcesses(n)
  BY <1>2 DEF SeqInv
<1> QED BY <1>1, <1>2, <1>3, RareEverywhere DEF RareFrom

THEOREM CrossingsStayRare == SeqSpec => CrossingsAreRare
<1>1. SeqSpec => []SeqInv
  BY SeqInitInv, SeqNextInv, PTL DEF SeqSpec
<1> QED BY <1>1, WeeksAreRare, PTL DEF SeqSpec, CrossingsAreRare
=============================================================================
