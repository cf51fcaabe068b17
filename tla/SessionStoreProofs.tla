------------------------- MODULE SessionStoreProofs -------------------------
(***************************************************************************)
(* Proofs about SessionStore, for every finite set of session keys, any    *)
(* handlers, every limit and any number of turns.                          *)
(***************************************************************************)
EXTENDS SessionStore, FiniteSetTheorems, WellFoundedInduction, TLAPS

\* The constants as numbers.
LEMMA Constants ==
  /\ GuestTurns \in Nat /\ GuestTurns > 0 /\ OwnerTurns \in Nat /\ GuestTurns <= OwnerTurns
  /\ PersistTurns \in Nat /\ PersistTurns > 0
  /\ MaxSessions \in Nat /\ MaxSessions > 0 /\ MaxTurns \in Nat
  /\ IsFiniteSet(Keys) /\ NoKey \notin Keys
BY SessionAssumption

-----------------------------------------------------------------------------
(* Sets of turns.                                                           *)

\* A set of turns is finite, and so is every subset of it.
LEMMA TurnsFinite ==
  ASSUME NEW S \in SUBSET Turns
  PROVE  /\ IsFiniteSet(S) /\ Cardinality(S) \in Nat
         /\ S \subseteq Int
         /\ \A T \in SUBSET S : Cardinality(T) \in Nat /\ Cardinality(T) <= Cardinality(S)
<1>1. IsFiniteSet(Turns)
  BY Constants, FS_Interval DEF Turns
<1>2. IsFiniteSet(S)
  BY <1>1, FS_Subset
<1>3. \A T \in SUBSET S : IsFiniteSet(T) /\ Cardinality(T) <= Cardinality(S)
  BY <1>2, FS_Subset
<1>. QED BY <1>2, <1>3, FS_CardinalityType, Constants DEF Turns

\* A set of turns that is not empty has a newest turn.
LEMMA NewestExists ==
  ASSUME NEW S \in SUBSET Turns, S # {}
  PROVE  Newest(S) \in S /\ \A u \in S : u <= Newest(S)
<1>. DEFINE above(t) == {u \in S : u > t}
            family == {above(t) : t \in S}
<1>1. IsFiniteSet(S) /\ S \subseteq Int
  BY TurnsFinite
<1>2. \A t \in S : above(t) \in FiniteSubsetsOf(S)
  <2>1. \A t \in S : above(t) \in SUBSET S
    OBVIOUS
  <2>. QED BY <1>1, <2>1, FS_Subset DEF FiniteSubsetsOf
<1>3. family \subseteq FiniteSubsetsOf(S) /\ family # {}
  BY <1>2
<1>4. PICK least \in family : \A x \in family : <<x, least>> \notin StrictSubsetOrdering(S)
  <2>. HIDE DEF family
  <2>. QED BY <1>3, FS_StrictSubsetOrderingWellFounded, WFMin
<1>5. PICK t \in S : least = above(t)
  BY <1>4
<1>6. \A u \in S : u <= t
  <2>. SUFFICES ASSUME NEW u \in S, ~(u <= t) PROVE FALSE
    OBVIOUS
  <2>1. u > t /\ u \in Int /\ t \in Int
    BY <1>1
  <2>2. above(u) \subseteq above(t) /\ u \in above(t) /\ u \notin above(u)
    <3>1. ~(u > u) /\ \A v \in S : v > u => v > t
      BY <1>1, <2>1
    <3>. QED BY <2>1, <3>1
  <2>3. above(u) \in family /\ above(u) \in SUBSET S /\ above(t) \in SUBSET S
    OBVIOUS
  <2>4. <<above(u), above(t)>> \in StrictSubsetOrdering(S)
    BY <2>2, <2>3 DEF StrictSubsetOrdering
  <2>. QED BY <1>4, <1>5, <2>3, <2>4
<1>. QED BY <1>6 DEF Newest

\* Cutting to the last n turns takes away the oldest ones only.
LEMMA LastTurnsSuffix ==
  ASSUME NEW S \in SUBSET Turns, NEW n \in Nat
  PROVE  /\ LastTurns(S, n) \subseteq S
         /\ \A t \in LastTurns(S, n), u \in S : u > t => u \in LastTurns(S, n)
<1>1. LastTurns(S, n) \subseteq S
  BY DEF LastTurns
<1>2. ASSUME NEW t \in LastTurns(S, n), NEW u \in S, u > t
      PROVE  u \in LastTurns(S, n)
  <2>. DEFINE aboveT == {v \in S : v > t}
              aboveU == {v \in S : v > u}
  <2>1. t \in S /\ Cardinality(aboveT) < n
    BY DEF LastTurns
  <2>2. aboveU \in SUBSET aboveT /\ aboveT \in SUBSET Turns
    BY <1>2, <2>1, TurnsFinite
  <2>3. Cardinality(aboveU) <= Cardinality(aboveT)
        /\ Cardinality(aboveU) \in Nat /\ Cardinality(aboveT) \in Nat
    <3>. HIDE DEF aboveT, aboveU
    <3>. QED BY <2>2, TurnsFinite
  <2>4. Cardinality(aboveU) < n
    BY <2>1, <2>3
  <2>. QED BY <2>4 DEF LastTurns
<1>. QED BY <1>1, <1>2

\* Cutting again changes nothing.
LEMMA LastTurnsAgain ==
  ASSUME NEW S \in SUBSET Turns, NEW n \in Nat
  PROVE  LastTurns(LastTurns(S, n), n) = LastTurns(S, n)
<1>. DEFINE L == LastTurns(S, n)
<1>1. L \in SUBSET S
  BY LastTurnsSuffix
<1>2. ASSUME NEW t \in L PROVE t \in LastTurns(L, n)
  <2>. DEFINE inS == {u \in S : u > t}
              inL == {u \in L : u > t}
  <2>1. Cardinality(inS) < n
    BY DEF LastTurns
  <2>2. inL \in SUBSET inS /\ inS \in SUBSET Turns
    BY <1>1
  <2>3. Cardinality(inL) <= Cardinality(inS)
        /\ Cardinality(inL) \in Nat /\ Cardinality(inS) \in Nat
    <3>. HIDE DEF inS, inL
    <3>. QED BY <2>2, TurnsFinite
  <2>4. Cardinality(inL) < n
    BY <2>1, <2>3
  <2>. HIDE DEF L
  <2>. QED BY <2>4 DEF LastTurns
<1>3. LastTurns(L, n) \subseteq L
  BY <1>1, LastTurnsSuffix
<1>. QED BY <1>2, <1>3

\* At most n turns are left: the number of newer turns tells them apart.
LEMMA LastTurnsSize ==
  ASSUME NEW S \in SUBSET Turns, NEW n \in Nat
  PROVE  Cardinality(LastTurns(S, n)) <= n
<1>. DEFINE L == LastTurns(S, n)
            above(t) == {u \in S : u > t}
            f == [t \in L |-> Cardinality(above(t))]
<1>1. L \in SUBSET S /\ L \in SUBSET Turns /\ S \subseteq Int /\ L \subseteq Int
  BY LastTurnsSuffix, TurnsFinite
<1>2. IsFiniteSet(L) /\ Cardinality(L) \in Nat
  <2>. HIDE DEF L
  <2>. QED BY <1>1, TurnsFinite
<1>3. \A t \in L : Cardinality(above(t)) \in 0..(n - 1)
  <2>. SUFFICES ASSUME NEW t \in L PROVE Cardinality(above(t)) \in 0..(n - 1)
    OBVIOUS
  <2>1. Cardinality(above(t)) < n
    BY DEF LastTurns
  <2>2. above(t) \in SUBSET Turns
    OBVIOUS
  <2>3. Cardinality(above(t)) \in Nat
    BY <2>2, TurnsFinite
  <2>. QED BY <2>1, <2>3
<1>4. f \in [L -> 0..(n - 1)]
  <2>. HIDE DEF L
  <2>. QED BY <1>3
<1>5. IsFiniteSet(0..(n - 1)) /\ Cardinality(0..(n - 1)) = n
  <2>1. n - 1 \in Int /\ (0 > n - 1 => n = 0) /\ (n - 1) - 0 + 1 = n
    OBVIOUS
  <2>. QED BY <2>1, FS_Interval
<1>6. ASSUME NEW t \in L, NEW u \in L, t < u PROVE f[t] # f[u]
  <2>1. t \in S /\ u \in S /\ t \in Int /\ u \in Int
    BY <1>1
  <2>2. above(u) \in SUBSET above(t) /\ above(t) \in SUBSET Turns
        /\ u \in above(t) /\ u \notin above(u)
    <3>1. u > t /\ ~(u > u) /\ \A v \in S : v > u => v > t
      BY <1>1, <1>6, <2>1
    <3>2. above(t) \subseteq Turns
      OBVIOUS
    <3>3. above(u) \subseteq above(t)
      BY <3>1
    <3>4. u \in above(t) /\ u \notin above(u)
      BY <2>1, <3>1
    <3>. QED BY <3>2, <3>3, <3>4
  <2>3. Cardinality(above(u)) = Cardinality(above(t)) => above(u) = above(t)
    <3>. HIDE DEF above
    <3>1. IsFiniteSet(above(t))
      BY <2>2, TurnsFinite
    <3>. QED BY <2>2, <3>1, FS_Subset
  <2>. QED BY <2>2, <2>3
<1>7. \A t, u \in L : t # u => f[t] # f[u]
  <2>. HIDE DEF f, L
  <2>1. \A t, u \in L : t # u => t < u \/ u < t
    BY <1>1
  <2>. QED BY <1>6, <2>1
<1>8. ~ (Cardinality(L) > n)
  <2>. SUFFICES ASSUME Cardinality(L) > n PROVE FALSE
    OBVIOUS
  <2>1. n < Cardinality(L)
    BY <1>2
  <2>. HIDE DEF f, L
  <2>. QED BY <1>2, <1>4, <1>5, <1>7, <2>1, FS_PigeonHole
<1>. HIDE DEF L
<1>. QED BY <1>2, <1>8 DEF L

-----------------------------------------------------------------------------
(* The turns that limits leave.                                             *)

\* A speaker's limit is a number of turns.
LEMMA Limits ==
  /\ {GuestTurns, OwnerTurns} \subseteq Nat
  /\ \A isOwner \in BOOLEAN :
       /\ TurnLimit(isOwner) \in {GuestTurns, OwnerTurns}
       /\ TurnLimit(isOwner) \in Nat /\ TurnLimit(isOwner) > 0 /\ TurnLimit(isOwner) <= OwnerTurns
BY Constants DEF TurnLimit

\* The turns between t and u, as Kept counts them.
Between(R, t, u) == {v \in R : t < v /\ v <= u}

LEMMA KeptForm ==
  ASSUME NEW R, NEW l
  PROVE  /\ Kept(R, l) \subseteq R
         /\ \A t \in R : t \in Kept(R, l)
              <=> \A u \in R : u >= t => Cardinality(Between(R, t, u)) < l[u]
         /\ R = {} => Kept(R, l) = {}
BY DEF Kept, Between

\* A smaller set of turns has no more turns in between.
LEMMA BetweenCount ==
  ASSUME NEW R \in SUBSET Turns, NEW t, NEW u, NEW S \in SUBSET Between(R, t, u)
  PROVE  /\ Cardinality(S) \in Nat /\ Cardinality(Between(R, t, u)) \in Nat
         /\ Cardinality(S) <= Cardinality(Between(R, t, u))
<1>1. Between(R, t, u) \in SUBSET Turns
  BY DEF Between
<1>. QED BY <1>1, TurnsFinite

\* Only limits of turns that were recorded matter.
LEMMA KeptLimits ==
  ASSUME NEW R, NEW l, NEW m, \A u \in R : l[u] = m[u]
  PROVE  Kept(R, l) = Kept(R, m)
BY KeptForm

\* What is newer than a kept turn is kept.
LEMMA KeptSuffix ==
  ASSUME NEW R \in SUBSET Turns, NEW l \in [Turns -> Nat],
         NEW t \in Kept(R, l), NEW w \in R, w > t
  PROVE  w \in Kept(R, l)
<1>. SUFFICES ASSUME NEW u \in R, u >= w
              PROVE  Cardinality(Between(R, w, u)) < l[u]
  BY KeptForm
<1>1. t \in R /\ t \in Int /\ w \in Int /\ u \in Int /\ R \subseteq Int /\ l[u] \in Nat
  BY TurnsFinite, KeptForm
<1>2. u >= t
  BY <1>1
<1>3. Cardinality(Between(R, t, u)) < l[u]
  BY <1>2, KeptForm
<1>4. Between(R, w, u) \in SUBSET Between(R, t, u)
  <2>1. \A v \in R : w < v => t < v
    BY <1>1
  <2>. QED BY <2>1 DEF Between
<1>. QED BY <1>1, <1>3, <1>4, BetweenCount

\* A part of what was kept loses nothing when it is cut again.
LEMMA KeptAgain ==
  ASSUME NEW R \in SUBSET Turns, NEW l \in [Turns -> Nat], NEW S \in SUBSET Kept(R, l)
  PROVE  Kept(S, l) = S
<1>1. S \in SUBSET R
  BY KeptForm
<1>2. ASSUME NEW t \in S, NEW u \in S, u >= t
      PROVE  Cardinality(Between(S, t, u)) < l[u]
  <2>1. Cardinality(Between(R, t, u)) < l[u] /\ l[u] \in Nat
    BY <1>1, <1>2, KeptForm
  <2>2. Between(S, t, u) \in SUBSET Between(R, t, u)
    BY <1>1 DEF Between
  <2>. QED BY <2>1, <2>2, BetweenCount
<1>3. \A t \in S : t \in Kept(S, l)
  BY <1>2, KeptForm
<1>. QED BY <1>3, KeptForm

\* A new turn cuts what was kept to the newest turns its speaker may have.
LEMMA KeptNext ==
  ASSUME NEW R \in SUBSET Turns, NEW l \in [Turns -> Nat],
         NEW n \in Turns, \A t \in R : t < n, NEW m \in Nat, m > 0
  PROVE  Kept(R \cup {n}, [l EXCEPT ![n] = m]) = LastTurns(Kept(R, l) \cup {n}, m)
<1>. DEFINE all == R \cup {n}
            k == Kept(R, l)
            lim == [l EXCEPT ![n] = m]
            newer(t) == {u \in k \cup {n} : u > t}
<1>1. /\ n \in Int /\ R \subseteq Int /\ n \notin R /\ all \in SUBSET Turns /\ k \subseteq R
      /\ lim[n] = m /\ \A u \in R : lim[u] = l[u]
  <2>1. n \in Int /\ R \subseteq Int
    BY TurnsFinite
  <2>. QED BY <2>1, KeptForm
<1>. HIDE DEF lim
<1>2. LastTurns(k \cup {n}, m) = {t \in k \cup {n} : Cardinality(newer(t)) < m}
  BY DEF LastTurns
<1>3. \A t \in R, u \in R : Between(all, t, u) = Between(R, t, u)
  BY <1>1 DEF Between
<1>4. \A t \in R : /\ t \in Kept(all, lim) <=> t \in k /\ Cardinality(Between(all, t, n)) < m
  <2>. SUFFICES ASSUME NEW t \in R
                PROVE  t \in Kept(all, lim) <=> t \in k /\ Cardinality(Between(all, t, n)) < m
    OBVIOUS
  <2>1. t \in Kept(all, lim)
          <=> \A u \in all : u >= t => Cardinality(Between(all, t, u)) < lim[u]
    BY KeptForm
  <2>2. t \in k <=> \A u \in R : u >= t => Cardinality(Between(R, t, u)) < l[u]
    BY KeptForm
  <2>3. n >= t
    BY <1>1
  <2>. QED BY <1>1, <1>3, <2>1, <2>2, <2>3
<1>5. \A t \in k : Between(all, t, n) = newer(t)
  <2>. SUFFICES ASSUME NEW t \in k PROVE Between(all, t, n) = newer(t)
    OBVIOUS
  <2>1. \A v \in R : v > t => v \in k
    BY KeptSuffix
  <2>2. \A v \in all : v <= n /\ (t < v <=> v > t)
    BY <1>1
  <2>. QED BY <1>1, <2>1, <2>2 DEF Between
<1>6. n \in Kept(all, lim) /\ Cardinality(newer(n)) < m
  <2>1. \A u \in all : u >= n => u = n
    BY <1>1
  <2>2. Between(all, n, n) = {} /\ newer(n) = {}
    <3>1. \A v \in all : ~(n < v) /\ ~(v > n)
      BY <1>1
    <3>. QED BY <1>1, <3>1 DEF Between
  <2>3. Cardinality({}) < m
    BY FS_EmptySet
  <2>4. n \in Kept(all, lim)
    BY <1>1, <2>1, <2>2, <2>3, KeptForm
  <2>. QED BY <2>2, <2>3, <2>4
<1>7. Kept(all, lim) \subseteq all
  BY KeptForm
<1>. HIDE DEF newer, k, all
<1>8. \A t \in all : t \in Kept(all, lim) <=> t \in k \cup {n} /\ Cardinality(newer(t)) < m
  BY <1>1, <1>4, <1>5, <1>6 DEF all
<1>9. k \cup {n} \subseteq all
  BY <1>1 DEF all
<1>. QED BY <1>2, <1>7, <1>8, <1>9 DEF lim, k, all

-----------------------------------------------------------------------------
(* Maps of sessions.                                                        *)

\* A map with smaller sessions still fits.
LEMMA SmallerFits ==
  ASSUME NEW s \in Sessions, NEW r \in Sessions, Fits(s),
         \A k \in Keys : r[k] \subseteq s[k]
  PROVE  Fits(r)
<1>1. ASSUME NEW k \in Keys PROVE Cardinality(r[k]) <= OwnerTurns
  <2>1. s[k] \in SUBSET Turns /\ r[k] \in SUBSET s[k]
    BY DEF Sessions
  <2>2. /\ Cardinality(s[k]) \in Nat /\ Cardinality(r[k]) \in Nat
        /\ Cardinality(r[k]) <= Cardinality(s[k])
    BY <2>1, TurnsFinite
  <2>. QED BY <2>2, Constants DEF Fits
<1>2. Cardinality(Present(r)) <= MaxSessions
  <2>1. Present(s) \in SUBSET Keys /\ Present(r) \in SUBSET Present(s)
    BY DEF Present
  <2>2. IsFiniteSet(Present(s))
    BY <2>1, Constants, FS_Subset
  <2>3. /\ Cardinality(Present(s)) \in Nat /\ Cardinality(Present(r)) \in Nat
        /\ Cardinality(Present(r)) <= Cardinality(Present(s))
    BY <2>1, <2>2, FS_Subset, FS_CardinalityType
  <2>. QED BY <2>3, Constants DEF Fits
<1>. QED BY <1>1, <1>2 DEF Fits

\* Removing the expired sessions leaves the others as they are.
LEMMA LiveOnlyForm ==
  ASSUME NEW s \in Sessions
  PROVE  /\ LiveOnly(s) \in Sessions
         /\ \A k \in Keys : IF Live(s[k]) THEN LiveOnly(s)[k] = s[k]
                                           ELSE LiveOnly(s)[k] = {}
BY DEF LiveOnly, Sessions

\* The sessions used later than k's, as WithoutOldest counts them.
Newer(s, k) == {j \in Present(s) : Newest(s[j]) > Newest(s[k])}

\* They are finitely many, and fewer for a session used later.
LEMMA NewerCount ==
  ASSUME NEW s \in Sessions, NEW k \in Keys
  PROVE  /\ IsFiniteSet(Newer(s, k)) /\ Cardinality(Newer(s, k)) \in Nat
         /\ \A T \in SUBSET Newer(s, k) :
              /\ Cardinality(T) \in Nat /\ Cardinality(T) <= Cardinality(Newer(s, k))
              /\ Cardinality(T) = Cardinality(Newer(s, k)) => T = Newer(s, k)
<1>1. Newer(s, k) \in SUBSET Keys
  BY DEF Newer, Present
<1>2. IsFiniteSet(Newer(s, k))
  BY <1>1, Constants, FS_Subset
<1>. QED BY <1>2, FS_Subset, FS_CardinalityType

\* Each session of a map has a newest turn, and different ones have different.
LEMMA NewestOf ==
  ASSUME NEW s \in Sessions
  PROVE  /\ \A k \in Present(s) : Newest(s[k]) \in s[k] /\ Newest(s[k]) \in Int
         /\ Disjoint(s) => \A j, k \in Present(s) : j # k => Newest(s[j]) # Newest(s[k])
<1>1. ASSUME NEW k \in Present(s) PROVE Newest(s[k]) \in s[k] /\ Newest(s[k]) \in Int
  <2>1. s[k] \in SUBSET Turns /\ s[k] # {}
    BY DEF Present, Sessions
  <2>. QED BY <2>1, NewestExists, TurnsFinite
<1>. QED BY <1>1 DEF Disjoint, Present

\* Eviction keeps a session or removes it, and the later used ones stay.
LEMMA WithoutOldestForm ==
  ASSUME NEW s \in Sessions
  PROVE  /\ WithoutOldest(s) \in Sessions
         /\ \A k \in Keys :
              WithoutOldest(s)[k] = IF s[k] # {} /\ Cardinality(Newer(s, k)) < MaxSessions
                                    THEN s[k] ELSE {}
BY DEF WithoutOldest, Newer, Sessions

\* Eviction leaves at most MaxSessions sessions.
LEMMA WithoutOldestSize ==
  ASSUME NEW s \in Sessions, Disjoint(s)
  PROVE  Cardinality(Present(WithoutOldest(s))) <= MaxSessions
<1>. DEFINE P == Present(WithoutOldest(s))
            f == [k \in P |-> Cardinality(Newer(s, k))]
<1>1. \A k \in P : k \in Present(s) /\ k \in Keys /\ Cardinality(Newer(s, k)) < MaxSessions
  BY WithoutOldestForm DEF Present
<1>2. IsFiniteSet(P) /\ Cardinality(P) \in Nat
  <2>1. P \in SUBSET Keys
    BY DEF Present
  <2>. HIDE DEF P
  <2>. QED BY <2>1, Constants, FS_Subset, FS_CardinalityType
<1>. HIDE DEF P
<1>3. \A k \in P : Cardinality(Newer(s, k)) \in 0..(MaxSessions - 1)
  <2>1. \A k \in P : Cardinality(Newer(s, k)) \in Nat
    BY <1>1, NewerCount
  <2>. QED BY <1>1, <2>1, Constants
<1>4. f \in [P -> 0..(MaxSessions - 1)]
  BY <1>3
<1>5. IsFiniteSet(0..(MaxSessions - 1)) /\ Cardinality(0..(MaxSessions - 1)) = MaxSessions
  <2>1. MaxSessions - 1 \in Int /\ ~(0 > MaxSessions - 1)
        /\ (MaxSessions - 1) - 0 + 1 = MaxSessions
    BY Constants
  <2>. QED BY <2>1, FS_Interval
<1>6. ASSUME NEW j \in P, NEW k \in P, Newest(s[j]) < Newest(s[k])
      PROVE  f[j] # f[k]
  <2>1. /\ Newest(s[j]) \in Int /\ Newest(s[k]) \in Int
        /\ \A i \in Present(s) : Newest(s[i]) \in Int
    BY <1>1, NewestOf
  <2>2. Newer(s, k) \in SUBSET Newer(s, j)
    BY <1>6, <2>1 DEF Newer
  <2>3. k \in Newer(s, j) /\ k \notin Newer(s, k)
    <3>1. k \in Present(s) /\ Newest(s[k]) > Newest(s[j]) /\ ~(Newest(s[k]) > Newest(s[k]))
      BY <1>1, <1>6, <2>1
    <3>. QED BY <3>1 DEF Newer
  <2>4. Cardinality(Newer(s, k)) # Cardinality(Newer(s, j))
    BY <1>1, <2>2, <2>3, NewerCount
  <2>. QED BY <2>4
<1>7. \A j, k \in P : j # k => f[j] # f[k]
  <2>1. \A j, k \in P : j # k => Newest(s[j]) < Newest(s[k]) \/ Newest(s[k]) < Newest(s[j])
    BY <1>1, NewestOf
  <2>. HIDE DEF f
  <2>. QED BY <1>6, <2>1
<1>8. ~ (Cardinality(P) > MaxSessions)
  <2>. SUFFICES ASSUME Cardinality(P) > MaxSessions PROVE FALSE
    OBVIOUS
  <2>1. MaxSessions < Cardinality(P)
    BY <1>2, Constants
  <2>. HIDE DEF f
  <2>. QED BY <1>2, <1>4, <1>5, <1>7, <2>1, FS_PigeonHole
<1>. QED BY <1>2, <1>8, Constants DEF P

-----------------------------------------------------------------------------
(* Type correctness and the form of memory and file.                        *)

\* Memory holds turns of the past, each in one session.
LEMMA MemoryForm ==
  ASSUME PastOK
  PROVE  /\ Disjoint(sessions)
         /\ \A k \in Keys : /\ sessions[k] \subseteq 1..now
                            /\ sessions[k] \subseteq recorded[k] \ removed[k]
<1>1. \A k \in Keys : sessions[k] \subseteq recorded[k] \ removed[k]
  <2>1. \A k \in Keys : sessions[k] = Kept(recorded[k] \ removed[k], limit)
    BY DEF PastOK
  <2>2. ASSUME NEW k \in Keys
        PROVE  Kept(recorded[k] \ removed[k], limit) \subseteq recorded[k] \ removed[k]
    BY KeptForm
  <2>. QED BY <2>1, <2>2
<1>. QED BY <1>1 DEF PastOK, Disjoint

\* What recordSession does to memory: the new turn is there, its session has
\* lost old turns only, other sessions stay as they are or are evicted.
LEMMA AnswerEffect ==
  ASSUME TypeOK, PastOK, NEW h \in Handlers, NEW isOwner \in BOOLEAN,
         Answer(h, isOwner)
  PROVE  LET k == asking[h]
             all == sessions[k] \cup {now + 1}
         IN  /\ k \in Keys /\ now + 1 \in Turns
             /\ sessions' \in Sessions /\ Fits(sessions')
             /\ now + 1 \in sessions'[k] /\ sessions'[k] = LastTurns(all, TurnLimit(isOwner))
             /\ \A j \in Keys \ {k} : sessions'[j] = sessions[j] \/ sessions'[j] = {}
             /\ \A gone, stays \in Keys :
                  gone \in Present(sessions) \ Present(sessions') /\ stays \in Present(sessions')
                    => Newest(sessions[gone]) < Newest(sessions'[stays])
<1>. DEFINE k == asking[h]
            n == now + 1
            lim == TurnLimit(isOwner)
            all == sessions[k] \cup {n}
            s == [sessions EXCEPT ![k] = LastTurns(all, lim)]
<1>1. /\ k \in Keys /\ n \in Turns /\ n \in Int /\ all \in SUBSET Turns /\ all \subseteq Int
      /\ \A u \in all : u <= n
      /\ \A j \in Keys : n \notin sessions[j]
  <2>1. k \in Keys /\ n \in Turns /\ now \in Nat
    BY Constants DEF Answer, TypeOK, Turns
  <2>2. \A j \in Keys : sessions[j] \in SUBSET Turns /\ sessions[j] \subseteq 1..now
    BY MemoryForm DEF TypeOK, Sessions
  <2>3. \A j \in Keys : n \notin sessions[j]
    BY <2>1, <2>2
  <2>4. all \in SUBSET Turns
    BY <2>1, <2>2
  <2>5. \A u \in all : u \in Int /\ u <= n
    BY <2>1, <2>2
  <2>6. n \in Int
    BY <2>1
  <2>. QED BY <2>1, <2>3, <2>4, <2>5, <2>6
<1>2. lim \in Nat /\ lim > 0 /\ lim <= OwnerTurns
  BY Limits
<1>. HIDE DEF all, lim
<1>3. sessions' = WithoutOldest(s)
  BY DEF Answer, Extended, all, lim
<1>4. LastTurns(all, lim) \in SUBSET all /\ LastTurns(all, lim) \in SUBSET Turns
  BY <1>1, <1>2, LastTurnsSuffix
<1>5. s \in Sessions /\ s[k] = LastTurns(all, lim) /\ \A j \in Keys \ {k} : s[j] = sessions[j]
  BY <1>1, <1>4 DEF TypeOK, Sessions
<1>6. n \in s[k]
  <2>1. {u \in all : u > n} = {}
    <3>1. \A u \in all : ~(u > n)
      BY <1>1
    <3>. QED BY <3>1
  <2>2. n \in all
    BY DEF all
  <2>. QED BY <1>2, <1>5, <2>1, <2>2, FS_EmptySet DEF LastTurns
<1>7. Disjoint(s)
  <2>1. Disjoint(sessions)
    BY MemoryForm
  <2>2. \A j \in Keys \ {k} : s[k] \cap s[j] = {}
    <3>. SUFFICES ASSUME NEW j \in Keys \ {k}, NEW t \in s[k], t \in s[j] PROVE FALSE
      OBVIOUS
    <3>1. t \in sessions[k] \/ t = n
      BY <1>4, <1>5 DEF all
    <3>2. t \in sessions[j] /\ n \notin sessions[j]
      BY <1>1, <1>5
    <3>. QED BY <1>1, <2>1, <3>1, <3>2 DEF Disjoint
  <2>. QED BY <1>5, <2>1, <2>2 DEF Disjoint
<1>. HIDE DEF s
<1>8. sessions' \in Sessions /\ \A j \in Keys : sessions'[j] = s[j] \/ sessions'[j] = {}
  BY <1>3, <1>5, WithoutOldestForm
<1>9. \A j \in Keys : s[j] # {} => Newest(s[j]) \in s[j] /\ Newest(s[j]) \in Int
  BY <1>5, NewestOf DEF Present
<1>10. sessions'[k] = s[k]
  <2>1. Newest(s[k]) = n
    <3>1. s[k] \in SUBSET Turns /\ s[k] # {}
      BY <1>1, <1>5, <1>6 DEF Sessions
    <3>2. Newest(s[k]) \in s[k] /\ n <= Newest(s[k])
      BY <3>1, <1>6, NewestExists
    <3>3. Newest(s[k]) <= n /\ Newest(s[k]) \in Int /\ n \in Int
      <4>1. Newest(s[k]) \in all
        BY <1>4, <1>5, <3>2
      <4>. QED BY <1>1, <4>1
    <3>. QED BY <3>2, <3>3
  <2>2. \A j \in Keys : s[j] # {} => Newest(s[j]) <= n
    <3>. SUFFICES ASSUME NEW j \in Keys, s[j] # {} PROVE Newest(s[j]) <= n
      OBVIOUS
    <3>1. CASE j = k
      BY <1>1, <2>1, <3>1 DEF Turns
    <3>2. CASE j # k
      <4>1. Newest(s[j]) \in 1..now
        BY <1>5, <1>9, <3>2, MemoryForm
      <4>. QED BY <4>1 DEF TypeOK
    <3>. QED BY <3>1, <3>2
  <2>3. Newer(s, k) = {}
    BY <1>1, <1>9, <2>1, <2>2 DEF Newer, Present, Turns
  <2>. QED BY <1>1, <1>3, <1>5, <1>6, <2>3, WithoutOldestForm, FS_EmptySet, Constants
<1>11. Fits(sessions')
  <2>1. \A j \in Keys : Cardinality(sessions'[j]) <= OwnerTurns
    <3>1. Cardinality(LastTurns(all, lim)) <= OwnerTurns
      <4>1. Cardinality(LastTurns(all, lim)) <= lim
        BY <1>1, <1>2, LastTurnsSize
      <4>2. Cardinality(LastTurns(all, lim)) \in Nat
        BY <1>4, TurnsFinite
      <4>. QED BY <4>1, <4>2, <1>2, Constants
    <3>2. \A j \in Keys : Cardinality(sessions[j]) <= OwnerTurns
      BY DEF TypeOK, Fits
    <3>3. Cardinality({}) <= OwnerTurns
      BY FS_EmptySet, Constants
    <3>. QED BY <1>5, <1>8, <3>1, <3>2, <3>3
  <2>2. Cardinality(Present(sessions')) <= MaxSessions
    BY <1>3, <1>5, <1>7, WithoutOldestSize
  <2>. QED BY <2>1, <2>2 DEF Fits
<1>12. ASSUME NEW gone \in Keys, NEW stays \in Keys,
              gone \in Present(sessions) \ Present(sessions'), stays \in Present(sessions')
       PROVE  Newest(sessions[gone]) < Newest(sessions'[stays])
  <2>1. /\ gone # k /\ s[gone] = sessions[gone] /\ s[gone] # {} /\ sessions'[gone] = {}
        /\ sessions'[stays] = s[stays] /\ s[stays] # {} /\ gone # stays
    BY <1>1, <1>5, <1>6, <1>8, <1>10, <1>12 DEF Present
  <2>2. Newest(s[gone]) \in Int /\ Newest(s[stays]) \in Int /\ Newest(s[gone]) # Newest(s[stays])
    BY <1>5, <1>7, <2>1, NewestOf DEF Present
  <2>3. ~(Newest(s[stays]) < Newest(s[gone]))
    <3>. SUFFICES ASSUME Newest(s[stays]) < Newest(s[gone]) PROVE FALSE
      OBVIOUS
    <3>1. Newer(s, gone) \in SUBSET Newer(s, stays)
      BY <1>9, <2>2 DEF Newer, Present
    <3>2. Cardinality(Newer(s, gone)) <= Cardinality(Newer(s, stays))
          /\ Cardinality(Newer(s, gone)) \in Nat /\ Cardinality(Newer(s, stays)) \in Nat
      BY <1>5, <3>1, NewerCount
    <3>3. Cardinality(Newer(s, stays)) < MaxSessions
      BY <1>3, <1>5, <2>1, WithoutOldestForm
    <3>4. ~(Cardinality(Newer(s, gone)) < MaxSessions)
      BY <1>3, <1>5, <2>1, WithoutOldestForm
    <3>. QED BY <3>2, <3>3, <3>4, Constants
  <2>. QED BY <2>1, <2>2, <2>3
<1>13. sessions'[k] = LastTurns(all, lim) /\ n \in sessions'[k]
  BY <1>5, <1>6, <1>10
<1>14. \A j \in Keys \ {k} : sessions'[j] = sessions[j] \/ sessions'[j] = {}
  BY <1>5, <1>8
<1>. QED BY <1>1, <1>8, <1>11, <1>12, <1>13, <1>14 DEF all, lim

\* The steps of the specification, by name.
LEMMA StepCases ==
  ASSUME [Next]_vars
  PROVE  \/ \E h \in Handlers, k \in Keys : Ask(h, k)
         \/ \E h \in Handlers : NoAnswer(h)
         \/ \E h \in Handlers, isOwner \in BOOLEAN : Answer(h, isOwner)
         \/ \E k \in Keys : Clear(k)
         \/ Save \/ LastSave
         \/ \E ok \in BOOLEAN : Write(ok)
         \/ Cancel \/ StopSessionStore \/ Exit \/ Restart \/ Age \/ UNCHANGED vars
BY DEF Next

\* What getSessionHistory, clearSession and the removal of expired sessions do
\* to memory: each session stays or goes.
Thinned == /\ sessions' \in Sessions
           /\ \A k \in Keys : sessions'[k] = sessions[k] \/ sessions'[k] = {}

LEMMA ThinnedFits ==
  ASSUME TypeOK, Thinned
  PROVE  Fits(sessions')
BY SmallerFits DEF Thinned, TypeOK

LEMMA ThinningSteps ==
  ASSUME TypeOK
  PROVE  /\ \A h \in Handlers, k \in Keys : Ask(h, k) => Thinned
         /\ \A k \in Keys : Clear(k) => Thinned
         /\ \A a, o : Snapshot(a, o) => Thinned
<1>1. ASSUME NEW h \in Handlers, NEW k \in Keys, Ask(h, k) PROVE Thinned
  BY <1>1 DEF Ask, Thinned, TypeOK, Sessions
<1>2. ASSUME NEW k \in Keys, Clear(k) PROVE Thinned
  BY <1>2 DEF Clear, Thinned, TypeOK, Sessions
<1>3. ASSUME NEW a, NEW o, Snapshot(a, o) PROVE Thinned
  BY <1>3, LiveOnlyForm DEF Snapshot, Thinned, TypeOK
<1>. QED BY <1>1, <1>2, <1>3

\* The snapshot is cut to PersistTurns and fits into memory.
LEMMA SnapshotForm ==
  ASSUME TypeOK, PastOK, NEW a, NEW o, Snapshot(a, o)
  PROVE  /\ buf' \in Sessions /\ Disjoint(buf') /\ Fits(buf')
         /\ \A k \in Keys : /\ buf'[k] \subseteq sessions[k]
                            /\ LastTurns(buf'[k], PersistTurns) = buf'[k]
                            /\ Kept(buf'[k], limit) = buf'[k]
<1>1. /\ sessions' \in Sessions /\ Fits(sessions')
      /\ \A k \in Keys : sessions'[k] \subseteq sessions[k] /\ sessions'[k] \in SUBSET Turns
  BY ThinningSteps, ThinnedFits DEF Thinned, Sessions
<1>2. buf' = [k \in Keys |-> LastTurns(sessions'[k], PersistTurns)]
  BY DEF Snapshot
<1>3. \A k \in Keys : /\ LastTurns(sessions'[k], PersistTurns) \subseteq sessions'[k]
                      /\ LastTurns(LastTurns(sessions'[k], PersistTurns), PersistTurns)
                         = LastTurns(sessions'[k], PersistTurns)
  BY <1>1, Constants, LastTurnsSuffix, LastTurnsAgain
<1>4. buf' \in Sessions /\ \A k \in Keys : buf'[k] \subseteq sessions'[k]
  BY <1>1, <1>2, <1>3 DEF Sessions
<1>5. Fits(buf')
  BY <1>1, <1>4, SmallerFits
<1>6. Disjoint(buf')
  BY <1>1, <1>4, MemoryForm DEF Disjoint
<1>7. ASSUME NEW k \in Keys PROVE Kept(buf'[k], limit) = buf'[k]
  <2>1. /\ recorded[k] \ removed[k] \in SUBSET Turns /\ limit \in [Turns -> Nat]
        /\ buf'[k] \in SUBSET Kept(recorded[k] \ removed[k], limit)
    BY <1>1, <1>4, Limits DEF TypeOK, Sessions, PastOK
  <2>. QED BY <2>1, KeptAgain
<1>. QED BY <1>1, <1>2, <1>3, <1>4, <1>5, <1>6, <1>7

\* Nothing at all fits, and so does its snapshot.
LEMMA EmptyForm ==
  LET none == [k \in Keys |-> {}]
  IN  /\ none \in Sessions /\ Disjoint(none) /\ Fits(none)
      /\ \A k \in Keys : /\ none[k] = {} /\ LastTurns(none[k], PersistTurns) = none[k]
                         /\ \A l : Kept(none[k], l) = none[k]
<1>. DEFINE none == [k \in Keys |-> {}]
<1>1. none \in Sessions /\ Disjoint(none)
  BY DEF Sessions, Disjoint
<1>2. Present(none) = {}
  BY DEF Present
<1>3. Fits(none)
  BY <1>2, FS_EmptySet, Constants DEF Fits
<1>4. LastTurns({}, PersistTurns) = {}
  BY DEF LastTurns
<1>. QED BY <1>1, <1>3, <1>4, KeptForm

\* What was recorded of removed contexts keeps its type.
LEMMA RemovedType == TypeOK => \A K : Removed(K) \in Sessions
BY DEF TypeOK, Sessions, Removed

\* Every variable keeps its type on every step.
LEMMA TypeStep == TypeOK /\ PastOK /\ FileOK /\ [Next]_vars => TypeOK'
<1>. SUFFICES ASSUME TypeOK, PastOK, FileOK, [Next]_vars PROVE TypeOK'
  OBVIOUS
<1>. USE DEF handling, saving, shutdown, memory, history
<1>1. ASSUME NEW h \in Handlers, NEW k \in Keys, Ask(h, k) PROVE TypeOK'
  <2>1. sessions' \in Sessions /\ Fits(sessions')
    BY <1>1, ThinningSteps, ThinnedFits DEF Thinned
  <2>2. asking' \in [Handlers -> Keys \cup {NoKey}] /\ context' \in [Handlers -> SUBSET Turns]
    BY <1>1, <2>1 DEF Ask, TypeOK, Sessions
  <2>. QED BY <1>1, <2>1, <2>2, RemovedType DEF Ask, TypeOK
<1>2. ASSUME NEW h \in Handlers, NoAnswer(h) PROVE TypeOK'
  BY <1>2 DEF NoAnswer, TypeOK
<1>3. ASSUME NEW h \in Handlers, NEW isOwner \in BOOLEAN, Answer(h, isOwner) PROVE TypeOK'
  <2>1. /\ asking[h] \in Keys /\ now + 1 \in Turns
        /\ sessions' \in Sessions /\ Fits(sessions')
    BY <1>3, AnswerEffect
  <2>2. now' \in 0..MaxTurns /\ horizon' \in 0..now'
    BY <1>3, <2>1, Constants DEF Answer, TypeOK, Turns
  <2>3. asking' \in [Handlers -> Keys \cup {NoKey}] /\ context' \in [Handlers -> SUBSET Turns]
    BY <1>3 DEF Answer, TypeOK
  <2>4. recorded' \in Sessions
    BY <1>3, <2>1 DEF Answer, TypeOK, Sessions
  <2>5. limit' \in [Turns -> {GuestTurns, OwnerTurns}]
    BY <1>3, Limits DEF Answer, TypeOK
  <2>. QED BY <1>3, <2>1, <2>2, <2>3, <2>4, <2>5, RemovedType DEF Answer, TypeOK
<1>4. ASSUME NEW k \in Keys, Clear(k) PROVE TypeOK'
  <2>1. sessions' \in Sessions /\ Fits(sessions')
    BY <1>4, ThinningSteps, ThinnedFits DEF Thinned
  <2>. QED BY <1>4, <2>1, RemovedType DEF Clear, TypeOK
<1>5. ASSUME NEW a, NEW o, Snapshot(a, o), a \in {"write", "lastWrite"}, o \in {"loop", "done"},
             UNCHANGED <<handling, shutdown, now, horizon, limit, recorded>>
      PROVE  TypeOK'
  <2>1. sessions' \in Sessions /\ Fits(sessions') /\ buf' \in Sessions
    BY <1>5, ThinningSteps, ThinnedFits, SnapshotForm DEF Thinned
  <2>2. saver' \in {a, o}
    BY <1>5 DEF Snapshot
  <2>. QED BY <1>5, <2>1, <2>2, RemovedType DEF Snapshot, TypeOK
<1>6. ASSUME NEW ok \in BOOLEAN, Write(ok) PROVE TypeOK'
  BY <1>6, EmptyForm DEF Write, TypeOK
<1>7. CASE LastSave /\ ~dirty
  BY <1>7 DEF LastSave, Snapshot, TypeOK
<1>8. CASE Cancel \/ StopSessionStore \/ Exit
  BY <1>8 DEF Cancel, StopSessionStore, Exit, TypeOK
<1>9. CASE Restart
  <2>1. sessions' \in Sessions /\ Fits(sessions')
    <3>1. disk \in Sessions /\ Fits(disk) /\ sessions' = LiveOnly(disk)
      BY <1>9 DEF Restart, TypeOK, FileOK, FileForm
    <3>2. sessions' \in Sessions /\ \A k \in Keys : sessions'[k] \subseteq disk[k]
      BY <3>1, LiveOnlyForm
    <3>. QED BY <3>1, <3>2, SmallerFits
  <2>. QED BY <1>9, <2>1, EmptyForm DEF Restart, TypeOK
<1>10. CASE Age
  <2>1. horizon' \in 0..now'
    BY <1>10 DEF Age, TypeOK
  <2>. QED BY <1>10, <2>1 DEF Age, TypeOK
<1>11. CASE UNCHANGED vars
  BY <1>11 DEF vars, TypeOK
<1>12. CASE Save
  BY <1>5, <1>12 DEF Save
<1>13. CASE LastSave /\ dirty
  BY <1>5, <1>13 DEF LastSave
<1>. QED BY StepCases, <1>1, <1>2, <1>3, <1>4, <1>6, <1>7, <1>8, <1>9, <1>10, <1>11, <1>12, <1>13

-----------------------------------------------------------------------------
(* What memory holds.                                                       *)

\* A key's context is removed, with all its turns, or left alone.
RemovedOrLeft ==
  \A k \in Keys : \/ sessions'[k] = sessions[k] /\ removed'[k] = removed[k]
                  \/ sessions'[k] = {} /\ removed'[k] = recorded[k]

\* Memory holds what was recorded and not cut off, after every step.
LEMMA PastStep == TypeOK /\ PastOK /\ FileOK /\ [Next]_vars => PastOK'
<1>. SUFFICES ASSUME TypeOK, PastOK, FileOK, [Next]_vars PROVE PastOK'
  OBVIOUS
<1>. USE DEF handling, saving, shutdown, memory, history
<1>1. ASSUME RemovedOrLeft, UNCHANGED <<now, limit, recorded>> PROVE PastOK'
  <2>1. ASSUME NEW k \in Keys
        PROVE  /\ removed'[k] \subseteq recorded'[k]
               /\ sessions'[k] = Kept(recorded'[k] \ removed'[k], limit')
    <3>1. CASE sessions'[k] = sessions[k] /\ removed'[k] = removed[k]
      BY <1>1, <3>1 DEF PastOK
    <3>2. CASE sessions'[k] = {} /\ removed'[k] = recorded[k]
      <4>1. recorded'[k] \ removed'[k] = {}
        BY <1>1, <3>2
      <4>. QED BY <1>1, <3>2, <4>1, KeptForm
    <3>. QED BY <1>1, <3>1, <3>2 DEF RemovedOrLeft
  <2>. QED BY <1>1, <2>1 DEF PastOK
<1>2. ASSUME UNCHANGED <<sessions, now, history>> PROVE PastOK'
  BY <1>2 DEF PastOK
<1>3. ASSUME NEW h \in Handlers, NEW k \in Keys, Ask(h, k) PROVE PastOK'
  <2>1. ASSUME NEW j \in Keys
        PROVE  \/ sessions'[j] = sessions[j] /\ removed'[j] = removed[j]
               \/ sessions'[j] = {} /\ removed'[j] = recorded[j]
    <3>1. /\ sessions'[k] = IF Live(sessions[k]) THEN sessions[k] ELSE {}
          /\ j # k => sessions'[j] = sessions[j]
          /\ removed'[j] = IF j \in {k} \ Present(sessions') THEN recorded[j] ELSE removed[j]
      BY <1>3 DEF Ask, TypeOK, Sessions, Removed
    <3>2. Live(sessions[k]) => sessions[k] # {}
      BY DEF Live
    <3>. QED BY <3>1, <3>2 DEF Present
  <2>. QED BY <1>1, <1>3, <2>1 DEF Ask, RemovedOrLeft
<1>4. ASSUME NEW h \in Handlers, NoAnswer(h) PROVE PastOK'
  BY <1>2, <1>4 DEF NoAnswer
<1>5. ASSUME NEW h \in Handlers, NEW isOwner \in BOOLEAN, Answer(h, isOwner)
      PROVE  PastOK'
  <2>. DEFINE k == asking[h]
              n == now + 1
              R(j) == recorded[j] \ removed[j]
  <2>1. /\ k \in Keys /\ n \in Turns
        /\ n \in sessions'[k] /\ sessions'[k] = LastTurns(sessions[k] \cup {n}, TurnLimit(isOwner))
        /\ \A j \in Keys \ {k} : sessions'[j] = sessions[j] \/ sessions'[j] = {}
    BY <1>5, AnswerEffect
  <2>2. /\ now' = n /\ now \in Nat
        /\ recorded'[k] = recorded[k] \cup {n}
        /\ \A j \in Keys \ {k} : recorded'[j] = recorded[j]
        /\ limit' = [limit EXCEPT ![n] = TurnLimit(isOwner)]
        /\ limit \in [Turns -> Nat]
    BY <1>5, <2>1, Limits DEF Answer, TypeOK, Sessions
  <2>3. \A j \in Keys : /\ recorded[j] \subseteq 1..now /\ n \notin recorded[j]
                        /\ R(j) \in SUBSET Turns /\ n \notin removed[j]
                        /\ removed[j] \subseteq recorded[j]
    <3>1. \A j \in Keys : /\ recorded[j] \subseteq 1..now /\ recorded[j] \subseteq Turns
                          /\ removed[j] \subseteq recorded[j]
      BY DEF PastOK, TypeOK, Sessions
    <3>2. n \notin 1..now
      BY <2>2
    <3>. QED BY <3>1, <3>2
  <2>4. \A j \in Keys : removed'[j] = IF j \in Present(sessions) \ Present(sessions')
                                      THEN recorded[j] ELSE removed[j]
    BY <1>5 DEF Answer, Removed
  <2>5. \A j \in Keys : recorded'[j] \subseteq 1..now'
    BY <2>1, <2>2, <2>3 DEF Turns
  <2>6. Disjoint(recorded')
    <3>1. ASSUME NEW i \in Keys, NEW j \in Keys, i # j
          PROVE  recorded'[i] \cap recorded'[j] = {}
      BY <2>2, <2>3, <3>1 DEF PastOK, Disjoint
    <3>. QED BY <3>1 DEF Disjoint
  <2>7. ASSUME NEW j \in Keys
        PROVE  /\ removed'[j] \subseteq recorded'[j]
               /\ sessions'[j] = Kept(recorded'[j] \ removed'[j], limit')
    <3>1. CASE j = k
      <4>1. recorded'[k] \ removed'[k] = R(k) \cup {n} /\ removed'[k] = removed[k]
        BY <2>1, <2>2, <2>3, <2>4 DEF Present
      <4>2. \A t \in R(k) : t < n
        BY <2>1, <2>2, <2>3
      <4>3. Kept(R(k) \cup {n}, limit') = LastTurns(Kept(R(k), limit) \cup {n}, TurnLimit(isOwner))
        <5>1. R(k) \in SUBSET Turns
          BY <2>1, <2>3
        <5>2. TurnLimit(isOwner) \in Nat /\ TurnLimit(isOwner) > 0
          BY Limits
        <5>3. n \in Turns /\ limit \in [Turns -> Nat]
              /\ limit' = [limit EXCEPT ![n] = TurnLimit(isOwner)]
          BY <2>1, <2>2
        <5>. HIDE DEF R, n, k
        <5>4. Kept(R(k) \cup {n}, [limit EXCEPT ![n] = TurnLimit(isOwner)])
                = LastTurns(Kept(R(k), limit) \cup {n}, TurnLimit(isOwner))
          BY <4>2, <5>1, <5>2, <5>3, KeptNext
        <5>. QED BY <5>3, <5>4
      <4>4. sessions[k] = Kept(R(k), limit)
        BY <2>1 DEF PastOK
      <4>. QED BY <2>1, <2>2, <2>3, <3>1, <4>1, <4>3, <4>4
    <3>2. CASE j # k /\ sessions'[j] = sessions[j]
      <4>1. removed'[j] = removed[j] /\ recorded'[j] = recorded[j]
        BY <2>2, <2>4, <3>2 DEF Present
      <4>2. \A u \in R(j) : limit'[u] = limit[u]
        BY <2>1, <2>2, <2>3
      <4>3. Kept(R(j), limit') = Kept(R(j), limit)
        BY <4>2, KeptLimits
      <4>. QED BY <2>3, <3>2, <4>1, <4>3 DEF PastOK
    <3>3. CASE j # k /\ sessions'[j] = {} /\ sessions[j] # {}
      <4>1. removed'[j] = recorded[j] /\ recorded'[j] = recorded[j]
        BY <2>2, <2>4, <3>3 DEF Present
      <4>2. recorded'[j] \ removed'[j] = {}
        BY <4>1
      <4>. QED BY <3>3, <4>1, <4>2, KeptForm
    <3>. QED BY <2>1, <3>1, <3>2, <3>3
  <2>. QED BY <2>5, <2>6, <2>7 DEF PastOK
<1>6. ASSUME NEW k \in Keys, Clear(k) PROVE PastOK'
  <2>1. RemovedOrLeft
    BY <1>6 DEF Clear, RemovedOrLeft, Removed, TypeOK, Sessions
  <2>. QED BY <1>1, <1>6, <2>1 DEF Clear
<1>7. ASSUME NEW a, NEW o, Snapshot(a, o), UNCHANGED <<now, limit, recorded>> PROVE PastOK'
  <2>1. ASSUME NEW j \in Keys
        PROVE  \/ sessions'[j] = sessions[j] /\ removed'[j] = removed[j]
               \/ sessions'[j] = {} /\ removed'[j] = recorded[j]
    <3>1. /\ sessions'[j] = sessions[j] \/ sessions'[j] = {}
          /\ removed'[j] = IF j \in Present(sessions) \ Present(sessions')
                           THEN recorded[j] ELSE removed[j]
      BY <1>7, ThinningSteps DEF Thinned, Snapshot, Removed
    <3>. QED BY <3>1 DEF Present
  <2>. QED BY <1>1, <1>7, <2>1 DEF RemovedOrLeft
<1>8. CASE Save
  BY <1>7, <1>8 DEF Save
<1>9. CASE LastSave
  BY <1>2, <1>7, <1>9 DEF LastSave
<1>10. ASSUME NEW ok \in BOOLEAN, Write(ok) PROVE PastOK'
  BY <1>2, <1>10 DEF Write
<1>11. CASE Cancel \/ StopSessionStore \/ Exit \/ Age \/ UNCHANGED vars
  BY <1>2, <1>11 DEF Cancel, StopSessionStore, Exit, Age, vars
<1>12. CASE Restart
  <2>1. /\ sessions' = LiveOnly(disk) /\ recorded' = sessions' /\ now' = now
        /\ removed' = [k \in Keys |-> {}] /\ limit' = limit
        /\ disk \in Sessions /\ Disjoint(disk)
        /\ \A k \in Keys : disk[k] \subseteq 1..now /\ Kept(disk[k], limit) = disk[k]
    BY <1>12 DEF Restart, TypeOK, FileOK, FileForm
  <2>2. \A k \in Keys : sessions'[k] = disk[k] \/ sessions'[k] = {}
    BY <2>1, LiveOnlyForm
  <2>3. Disjoint(recorded')
    BY <2>1, <2>2 DEF Disjoint
  <2>4. \A k \in Keys : sessions'[k] = Kept(recorded'[k] \ removed'[k], limit')
    <3>1. \A k \in Keys : recorded'[k] \ removed'[k] = sessions'[k]
      BY <2>1
    <3>2. \A k \in Keys : Kept(sessions'[k], limit) = sessions'[k]
      BY <2>1, <2>2, KeptForm
    <3>. QED BY <2>1, <3>1, <3>2
  <2>. QED BY <2>1, <2>2, <2>3, <2>4 DEF PastOK
<1>. QED BY StepCases, <1>3, <1>4, <1>5, <1>6, <1>8, <1>9, <1>10, <1>11, <1>12

-----------------------------------------------------------------------------
(* What the file holds.                                                     *)

\* The file and the snapshot keep their form.
LEMMA FileStep == TypeOK /\ PastOK /\ FileOK /\ [Next]_vars => FileOK'
<1>. SUFFICES ASSUME TypeOK, PastOK, FileOK, [Next]_vars PROVE FileOK'
  OBVIOUS
<1>. USE DEF handling, saving, shutdown, memory, history
<1>1. now \in Nat /\ now' \in Nat /\ now <= now'
  <2>1. now \in Nat
    BY DEF TypeOK
  <2>2. now' = now \/ now' = now + 1
    BY StepCases DEF Ask, NoAnswer, Answer, Clear, Save, LastSave, Write, Cancel,
                     StopSessionStore, Exit, Restart, Age, vars
  <2>. QED BY <2>1, <2>2
<1>2. 1..now \subseteq 1..now'
  BY <1>1
<1>3. ASSUME NEW f \in Sessions, FileForm(f), UNCHANGED f PROVE FileForm(f)'
  <2>1. ASSUME NEW k \in Keys PROVE Kept(f[k], limit') = f[k]
    <3>1. \A u \in f[k] : u \in Int /\ u # now + 1
      BY <1>1, <1>3 DEF FileForm
    <3>2. \A u \in f[k] : limit'[u] = limit[u]
      <4>1. \/ limit' = limit
            \/ \E isOwner \in BOOLEAN : limit' = [limit EXCEPT ![now + 1] = TurnLimit(isOwner)]
        BY StepCases DEF Ask, NoAnswer, Answer, Clear, Save, LastSave, Write, Cancel,
                         StopSessionStore, Exit, Restart, Age, vars
      <4>2. \A u \in f[k] : u \in Turns
        BY DEF Sessions
      <4>. QED BY <3>1, <4>1, <4>2 DEF TypeOK
    <3>. QED BY <1>3, <3>2, KeptLimits DEF FileForm
  <2>. QED BY <1>2, <1>3, <2>1 DEF FileForm
<1>4. ASSUME UNCHANGED <<disk, buf>> PROVE FileOK'
  BY <1>3, <1>4 DEF FileOK, TypeOK
<1>5. ASSUME NEW a, NEW o, Snapshot(a, o), UNCHANGED <<now, limit>> PROVE FileOK'
  <2>1. /\ Disjoint(buf') /\ Fits(buf')
        /\ \A k \in Keys : /\ buf'[k] \subseteq 1..now'
                           /\ LastTurns(buf'[k], PersistTurns) = buf'[k]
                           /\ Kept(buf'[k], limit') = buf'[k]
    BY <1>5, MemoryForm, SnapshotForm
  <2>. QED BY <1>2, <1>5, <2>1 DEF Snapshot, FileOK, FileForm
<1>6. ASSUME NEW ok \in BOOLEAN, Write(ok) PROVE FileOK'
  <2>1. /\ disk' = disk \/ disk' = buf
        /\ buf' = [k \in Keys |-> {}] /\ now' = now /\ limit' = limit
    BY <1>6 DEF Write
  <2>. QED BY <2>1, EmptyForm DEF FileOK, FileForm
<1>7. CASE Restart
  <2>1. disk' = disk /\ buf' = [k \in Keys |-> {}] /\ now' = now /\ limit' = limit
    BY <1>7 DEF Restart
  <2>. QED BY <2>1, EmptyForm DEF FileOK, FileForm
<1>8. CASE Save \/ LastSave
  BY <1>4, <1>5, <1>8 DEF Save, LastSave
<1>. QED BY StepCases, <1>4, <1>6, <1>7, <1>8
      DEF Ask, NoAnswer, Answer, Clear, Cancel, StopSessionStore, Exit, Age, vars

\* While nothing is dirty, the snapshot or the file mirrors memory.
LEMMA SavedStep == TypeOK /\ FileOK /\ SavedOK /\ [Next]_vars => SavedOK'
<1>. SUFFICES ASSUME TypeOK, FileOK, SavedOK, [Next]_vars PROVE SavedOK'
  OBVIOUS
<1>. USE DEF handling, saving, shutdown, memory, history
<1>1. ASSUME UNCHANGED <<dirty, disk, buf, saver, process, writeLost, horizon>>,
             \A k \in Keys : \/ sessions'[k] = sessions[k]
                             \/ ~Live(sessions[k]) /\ sessions'[k] = {}
      PROVE  SavedOK'
  <2>1. \A S : Live(S)' <=> Live(S)
    BY <1>1 DEF Live
  <2>2. \A k \in Keys : /\ Live(sessions'[k]) <=> Live(sessions[k])
                        /\ Live(sessions[k]) => sessions'[k] = sessions[k]
    BY <1>1 DEF Live
  <2>3. /\ Mirrors(buf) => Mirrors(buf)'
        /\ Mirrors(disk) => Mirrors(disk)'
    BY <1>1, <2>1, <2>2 DEF Mirrors, Live
  <2>4. (\A k \in Keys : ~Live(sessions[k])) => (\A k \in Keys : ~Live(sessions[k]))'
    BY <1>1, <2>2 DEF Live
  <2>. QED BY <1>1, <2>3, <2>4 DEF SavedOK, Up
<1>2. ASSUME NEW h \in Handlers, NEW k \in Keys, Ask(h, k) PROVE SavedOK'
  <2>1. \A j \in Keys : \/ sessions'[j] = sessions[j]
                        \/ ~Live(sessions[j]) /\ sessions'[j] = {}
    BY <1>2 DEF Ask, TypeOK, Sessions
  <2>. QED BY <1>1, <1>2, <2>1 DEF Ask
<1>3. ASSUME UNCHANGED <<sessions, dirty, disk, buf, saver, process, writeLost, horizon>>
      PROVE  SavedOK'
  BY <1>1, <1>3
<1>4. ASSUME dirty' PROVE SavedOK'
  BY <1>4 DEF SavedOK
<1>5. ASSUME NEW a \in {"write", "lastWrite"}, NEW o \in {"loop", "done"}, Snapshot(a, o),
             UNCHANGED <<process, horizon>>
      PROVE  SavedOK'
  <2>1. /\ \A k \in Keys : sessions'[k] = IF Live(sessions[k]) THEN sessions[k] ELSE {}
        /\ \A k \in Keys : buf'[k] = LastTurns(sessions'[k], PersistTurns)
    BY <1>5 DEF Snapshot, LiveOnly
  <2>2. CASE Present(sessions') = {}
    <3>1. saver' = o
      BY <1>5, <2>2 DEF Snapshot
    <3>2. \A k \in Keys : ~Live(sessions[k])'
      BY <2>2 DEF Present, Live
    <3>. QED BY <3>1, <3>2 DEF SavedOK
  <2>3. CASE Present(sessions') # {}
    <3>1. saver' = a
      BY <1>5, <2>3 DEF Snapshot
    <3>2. \A k \in Keys : Live(buf[k])' => Live(sessions[k])'
      BY <2>1 DEF Live, LastTurns
    <3>3. Mirrors(buf)'
      BY <2>1, <3>2 DEF Mirrors
    <3>. QED BY <3>1, <3>3 DEF SavedOK
  <2>. QED BY <2>2, <2>3
<1>6. ASSUME NEW ok \in BOOLEAN, Write(ok) PROVE SavedOK'
  <2>1. /\ UNCHANGED <<sessions, dirty, process, horizon>>
        /\ saver \in {"write", "lastWrite"} /\ saver' \in {"loop", "done"}
        /\ disk' = (IF ok THEN buf ELSE disk) /\ writeLost' = ~ok
    BY <1>6 DEF Write
  <2>2. CASE Up /\ ~dirty /\ ok
    <3>1. Mirrors(buf)
      BY <2>1, <2>2 DEF SavedOK
    <3>2. Mirrors(disk)'
      BY <2>1, <2>2, <3>1 DEF Mirrors, Live
    <3>. QED BY <2>1, <3>2 DEF SavedOK
  <2>3. CASE ~ok
    BY <2>1, <2>3 DEF SavedOK
  <2>4. CASE ~(Up /\ ~dirty)
    BY <2>1, <2>4 DEF SavedOK, Up
  <2>. QED BY <2>2, <2>3, <2>4
<1>7. CASE LastSave /\ ~dirty
  <2>1. /\ UNCHANGED <<sessions, dirty, disk, process, writeLost, horizon>>
        /\ saver = "loop" /\ saver' = "done"
    BY <1>7 DEF LastSave, Snapshot
  <2>. QED BY <2>1 DEF SavedOK, Mirrors, Live, Up
<1>8. CASE Exit
  BY <1>8 DEF Exit, SavedOK, Up
<1>9. CASE Restart
  <2>1. /\ sessions' = LiveOnly(disk) /\ disk' = disk /\ horizon' = horizon
        /\ saver' = "loop" /\ disk \in Sessions
        /\ \A k \in Keys : LastTurns(disk[k], PersistTurns) = disk[k]
    BY <1>9 DEF Restart, TypeOK, FileOK, FileForm
  <2>2. \A k \in Keys : IF Live(disk[k]) THEN sessions'[k] = disk[k] ELSE sessions'[k] = {}
    BY <2>1, LiveOnlyForm
  <2>3. \A k \in Keys : /\ Live(sessions[k])' <=> Live(disk[k])
                        /\ Live(disk[k])' <=> Live(disk[k])
    BY <2>1, <2>2 DEF Live
  <2>4. Mirrors(disk)'
    BY <2>1, <2>2, <2>3 DEF Mirrors
  <2>. QED BY <2>1, <2>4 DEF SavedOK
<1>10. CASE Age
  <2>1. /\ UNCHANGED <<sessions, dirty, disk, buf, saver, process, writeLost>>
        /\ horizon' = horizon + 1 /\ horizon \in Int
    BY <1>10 DEF Age, TypeOK
  <2>2. ASSUME NEW S \in SUBSET Turns, Live(S)' PROVE Live(S)
    <3>1. PICK t \in S : t > horizon + 1
      BY <2>1, <2>2 DEF Live
    <3>2. t \in Int /\ S \subseteq Int
      BY TurnsFinite
    <3>3. t > horizon
      BY <2>1, <3>1, <3>2
    <3>. QED BY <3>3 DEF Live
  <2>3. ASSUME NEW f \in Sessions, Mirrors(f),
               NEW k \in Keys
        PROVE  /\ Live(sessions[k])' => f[k] = LastTurns(sessions[k], PersistTurns)
               /\ (\E t \in f[k] : t > horizon') => Live(sessions[k])'
    <3>1. sessions[k] \in SUBSET Turns /\ f[k] \in SUBSET Turns
      BY DEF TypeOK, Sessions
    <3>2. Live(sessions[k])' => Live(sessions[k])
      BY <2>1, <2>2, <3>1
    <3>3. ASSUME NEW t \in f[k], t > horizon' PROVE Live(sessions[k])'
      <4>1. t > horizon
        BY <2>1, <3>1, <3>3, TurnsFinite
      <4>2. f[k] = LastTurns(sessions[k], PersistTurns)
        BY <2>3, <4>1 DEF Mirrors, Live
      <4>3. t \in sessions[k]
        BY <4>2 DEF LastTurns
      <4>. QED BY <2>1, <3>3, <4>3 DEF Live
    <3>. QED BY <2>3, <3>2, <3>3 DEF Mirrors
  <2>4. /\ Mirrors(buf) => Mirrors(buf)'
        /\ Mirrors(disk) => Mirrors(disk)'
    BY <2>1, <2>3 DEF Mirrors, Live, TypeOK
  <2>5. (\A k \in Keys : ~Live(sessions[k])) => (\A k \in Keys : ~Live(sessions[k]))'
    <3>1. \A k \in Keys : sessions[k] \in SUBSET Turns
      BY DEF TypeOK, Sessions
    <3>. QED BY <2>1, <2>2, <3>1
  <2>. QED BY <2>1, <2>4, <2>5 DEF SavedOK, Up
<1>11. CASE Save
  BY <1>5, <1>11 DEF Save
<1>12. CASE LastSave /\ dirty
  BY <1>5, <1>12 DEF LastSave
<1>13. ASSUME NEW h \in Handlers, NoAnswer(h) PROVE SavedOK'
  BY <1>3, <1>13 DEF NoAnswer
<1>14. ASSUME NEW h \in Handlers, NEW isOwner \in BOOLEAN, Answer(h, isOwner) PROVE SavedOK'
  BY <1>4, <1>14 DEF Answer
<1>15. ASSUME NEW k \in Keys, Clear(k) PROVE SavedOK'
  BY <1>4, <1>15 DEF Clear
<1>16. CASE Cancel \/ StopSessionStore \/ UNCHANGED vars
  BY <1>3, <1>16 DEF Cancel, StopSessionStore, vars
<1>. QED BY StepCases, <1>2, <1>6, <1>7, <1>8, <1>9, <1>10, <1>11, <1>12, <1>13, <1>14,
            <1>15, <1>16

-----------------------------------------------------------------------------
(* The theorems.                                                            *)

LEMMA InitIInv == Init => IInv
<1>. SUFFICES ASSUME Init PROVE IInv
  OBVIOUS
<1>1. TypeOK
  <2>1. sessions \in Sessions /\ Fits(sessions) /\ disk \in Sessions /\ buf \in Sessions
        /\ recorded \in Sessions /\ removed \in Sessions
    BY EmptyForm DEF Init
  <2>2. now \in 0..MaxTurns /\ horizon \in 0..now
    BY Constants DEF Init
  <2>3. asking \in [Handlers -> Keys \cup {NoKey}] /\ context \in [Handlers -> SUBSET Turns]
    BY DEF Init
  <2>. QED BY <2>1, <2>2, <2>3 DEF Init, TypeOK
<1>2. FileOK
  BY EmptyForm DEF Init, FileOK, FileForm
<1>3. PastOK
  BY EmptyForm, KeptForm DEF Init, PastOK
<1>4. SavedOK
  BY DEF Init, SavedOK, Live
<1>. QED BY <1>1, <1>2, <1>3, <1>4 DEF IInv

\* The inductive invariant holds in every reachable state.
THEOREM Invariant == Spec => []IInv
<1>1. IInv /\ [Next]_vars => IInv'
  BY TypeStep, PastStep, FileStep, SavedStep DEF IInv
<1>. QED BY InitIInv, <1>1, PTL DEF Spec

\* Every variable keeps its type, no session grows beyond an owner's limit and
\* no map beyond MaxSessions, restarts included.
THEOREM TypeCorrect == Spec => []TypeOK
BY Invariant, PTL DEF IInv

\* Handlers answering at the same time never lose each other's turn: of the turns
\* recorded since a context was last removed only those are missing that a later
\* speaker's limit cut off.
THEOREM NoTurnLostCorrect == Spec => []NoTurnLost
<1>1. IInv => NoTurnLost
  BY DEF IInv, PastOK, NoTurnLost
<1>. QED BY Invariant, <1>1, PTL

\* A context that was reset, has expired or was evicted does not come back while
\* the process runs.
THEOREM ClearedStaysClearedCorrect == Spec => []ClearedStaysCleared
<1>1. IInv => ClearedStaysCleared
  BY MemoryForm DEF IInv, ClearedStaysCleared
<1>. QED BY Invariant, <1>1, PTL

\* A map that is not marked dirty and not being written is what the file holds.
THEOREM CleanMeansSavedCorrect == Spec => []CleanMeansSaved
<1>1. IInv => CleanMeansSaved
  BY DEF IInv, SavedOK, Mirrors, CleanMeansSaved, Live
<1>. QED BY Invariant, <1>1, PTL

\* Recording a turn keeps the turn and evicts the least recently used sessions.
THEOREM EvictsOldestCorrect == Spec => EvictsOldest
<1>. DEFINE A == now' # now =>
                   /\ \E k \in Keys : now' \in sessions'[k]
                   /\ \A gone, stays \in Keys :
                        gone \in Present(sessions) \ Present(sessions')
                          /\ stays \in Present(sessions')
                            => Newest(sessions[gone]) < Newest(sessions'[stays])
<1>1. IInv /\ [Next]_vars => [A]_vars
  <2>. SUFFICES ASSUME IInv, [Next]_vars, now' # now PROVE A
    OBVIOUS
  <2>1. PICK h \in Handlers, isOwner \in BOOLEAN : Answer(h, isOwner)
    BY StepCases DEF Ask, NoAnswer, Clear, Save, LastSave, Write, Cancel,
                     StopSessionStore, Exit, Restart, Age, vars
  <2>. QED BY <2>1, AnswerEffect DEF IInv, Answer
<1>. QED BY Invariant, <1>1, PTL DEF Spec, EvictsOldest
=============================================================================
