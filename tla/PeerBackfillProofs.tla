------------------------- MODULE PeerBackfillProofs -------------------------
(***************************************************************************)
(* Proofs about a peer's backfill, for any number of pull requests, size   *)
(* of a page, shares of the page budget, window and freshness bound.       *)
(***************************************************************************)
EXTENDS PeerBackfill, FiniteSetTheorems, TLAPS

-----------------------------------------------------------------------------
(* Sets of numbers.                                                        *)

LEMMA Smallest ==
  ASSUME NEW T \in SUBSET Nat, T # {}
  PROVE  \E m \in T : \A x \in T : m <= x
<1>1. PICK k \in T : \A j \in T : ~ (<<j, k>> \in OpToRel(<, Nat))
  BY WFMin, NatLessThanWellFounded
<1>2. ASSUME NEW j \in T
      PROVE  k <= j
  <2>1. j \in Nat /\ k \in Nat
    OBVIOUS
  <2>2. j < k => <<j, k>> \in OpToRel(<, Nat)
    BY <2>1 DEF OpToRel
  <2>3. ~ (j < k)
    BY <1>1, <2>2
  <2>. QED
    BY <2>1, <2>3
<1>. QED
  BY <1>2

LEMMA Largest ==
  ASSUME NEW T \in SUBSET Nat, T # {}, NEW n \in Nat, \A x \in T : x <= n
  PROVE  \E m \in T : \A x \in T : x <= m
<1>. DEFINE S == {k \in Nat : k <= n /\ n - k \in T}
<1>1. S # {} /\ S \subseteq Nat
  <2>1. PICK x \in T : TRUE
    OBVIOUS
  <2>2. n - x \in Nat /\ n - x <= n /\ n - (n - x) = x
    OBVIOUS
  <2>. QED
    BY <2>1, <2>2
<1>2. PICK k \in S : \A j \in S : k <= j
  <2>. HIDE DEF S
  <2>. QED
    BY <1>1, Smallest
<1>3. ASSUME NEW x \in T
      PROVE  x <= n - k
  <2>1. n - x \in S
    <3>1. n - x \in Nat /\ n - x <= n /\ n - (n - x) = x
      OBVIOUS
    <3>. QED
      BY <3>1
  <2>2. k <= n - x /\ k \in Nat /\ n - x \in Nat
    BY <1>2, <2>1
  <2>. QED
    BY <2>2
<1>. QED
  BY <1>3

LEMMA SmallestIsMin ==
  ASSUME NEW T \in SUBSET Nat, T # {}
  PROVE  \E m \in T : m = (CHOOSE x \in T : \A y \in T : x <= y) /\ \A x \in T : m <= x
BY Smallest

LEMMA LargestIsMax ==
  ASSUME NEW T \in SUBSET Nat, T # {}, NEW n \in Nat, \A x \in T : x <= n
  PROVE  \E m \in T : m = (CHOOSE x \in T : \A y \in T : x >= y) /\ \A x \in T : x <= m
<1>1. PICK m \in T : \A x \in T : x <= m
  BY Largest
<1>2. \A x \in T : m >= x
  BY <1>1
<1>. QED
  BY <1>2

(* A bounded set of numbers is finite, and so are its parts.               *)
LEMMA Bounded ==
  ASSUME NEW n \in Nat, NEW S \in SUBSET (1..n)
  PROVE  /\ IsFiniteSet(S) /\ Cardinality(S) \in Nat /\ Cardinality(S) <= n
         /\ \A T \in SUBSET S : Cardinality(T) \in Nat /\ Cardinality(T) <= Cardinality(S)
<1>1. IsFiniteSet(1..n) /\ Cardinality(1..n) = n
  BY FS_Interval
<1>2. IsFiniteSet(S) /\ Cardinality(S) <= Cardinality(1..n)
  BY <1>1, FS_Subset
<1>3. ASSUME NEW T \in SUBSET S
      PROVE  Cardinality(T) \in Nat /\ Cardinality(T) <= Cardinality(S)
  BY <1>2, FS_Subset, FS_CardinalityType
<1>. QED
  BY <1>1, <1>2, <1>3, FS_CardinalityType

(* If an element has c larger ones, there are c elements with fewer.       *)
LEMMA RankCounts ==
  ASSUME NEW n \in Nat, NEW S \in SUBSET (1..n), NEW c \in Nat, NEW p \in S,
         Cardinality({q \in S : q > p}) >= c
  PROVE  Cardinality({x \in S : Cardinality({q \in S : q > x}) < c}) >= c
<1>. DEFINE Above(x) == {q \in S : q > x}
            T == {x \in S : Cardinality(Above(x)) < c}
<1>1. ASSUME NEW x \in S
      PROVE  x \in Nat /\ x <= n /\ Above(x) \subseteq S /\ Cardinality(Above(x)) \in Nat
  <2>1. x \in Nat /\ x <= n /\ Above(x) \subseteq S
    OBVIOUS
  <2>. HIDE DEF Above
  <2>. QED
    BY <2>1, Bounded
<1>2. PICK m \in S \ T : \A x \in S \ T : x <= m
  <2>1. p \in S \ T
    BY <1>1
  <2>. HIDE DEF T
  <2>2. S \ T \in SUBSET Nat /\ \A x \in S \ T : x <= n
    BY <1>1
  <2>. QED
    BY <2>1, <2>2, Largest
<1>3. Above(m) \subseteq T
  <2>. SUFFICES ASSUME NEW x \in S, x > m, x \notin T
                PROVE  FALSE
    OBVIOUS
  <2>1. x <= m
    BY <1>2
  <2>2. x \in Nat /\ m \in Nat
    BY <1>1
  <2>. QED
    BY <2>1, <2>2
<1>4. T \subseteq S
  OBVIOUS
<1>5. Cardinality(Above(m)) <= Cardinality(T)
  <2>1. IsFiniteSet(T)
    BY <1>4, Bounded, FS_Subset
  <2>. HIDE DEF T, Above
  <2>. QED
    BY <1>3, <2>1, FS_Subset
<1>6. Cardinality(Above(m)) >= c
  <2>1. m \in S /\ ~ (Cardinality(Above(m)) < c)
    BY <1>2
  <2>2. Cardinality(Above(m)) \in Nat
    BY <1>1, <2>1
  <2>. HIDE DEF Above
  <2>. QED
    BY <2>1, <2>2
<1>7. Cardinality(T) \in Nat
  <2>. HIDE DEF T
  <2>. QED
    BY <1>4, Bounded
<1>. QED
  BY <1>1, <1>2, <1>5, <1>6, <1>7

(* A finite set of numbers is bounded.                                     *)
LEMMA FiniteIsBounded ==
  ASSUME NEW S \in SUBSET Nat, IsFiniteSet(S)
  PROVE  \E n \in Nat : \A x \in S : x <= n
<1>. DEFINE c == Cardinality(S)
<1>1. c \in Nat /\ ExistsBijection(1..c, S)
  BY FS_CardinalityType
<1>. HIDE DEF c
<1>2. PICK f \in [1..c -> S] : \A x \in S : \E i \in 1..c : f[i] = x
  BY <1>1 DEF ExistsBijection, Bijection, Injection, Surjection, IsInjective
<1>. DEFINE I == {k \in 0..c : \E m \in Nat : \A j \in 1..k : f[j] <= m}
<1>3. PICK k \in I : \A j \in I : j <= k
  <2>1. 0 \in I
    BY <1>1
  <2>2. I \in SUBSET Nat /\ \A j \in I : j <= c
    BY <1>1
  <2>. HIDE DEF I
  <2>. QED
    BY <1>1, <2>1, <2>2, Largest
<1>4. PICK m \in Nat : \A j \in 1..k : f[j] <= m
  OBVIOUS
<1>5. k \in 0..c
  OBVIOUS
<1>6. CASE k < c
  <2>1. k + 1 \in 1..c /\ f[k + 1] \in Nat
    <3>. HIDE DEF I
    <3>1. k + 1 \in 1..c
      BY <1>1, <1>5, <1>6
    <3>2. f[k + 1] \in S
      BY <3>1
    <3>. QED
      BY <3>1, <3>2
  <2>. DEFINE most == IF f[k + 1] <= m THEN m ELSE f[k + 1]
  <2>2. most \in Nat /\ m <= most /\ f[k + 1] <= most
    BY <1>4, <2>1
  <2>3. ASSUME NEW j \in 1..(k + 1)
        PROVE  f[j] <= most
    <3>. HIDE DEF most
    <3>1. CASE j = k + 1
      BY <2>2, <3>1
    <3>2. CASE j # k + 1
      <4>1. j \in 1..k /\ j \in 1..c
        BY <1>1, <1>5, <1>6, <3>2
      <4>2. f[j] \in Nat /\ f[j] <= m
        BY <1>2, <1>4, <4>1
      <4>. QED
        BY <1>4, <2>2, <4>2
    <3>. QED
      BY <3>1, <3>2
  <2>4. k + 1 \in 0..c
    BY <1>1, <2>1
  <2>5. k + 1 \in I
    <3>. HIDE DEF most
    <3>. QED
      BY <2>2, <2>3, <2>4
  <2>6. k + 1 <= k
    <3>. HIDE DEF I
    <3>. QED
      BY <1>3, <2>5
  <2>. QED
    BY <1>5, <2>6
<1>7. CASE k = c
  BY <1>2, <1>4, <1>7
<1>. QED
  BY <1>1, <1>5, <1>6, <1>7

LEMMA Product ==
  ASSUME NEW a \in Nat \ {0}, NEW b \in Nat \ {0}
  PROVE  a * b \in Nat /\ a * b >= a /\ a * b >= 1
OBVIOUS

-----------------------------------------------------------------------------
(* The inductive invariant.                                                *)

(* What the store holds or this run is about to write.                     *)
Held == rows \cup buffer

(* The positions of created_desc: a first walk has seen everything there   *)
(* was when the story began, and a completed one has reached it.           *)
WindowWalked ==
  LET state == mark["created_desc"]
  IN  /\ InitialPRs <= created /\ InitialClosed \subseteq closed
      /\ state.newest <= created /\ state.high <= created
      /\ state.high # None => InitialPRs <= state.high
      /\ state.high = None /\ state.cursor # None =>
           InitialPRs <= state.newest /\ state.cursor <= state.newest
      /\ state.high = None /\ state.cursor = None => state.newest = None
      /\ state.age # Never => InitialPRs <= state.high

(* What it has passed is held, down to its cursor or up to its high        *)
(* watermark.                                                              *)
WindowHeld ==
  LET state == mark["created_desc"]
  IN  "crash" \notin faults =>
        /\ \A p \in PRs : (WindowStart <= p /\ p <= state.high) => p \in Held
        /\ state.high = None /\ state.cursor # None =>
             \A p \in PRs : (WindowStart <= p /\ state.cursor <= p /\ p <= state.newest) => p \in Held

(* What the other passes have passed is held, and what a completed one     *)
(* promises.                                                               *)
Done(pass) == mark[pass].age # Never \/ (mark[pass].written /\ mark[pass].cursor = None)

ListingsHeld ==
  faults \subseteq {"capped", "floor"} =>
    /\ \A p \in InitialOpen \cap open : p <= mark["open_prs"].cursor => p \in Held
    /\ \A p \in InitialClosed :
         Cardinality({q \in closed : q > p}) < mark["closed_search"].cursor => p \in Held
    /\ Done("open_prs") => InitialOpen \cap open \subseteq Held
    /\ Done("closed_search") => InitialClosed \subseteq Held

BufferInOrder == pc \in {"idle", "snapshot"} => buffer = {}

PeerInv == TypeOK /\ WindowWalked /\ WindowHeld /\ ListingsHeld /\ BufferInOrder

-----------------------------------------------------------------------------
LEMMA Constants ==
  /\ MaxPRs \in Nat /\ MaxPRs > 0 /\ PageSize \in Nat \ {0} /\ FreshDays \in Nat
  /\ Shares \subseteq Nat \ {0} /\ Shares # {}
  /\ WindowStart \in Nat /\ WindowStart > 0 /\ InitialPRs \in Nat /\ InitialPRs <= MaxPRs
  /\ PRs \subseteq Nat /\ Never \in Nat /\ Stale \in Nat
BY PeerAssumption DEF PRs, Never, Stale

-----------------------------------------------------------------------------
(* Pages of a walk.                                                        *)

LEMMA ListedTyped ==
  ASSUME TypeOK, NEW pass \in Passes, NEW c \in 0..MaxPRs
  PROVE  Listed(pass, c) \subseteq 1..MaxPRs /\ Listed(pass, c) \subseteq 1..created
<1>1. /\ created \in 0..MaxPRs /\ open \subseteq 1..created /\ closed \subseteq 1..created
      /\ 1..created \subseteq 1..MaxPRs
  BY Constants DEF TypeOK
<1>. QED
  BY <1>1 DEF Passes, Listed

LEMMA PagesTyped ==
  ASSUME TypeOK, NEW pass \in Passes, NEW c \in 0..MaxPRs, NEW k \in Nat
  PROVE  /\ Pages(pass, c, k) \subseteq Listed(pass, c)
         /\ Pages(pass, c, k) \subseteq 1..MaxPRs /\ Pages(pass, c, k) \subseteq 1..created
         /\ Pages(pass, c, k) \subseteq Nat
         /\ k * PageSize \in Nat
         /\ \A p \in 1..MaxPRs :
              LET before == {q \in Listed(pass, c) : Before(pass, q, p)}
              IN  before \subseteq 1..MaxPRs /\ Cardinality(before) \in Nat
                  /\ Cardinality(before) <= MaxPRs
<1>1. Pages(pass, c, k) \subseteq Listed(pass, c)
  BY DEF Pages
<1>2. k * PageSize \in Nat
  BY Constants
<1>3. ASSUME NEW p \in 1..MaxPRs
      PROVE  LET before == {q \in Listed(pass, c) : Before(pass, q, p)}
             IN  before \subseteq 1..MaxPRs /\ Cardinality(before) \in Nat
                 /\ Cardinality(before) <= MaxPRs
  <2>. DEFINE before == {q \in Listed(pass, c) : Before(pass, q, p)}
  <2>1. before \subseteq 1..MaxPRs
    BY ListedTyped
  <2>. HIDE DEF before
  <2>2. Cardinality(before) \in Nat /\ Cardinality(before) <= MaxPRs
    BY <2>1, Bounded, Constants
  <2>. QED
    BY <2>1, <2>2 DEF before
<1>. QED
  BY <1>1, <1>2, <1>3, ListedTyped

(* A page has all that comes before what is on it,                         *)
LEMMA PageBefore ==
  ASSUME TypeOK, NEW pass \in Passes, NEW c \in 0..MaxPRs, NEW k \in Nat,
         NEW p \in Pages(pass, c, k), NEW q \in Listed(pass, c), Before(pass, q, p)
  PROVE  q \in Pages(pass, c, k)
<1>. DEFINE B(x) == {r \in Listed(pass, c) : Before(pass, r, x)}
<1>1. p \in 1..MaxPRs /\ q \in 1..MaxPRs
  BY PagesTyped, ListedTyped
<1>2. B(q) \subseteq B(p)
  <2>. SUFFICES ASSUME NEW r \in Listed(pass, c), Before(pass, r, q)
                PROVE  Before(pass, r, p)
    OBVIOUS
  <2>1. r \in Nat /\ p \in Nat /\ q \in Nat
    BY <1>1, ListedTyped
  <2>. QED
    BY <2>1 DEF Before
<1>3. B(p) \subseteq 1..MaxPRs /\ Cardinality(B(p)) \in Nat /\ Cardinality(B(q)) \in Nat
      /\ k * PageSize \in Nat
  BY <1>1, PagesTyped
<1>4. Cardinality(B(p)) < k * PageSize
  BY DEF Pages
<1>5. Cardinality(B(q)) <= Cardinality(B(p))
  <2>. HIDE DEF B
  <2>. QED
    BY <1>2, <1>3, Bounded, Constants
<1>6. Cardinality(B(q)) < k * PageSize
  <2>. HIDE DEF B
  <2>. QED
    BY <1>3, <1>4, <1>5
<1>. QED
  BY <1>6 DEF Pages

(* begins where the list does,                                             *)
LEMMA PageStarts ==
  ASSUME TypeOK, NEW pass \in Passes, NEW c \in 0..MaxPRs, NEW k \in Nat \ {0},
         Listed(pass, c) # {}
  PROVE  Pages(pass, c, k) # {}
<1>1. PICK m \in Listed(pass, c) : \A q \in Listed(pass, c) : ~ Before(pass, q, m)
  <2>1. Listed(pass, c) \in SUBSET Nat /\ \A q \in Listed(pass, c) : q <= MaxPRs
    BY ListedTyped
  <2>2. CASE pass = "open_prs"
    <3>1. PICK m \in Listed(pass, c) : \A q \in Listed(pass, c) : m <= q
      BY <2>1, Smallest
    <3>. QED
      BY <2>1, <2>2, <3>1 DEF Before
  <2>3. CASE pass # "open_prs"
    <3>1. PICK m \in Listed(pass, c) : \A q \in Listed(pass, c) : q <= m
      BY <2>1, Largest, Constants
    <3>. QED
      BY <2>1, <2>3, <3>1 DEF Before
  <2>. QED
    BY <2>2, <2>3
<1>2. {q \in Listed(pass, c) : Before(pass, q, m)} = {}
  BY <1>1
<1>3. Cardinality({q \in Listed(pass, c) : Before(pass, q, m)}) = 0
  BY <1>2, FS_EmptySet
<1>4. 0 < k * PageSize
  BY Product, Constants
<1>. QED
  BY <1>3, <1>4 DEF Pages

(* and ends with it when there are enough pages.                           *)
LEMMA WholeList ==
  ASSUME TypeOK, NEW pass \in Passes, NEW c \in 0..MaxPRs
  PROVE  Listed(pass, c) \subseteq Pages(pass, c, MaxPRs + 1)
<1>1. (MaxPRs + 1) * PageSize >= MaxPRs + 1 /\ (MaxPRs + 1) * PageSize \in Nat
  <2>1. MaxPRs + 1 \in Nat \ {0}
    BY Constants
  <2>. QED
    BY <2>1, Product, Constants
<1>2. ASSUME NEW p \in Listed(pass, c)
      PROVE  Cardinality({q \in Listed(pass, c) : Before(pass, q, p)}) < (MaxPRs + 1) * PageSize
  <2>. DEFINE n == Cardinality({q \in Listed(pass, c) : Before(pass, q, p)})
  <2>1. n \in Nat /\ n <= MaxPRs
    <3>1. p \in 1..MaxPRs /\ 0 \in Nat
      BY ListedTyped
    <3>. QED
      BY <3>1, PagesTyped
  <2>. HIDE DEF n
  <2>2. n < (MaxPRs + 1) * PageSize
    BY <1>1, <2>1, Constants
  <2>. QED
    BY <2>2 DEF n
<1>. QED
  BY <1>2 DEF Pages

LEMMA EndsOfPage ==
  ASSUME TypeOK, NEW pass \in Passes, NEW c \in 0..MaxPRs, NEW k \in Nat,
         Pages(pass, c, k) # {}
  PROVE  /\ pass = "created_desc" => /\ EndCursor(pass, c, k) \in Pages(pass, c, k)
                                     /\ \A p \in Pages(pass, c, k) : EndCursor(pass, c, k) <= p
         /\ pass = "open_prs" => /\ EndCursor(pass, c, k) \in Pages(pass, c, k)
                                 /\ \A p \in Pages(pass, c, k) : p <= EndCursor(pass, c, k)
         /\ pass = "closed_search" =>
              EndCursor(pass, c, k) = c + Cardinality(Pages(pass, c, k))
         /\ Max(Pages(pass, c, k)) \in Pages(pass, c, k)
         /\ \A p \in Pages(pass, c, k) : p <= Max(Pages(pass, c, k))
<1>. DEFINE page == Pages(pass, c, k)
<1>1. page \in SUBSET Nat /\ \A p \in page : p <= MaxPRs
  BY PagesTyped
<1>. HIDE DEF page
<1>2. Min(page) \in page /\ \A p \in page : Min(page) <= p
  <2>1. PICK m \in page : m = Min(page) /\ \A p \in page : m <= p
    BY <1>1, SmallestIsMin DEF page, Min
  <2>. QED
    BY <2>1
<1>3. Max(page) \in page /\ \A p \in page : p <= Max(page)
  <2>1. PICK m \in page : m = Max(page) /\ \A p \in page : p <= m
    BY <1>1, LargestIsMax, Constants DEF page, Max
  <2>. QED
    BY <2>1
<1>4. /\ pass = "created_desc" => EndCursor(pass, c, k) = Min(page)
      /\ pass = "open_prs" => EndCursor(pass, c, k) = Max(page)
      /\ pass = "closed_search" => EndCursor(pass, c, k) = c + Cardinality(page)
  BY DEF page, EndCursor
<1>. QED
  BY <1>2, <1>3, <1>4 DEF page

(* A search cursor counts what was consumed: with the page it stays within *)
(* the results, and whoever it passes was on a page.                       *)
LEMMA SearchReaches ==
  ASSUME TypeOK, NEW c \in 0..MaxPRs, NEW k \in Nat
  PROVE  LET page == Pages("closed_search", c, k)
         IN  /\ Cardinality(page) \in Nat
             /\ page # {} => c + Cardinality(page) <= MaxPRs
             /\ \A p \in closed :
                  (/\ Cardinality({q \in closed : q > p}) >= c
                   /\ Cardinality({q \in closed : q > p}) < c + Cardinality(page)) => p \in page
<1>. DEFINE page == Pages("closed_search", c, k)
            list == Listed("closed_search", c)
            Above(p) == {q \in closed : q > p}
            T == {p \in closed : Cardinality(Above(p)) < c}
<1>0. "closed_search" \in Passes /\ c \in Nat
  BY DEF Passes
<1>1. closed \in SUBSET (1..MaxPRs)
  BY Constants DEF TypeOK
<1>2. list = {p \in closed : Cardinality(Above(p)) >= c}
  BY DEF Listed
<1>3. page \subseteq list /\ page \subseteq closed /\ T \subseteq closed /\ page \cap T = {}
  <2>1. page \subseteq list
    BY <1>0, PagesTyped
  <2>2. \A p \in list : p \in closed /\ Cardinality(Above(p)) >= c
    BY <1>2
  <2>3. ASSUME NEW p \in closed
        PROVE  Cardinality(Above(p)) \in Nat
    <3>1. Above(p) \subseteq closed
      OBVIOUS
    <3>. HIDE DEF Above
    <3>. QED
      BY <1>1, <3>1, Bounded, Constants
  <2>4. \A p \in T : p \in closed /\ Cardinality(Above(p)) < c
    OBVIOUS
  <2>5. \A p \in page : ~ (p \in T)
    <3>. HIDE DEF T, list, page, Above
    <3>. QED
      BY <1>0, <2>1, <2>2, <2>3, <2>4
  <2>. QED
    BY <2>1, <2>2, <2>4, <2>5
<1>4. IsFiniteSet(page) /\ IsFiniteSet(T) /\ Cardinality(page) \in Nat /\ Cardinality(T) \in Nat
  <2>1. page \in SUBSET (1..MaxPRs) /\ T \in SUBSET (1..MaxPRs)
    BY <1>1, <1>3
  <2>. HIDE DEF page, T
  <2>. QED
    BY <2>1, Bounded, Constants
<1>5. Cardinality(page \cup T) = Cardinality(page) + Cardinality(T)
  <2>. HIDE DEF page, T
  <2>1. Cardinality(page \cup T) = Cardinality(page) + Cardinality(T) - Cardinality(page \cap T)
    BY <1>4, FS_Union
  <2>2. Cardinality(page \cap T) = 0
    BY <1>3, FS_EmptySet
  <2>. QED
    BY <1>4, <2>1, <2>2
<1>6. ASSUME NEW p \in list
      PROVE  Cardinality(T) >= c
  <2>1. p \in closed /\ Cardinality({q \in closed : q > p}) >= c
    BY <1>2
  <2>2. Cardinality({x \in closed : Cardinality({q \in closed : q > x}) < c}) >= c
    <3>1. \A n \in Nat : \A S \in SUBSET (1..n) : \A d \in Nat : \A x \in S :
            Cardinality({q \in S : q > x}) >= d
              => Cardinality({y \in S : Cardinality({q \in S : q > y}) < d}) >= d
      BY RankCounts
    <3>2. MaxPRs \in Nat /\ closed \in SUBSET (1..MaxPRs) /\ c \in Nat /\ p \in closed
      BY <1>0, <1>1, <2>1, Constants
    <3>3. \A d \in Nat : \A x \in closed :
            Cardinality({q \in closed : q > x}) >= d
              => Cardinality({y \in closed : Cardinality({q \in closed : q > y}) < d}) >= d
      BY <3>1, <3>2
    <3>. QED
      BY <2>1, <3>2, <3>3
  <2>. QED
    BY <2>2
<1>7. ASSUME NEW S \in SUBSET closed, page \cup T \subseteq S, NEW p \in list
      PROVE  Cardinality(S) \in Nat /\ c + Cardinality(page) <= Cardinality(S)
  <2>1. IsFiniteSet(S) /\ Cardinality(S) \in Nat
    <3>1. S \in SUBSET (1..MaxPRs)
      BY <1>1
    <3>. QED
      BY <3>1, Bounded, Constants
  <2>2. Cardinality(page \cup T) <= Cardinality(S)
    <3>. HIDE DEF page, T
    <3>. QED
      BY <1>7, <2>1, FS_Subset
  <2>3. Cardinality(T) >= c
    BY <1>6
  <2>. HIDE DEF page, T
  <2>. QED
    BY <1>0, <1>4, <1>5, <2>1, <2>2, <2>3
<1>8. page # {} => c + Cardinality(page) <= MaxPRs
  <2>. SUFFICES ASSUME page # {} PROVE c + Cardinality(page) <= MaxPRs
    OBVIOUS
  <2>1. PICK p \in list : TRUE
    BY <1>3
  <2>2. page \cup T \subseteq closed
    BY <1>3
  <2>3. Cardinality(closed) \in Nat /\ c + Cardinality(page) <= Cardinality(closed)
    BY <1>7, <2>1, <2>2
  <2>4. Cardinality(closed) <= MaxPRs
    BY <1>1, Bounded, Constants
  <2>. HIDE DEF page
  <2>. QED
    BY <1>0, <1>4, <2>3, <2>4, Constants
<1>9. ASSUME NEW p \in closed, Cardinality(Above(p)) >= c,
             Cardinality(Above(p)) < c + Cardinality(page), p \notin page
      PROVE  FALSE
  <2>1. p \in list
    BY <1>2, <1>9
  <2>2. \A q \in page : q \in Above(p)
    <3>. SUFFICES ASSUME NEW q \in page, ~ (q > p) PROVE FALSE
      BY <1>3
    <3>1. q \in Nat /\ p \in Nat /\ q # p
      <4>. HIDE DEF page, T, list
      <4>1. q \in closed /\ p \in closed /\ q # p
        BY <1>3, <1>9
      <4>. QED
        BY <1>1, <4>1
    <3>2. Before("closed_search", p, q)
      BY <3>1 DEF Before
    <3>. QED
      BY <1>0, <1>9, <2>1, <3>2, PageBefore
  <2>3. \A q \in T : q \in Above(p)
    <3>. SUFFICES ASSUME NEW q \in closed, Cardinality(Above(q)) < c, ~ (q > p) PROVE FALSE
      OBVIOUS
    <3>1. q \in Nat /\ p \in Nat /\ q <= p
      BY <1>1, <1>9
    <3>2. Above(p) \subseteq Above(q) /\ Above(q) \in SUBSET (1..MaxPRs)
      <4>1. \A r \in closed : r \in Nat
        BY <1>1
      <4>2. \A r \in closed : r > p => r > q
        BY <3>1, <4>1
      <4>3. Above(p) \subseteq Above(q) /\ Above(q) \subseteq closed
        BY <4>2
      <4>. HIDE DEF Above
      <4>. QED
        BY <1>1, <4>3
    <3>3. Cardinality(Above(p)) <= Cardinality(Above(q)) /\ Cardinality(Above(q)) \in Nat
          /\ Cardinality(Above(p)) \in Nat
      <4>. HIDE DEF Above
      <4>. QED
        BY <3>2, Bounded, Constants
    <3>. HIDE DEF Above
    <3>. QED
      BY <1>0, <1>9, <3>3
  <2>4. Above(p) \in SUBSET closed /\ page \cup T \subseteq Above(p)
    BY <2>2, <2>3
  <2>5. Cardinality(Above(p)) \in Nat /\ c + Cardinality(page) <= Cardinality(Above(p))
    <3>. HIDE DEF page, T, list, Above
    <3>. QED
      BY <1>7, <2>1, <2>4
  <2>. HIDE DEF page, Above
  <2>. QED
    BY <1>0, <1>4, <1>9, <2>5
<1>. QED
  BY <1>4, <1>8, <1>9

-----------------------------------------------------------------------------
(* How a walk ends.                                                        *)

LEMMA StateTyped ==
  ASSUME TypeOK, NEW pass \in Passes
  PROVE  LET state == mark[pass]
         IN  /\ state \in PassState /\ state.written \in BOOLEAN
             /\ state.cursor \in 0..MaxPRs /\ state.cursor \in Nat
             /\ state.high \in 0..MaxPRs /\ state.high \in Nat
             /\ state.newest \in 0..MaxPRs /\ state.newest \in Nat
             /\ state.age \in 0..Never /\ state.age \in Nat
             /\ StartCursor(pass, state) \in 0..MaxPRs
             /\ pass # "created_desc" => StartCursor(pass, state) = state.cursor
<1>1. mark[pass] \in PassState
  BY DEF TypeOK
<1>2. 0 \in 0..MaxPRs
  BY Constants
<1>. QED
  BY <1>1, <1>2, Constants DEF PassState, StartCursor, None

LEMMA LastPageIs ==
  ASSUME TypeOK, NEW pass \in Passes
  PROVE  /\ LastPage(pass, mark[pass]) \in Nat \ {0}
         /\ Finished(pass, mark[pass], LastPage(pass, mark[pass]))
         /\ \A j \in Nat \ {0} : j < LastPage(pass, mark[pass]) => ~Finished(pass, mark[pass], j)
<1>. DEFINE state == mark[pass]
            T == {k \in 1..(MaxPRs + 1) : Finished(pass, state, k)}
<1>1. MaxPRs + 1 \in 1..(MaxPRs + 1) /\ 1..(MaxPRs + 1) \subseteq Nat \ {0}
  BY Constants
<1>2. Finished(pass, state, MaxPRs + 1)
  BY StateTyped, WholeList DEF Finished
<1>3. T \in SUBSET Nat /\ T # {} /\ \A k \in T : k \in 1..(MaxPRs + 1) /\ Finished(pass, state, k)
  BY <1>1, <1>2
<1>4. PICK m \in T : \A k \in T : m <= k
  <2>. HIDE DEF T
  <2>. QED
    BY <1>3, Smallest
<1>5. m \in 1..(MaxPRs + 1) /\ m \in Nat /\ Finished(pass, state, m)
  BY <1>1, <1>3
<1>6. \A j \in 1..(m - 1) : ~Finished(pass, state, j)
  <2>. SUFFICES ASSUME NEW j \in 1..(m - 1), Finished(pass, state, j)
                PROVE  FALSE
    OBVIOUS
  <2>1. j \in 1..(MaxPRs + 1) /\ j \in Nat /\ j < m
    BY <1>5, Constants
  <2>2. j \in T
    BY <2>1
  <2>. HIDE DEF T
  <2>. QED
    BY <1>4, <1>5, <2>1, <2>2
<1>. HIDE DEF T, state
<1>7. PICK l \in 1..(MaxPRs + 1) : /\ l = LastPage(pass, state) /\ Finished(pass, state, l)
                                   /\ \A j \in 1..(l - 1) : ~Finished(pass, state, j)
  BY <1>5, <1>6 DEF LastPage
<1>8. \A j \in Nat \ {0} : j < l => j \in 1..(l - 1)
  BY <1>1
<1>. QED
  BY <1>1, <1>7, <1>8 DEF state

(* A run that goes on has fetched a page that is not the last.             *)
LEMMA OutcomeIs ==
  ASSUME TypeOK, NEW pass \in Passes, NEW outcome \in Outcomes(pass, mark[pass])
  PROVE  /\ outcome[1] \in {"completed", "page_capped", "partial", "rate_limited", "failed"}
         /\ outcome[1] \in {"rate_limited", "failed"} => outcome[1] \in faults
         /\ outcome[2] \in Nat
         /\ outcome[1] \in {"completed", "page_capped", "partial"} => outcome[2] \in Nat \ {0}
         /\ outcome[1] = "completed" => Finished(pass, mark[pass], outcome[2])
         /\ (outcome[1] # "completed" /\ outcome[2] # 0) => ~Finished(pass, mark[pass], outcome[2])
<1>. DEFINE last == LastPage(pass, mark[pass])
<1>1. /\ last \in Nat \ {0} /\ Finished(pass, mark[pass], last)
      /\ \A j \in Nat \ {0} : j < last => ~Finished(pass, mark[pass], j)
  BY LastPageIs
<1>2. cap \in Nat \ {0}
  BY Constants DEF TypeOK
<1>3. \/ last <= cap /\ outcome = <<"completed", last>>
      \/ ~ (last <= cap) /\ outcome = <<"page_capped", cap>>
      \/ \E k \in 1..cap : k < last /\ outcome = <<"partial", k>>
      \/ \E k \in 0..(cap - 1) : k < last /\ outcome = <<"rate_limited", k>> /\ "rate_limited" \in faults
      \/ \E k \in 0..(cap - 1) : k < last /\ outcome = <<"failed", k>> /\ "failed" \in faults
  BY DEF Outcomes
<1>. HIDE DEF last
<1>. QED
  BY <1>1, <1>2, <1>3

LEMMA NextTyped ==
  ASSUME TypeOK, NEW pass \in Passes, NEW status, NEW k \in Nat
  PROVE  LET state == mark[pass]
         IN  /\ EndCursor(pass, StartCursor(pass, state), k) \in 0..MaxPRs
             /\ NewestSeen(mark["created_desc"], k) \in 0..MaxPRs
             /\ NextState(pass, state, status, k) \in PassState
             /\ Stamped(pass, state, NextState(pass, state, status, k), status) \in PassState
<1>. DEFINE state == mark[pass]
            start == StartCursor(pass, state)
<1>0. "created_desc" \in Passes /\ "closed_search" \in Passes /\ 0 \in 0..MaxPRs
      /\ 1..MaxPRs \subseteq 0..MaxPRs
  BY Constants DEF Passes
<1>1. start \in 0..MaxPRs /\ state \in PassState /\ state.cursor \in 0..MaxPRs
      /\ state.high \in 0..MaxPRs /\ state.age \in 0..Never /\ state.newest \in 0..MaxPRs
  BY StateTyped
<1>2. \A c \in 0..MaxPRs : EndCursor(pass, c, k) \in 0..MaxPRs
  <2>. SUFFICES ASSUME NEW c \in 0..MaxPRs PROVE EndCursor(pass, c, k) \in 0..MaxPRs
    OBVIOUS
  <2>1. CASE Pages(pass, c, k) = {}
    BY <2>1 DEF EndCursor
  <2>2. CASE Pages(pass, c, k) # {} /\ pass # "closed_search"
    BY <1>0, <2>2, EndsOfPage, PagesTyped DEF Passes
  <2>3. CASE Pages(pass, c, k) # {} /\ pass = "closed_search"
    <3>1. EndCursor(pass, c, k) = c + Cardinality(Pages(pass, c, k))
      BY <2>3, EndsOfPage
    <3>2. Cardinality(Pages(pass, c, k)) \in Nat /\ c + Cardinality(Pages(pass, c, k)) <= MaxPRs
      BY <2>3, SearchReaches
    <3>. QED
      BY <3>1, <3>2, Constants
  <2>. QED
    BY <2>1, <2>2, <2>3
<1>3. NewestSeen(mark["created_desc"], k) \in 0..MaxPRs
  <2>1. mark["created_desc"].newest \in 0..MaxPRs
        /\ StartCursor("created_desc", mark["created_desc"]) \in 0..MaxPRs
    BY <1>0, StateTyped
  <2>2. Pages("created_desc", StartCursor("created_desc", mark["created_desc"]), k) # {} =>
          Max(Pages("created_desc", StartCursor("created_desc", mark["created_desc"]), k)) \in 0..MaxPRs
    BY <1>0, <2>1, EndsOfPage, PagesTyped
  <2>. QED
    BY <2>1, <2>2 DEF NewestSeen, Later
<1>4. EmptyState \in PassState
  BY <1>0, Constants DEF EmptyState, PassState, None
<1>5. NextState(pass, state, status, k) \in PassState
  <2>1. CASE pass = "created_desc"
    <3>1. EndCursor("created_desc", StartCursor("created_desc", state), k) \in 0..MaxPRs
      BY <1>1, <1>2, <2>1
    <3>2. NewestSeen(state, k) \in 0..MaxPRs
      BY <1>3, <2>1
    <3>. HIDE DEF state
    <3>. QED
      BY <1>0, <1>1, <1>4, <2>1, <3>1, <3>2 DEF NextState, NextCreatedDesc, EmptyState, PassState
  <2>2. CASE pass # "created_desc"
    <3>1. EndCursor(pass, state.cursor, k) \in 0..MaxPRs
      BY <1>1, <1>2
    <3>. HIDE DEF state
    <3>. QED
      BY <1>0, <1>1, <1>4, <2>2, <3>1 DEF NextState, NextListing, EmptyState, PassState, None
  <2>. QED
    BY <2>1, <2>2
<1>6. Stamped(pass, state, NextState(pass, state, status, k), status) \in PassState
  <2>1. 0 \in 0..Never
    BY Constants
  <2>2. NextState(pass, state, status, k).age \in 0..Never
    BY <1>5 DEF PassState
  <2>. HIDE DEF state
  <2>. QED
    BY <1>1, <1>5, <2>1, <2>2 DEF Stamped, PassState
<1>. QED
  BY <1>1, <1>2, <1>3, <1>5, <1>6

(* What one pass of a run does to its watermark.                           *)
LEMMA RunPassIs ==
  ASSUME TypeOK, RunPass
  PROVE  /\ pc \in Passes /\ pc' = After(pc)
         /\ rows' = rows /\ created' = created /\ open' = open /\ closed' = closed
         /\ faults' = faults /\ cap' = cap
         /\ mark' \in [Passes -> PassState]
         /\ \A pass \in Passes : pass # pc => mark'[pass] = mark[pass]
         /\ exhausted' \in BOOLEAN
         /\ \E status \in {"completed", "page_capped", "partial", "rate_limited", "failed"}, k \in Nat :
              /\ status \in {"rate_limited", "failed"} => status \in faults
              /\ status \in {"completed", "page_capped", "partial"} => k \in Nat \ {0}
              /\ status = "completed" => Finished(pc, mark[pc], k)
              /\ (status # "completed" /\ k # 0) => ~Finished(pc, mark[pc], k)
              /\ buffer' = buffer \cup Kept(pc, mark[pc], k)
              /\ mark'[pc] = Stamped(pc, mark[pc], NextState(pc, mark[pc], status, k), status)
<1>1. PICK outcome \in Outcomes(pc, mark[pc]) :
        /\ mark' = [mark EXCEPT ![pc] = Stamped(pc, mark[pc], NextState(pc, mark[pc], outcome[1], outcome[2]), outcome[1])]
        /\ buffer' = buffer \cup Kept(pc, mark[pc], outcome[2])
        /\ exhausted' = (outcome[1] \in {"partial", "rate_limited"})
  BY DEF RunPass
<1>2. pc \in Passes /\ pc' = After(pc) /\ UNCHANGED <<upstream, rows, cap, faults>>
  BY DEF RunPass
<1>3. mark \in [Passes -> PassState]
  BY DEF TypeOK
<1>4. /\ outcome[1] \in {"completed", "page_capped", "partial", "rate_limited", "failed"}
      /\ outcome[1] \in {"rate_limited", "failed"} => outcome[1] \in faults
      /\ outcome[2] \in Nat
      /\ outcome[1] \in {"completed", "page_capped", "partial"} => outcome[2] \in Nat \ {0}
      /\ outcome[1] = "completed" => Finished(pc, mark[pc], outcome[2])
      /\ (outcome[1] # "completed" /\ outcome[2] # 0) => ~Finished(pc, mark[pc], outcome[2])
  BY <1>2, OutcomeIs
<1>5. Stamped(pc, mark[pc], NextState(pc, mark[pc], outcome[1], outcome[2]), outcome[1]) \in PassState
  BY <1>2, <1>4, NextTyped
<1>6. mark' \in [Passes -> PassState] /\ (\A pass \in Passes : pass # pc => mark'[pass] = mark[pass])
      /\ mark'[pc] = Stamped(pc, mark[pc], NextState(pc, mark[pc], outcome[1], outcome[2]), outcome[1])
  BY <1>1, <1>2, <1>3, <1>5
<1>. QED
  BY <1>1, <1>2, <1>4, <1>6 DEF upstream

LEMMA AfterIs ==
  /\ After("created_desc") = "open_prs" /\ After("open_prs") = "closed_search"
  /\ After("closed_search") = "write"
<1>. DEFINE stages == {Order[i] : i \in 2..4}
<1>1. stages = {"open_prs", "closed_search", "write"}
  <2>1. 2..4 = {2, 3, 4}
    OBVIOUS
  <2>2. Order[2] = "open_prs" /\ Order[3] = "closed_search" /\ Order[4] = "write"
    BY DEF Order
  <2>. QED
    BY <2>1, <2>2
<1>2. \A pass, stage : (\E i \in 1..3 : Order[i] = pass /\ Order[i + 1] = stage)
        <=> \/ pass = "created_desc" /\ stage = "open_prs"
            \/ pass = "open_prs" /\ stage = "closed_search"
            \/ pass = "closed_search" /\ stage = "write"
  <2>1. 1..3 = {1, 2, 3}
    OBVIOUS
  <2>2. /\ Order[1] = "created_desc" /\ Order[1 + 1] = "open_prs"
        /\ Order[2] = "open_prs" /\ Order[2 + 1] = "closed_search"
        /\ Order[3] = "closed_search" /\ Order[3 + 1] = "write"
    BY DEF Order
  <2>. QED
    BY <2>1, <2>2
<1>. HIDE DEF stages
<1>3. \A pass : After(pass) = CHOOSE stage \in stages :
                  \E i \in 1..3 : Order[i] = pass /\ Order[i + 1] = stage
  BY DEF After, stages
<1>. QED
  BY <1>1, <1>2, <1>3

-----------------------------------------------------------------------------
(* Types.                                                                  *)

LEMMA LargestShare == Max(Shares) \in Shares
<1>1. PICK n \in Nat : \A x \in Shares : x <= n
  BY FiniteIsBounded, PeerAssumption
<1>2. \E m \in Shares : m = (CHOOSE x \in Shares : \A y \in Shares : x >= y)
  BY <1>1, LargestIsMax, PeerAssumption
<1>. QED
  BY <1>2 DEF Max

LEMMA PromisedTyped ==
  ASSUME NEW pass \in Passes
  PROVE  Promised(pass) \subseteq PRs
<1>1. /\ 1..InitialPRs \subseteq 1..MaxPRs /\ WindowStart..InitialPRs \subseteq 1..MaxPRs
      /\ InitialOpen \subseteq 1..InitialPRs /\ InitialClosed \subseteq 1..InitialPRs
  BY Constants, PeerAssumption
<1>. QED
  BY <1>1 DEF Promised, Passes, PRs

LEMMA InitTypeOK == Init => TypeOK
<1>. SUFFICES ASSUME Init PROVE TypeOK
  OBVIOUS
<1>1. PICK legacy \in SUBSET Passes :
        /\ mark = [pass \in Passes |-> IF pass \in legacy THEN LegacyState(pass) ELSE EmptyState]
        /\ rows = UNION {Promised(pass) : pass \in legacy}
  BY DEF Init
<1>2. EmptyState \in PassState /\ \A pass \in Passes : LegacyState(pass) \in PassState
  <2>1. EmptyState \in PassState
    <3>1. 0 \in 0..MaxPRs /\ Never \in 0..Never
      BY Constants
    <3>. QED
      BY <3>1 DEF EmptyState, PassState, None
  <2>2. InitialPRs \in 0..MaxPRs /\ None \in 0..MaxPRs
    BY Constants DEF None
  <2>. QED
    BY <2>1, <2>2 DEF LegacyState, PassState
<1>3. mark \in [Passes -> PassState]
  BY <1>1, <1>2
<1>4. rows \subseteq PRs
  BY <1>1, PromisedTyped
<1>5. created \in 0..MaxPRs /\ open \subseteq 1..created /\ closed \subseteq (1..created) \ open
  BY PeerAssumption DEF Init
<1>6. pc \in Passes \cup {"idle", "write", "snapshot"} /\ cap \in Shares \cup {1}
      /\ exhausted \in BOOLEAN /\ buffer \subseteq PRs /\ faults \in Environments
  BY DEF Init
<1>. QED
  BY <1>3, <1>4, <1>5, <1>6 DEF TypeOK

LEMMA NextTypeOK ==
  ASSUME TypeOK, [Next]_vars
  PROVE  TypeOK'
<1>. USE DEF TypeOK
<1>0. created \in Nat /\ MaxPRs \in Nat
  BY Constants
<1>1. CASE CreatePR
  <2>1. created' \in 0..MaxPRs /\ 1..created' = (1..created) \cup {created'} /\ created' \notin 1..created
    BY <1>0, <1>1 DEF CreatePR
  <2>2. open' = open \cup {created'} /\ closed' = closed
    BY <1>1 DEF CreatePR
  <2>3. open' \subseteq 1..created' /\ closed' \subseteq (1..created') \ open'
    BY <2>1, <2>2
  <2>. QED
    BY <1>1, <2>1, <2>3 DEF CreatePR
<1>2. CASE \E p \in PRs : ClosePR(p)
  BY <1>2 DEF ClosePR
<1>3. CASE Tick
  <2>1. ASSUME NEW pass \in Passes
        PROVE  [mark[pass] EXCEPT !.age = IF @ < Stale THEN @ + 1 ELSE @] \in PassState
    <3>1. mark[pass] \in PassState /\ mark[pass].age \in 0..Never
      BY StateTyped
    <3>2. (IF mark[pass].age < Stale THEN mark[pass].age + 1 ELSE mark[pass].age) \in 0..Never
      BY <3>1, Constants DEF Stale, Never
    <3>. QED
      BY <3>1, <3>2 DEF PassState
  <2>2. mark' \in [Passes -> PassState]
    BY <1>3, <2>1 DEF Tick
  <2>. QED
    BY <1>3, <2>2 DEF Tick, upstream
<1>4. CASE BeginRun
  <2>1. cap' \in Shares \cup {1}
    BY <1>4, LargestShare DEF BeginRun, PageCaps
  <2>2. pc' \in Passes /\ exhausted' \in BOOLEAN
    BY <1>4 DEF BeginRun, Passes
  <2>. QED
    BY <1>4, <2>1, <2>2 DEF BeginRun, upstream
<1>5. CASE SkipPass
  <2>1. pc' \in Passes \cup {"idle", "write", "snapshot"}
    BY <1>5, AfterIs DEF SkipPass, Passes
  <2>. QED
    BY <1>5, <2>1 DEF SkipPass, upstream
<1>6. CASE RunPass
  <2>1. pc' \in Passes \cup {"idle", "write", "snapshot"}
    BY <1>6, RunPassIs, AfterIs DEF Passes
  <2>2. ASSUME NEW k \in Nat
        PROVE  Kept(pc, mark[pc], k) \subseteq PRs
    <3>1. pc \in Passes
      BY <1>6, RunPassIs
    <3>2. Pages(pc, StartCursor(pc, mark[pc]), k) \subseteq PRs
      BY <3>1, StateTyped, PagesTyped DEF PRs
    <3>. QED
      BY <3>2 DEF Kept
  <2>3. buffer' \subseteq PRs
    BY <1>6, <2>2, RunPassIs
  <2>. QED
    BY <1>6, <2>1, <2>3, RunPassIs
<1>7. CASE WriteRows
  BY <1>7 DEF WriteRows, upstream
<1>8. CASE TakeSnapshot
  BY <1>8 DEF TakeSnapshot, upstream
<1>9. CASE Crash
  BY <1>9 DEF Crash, upstream
<1>10. CASE UNCHANGED vars
  BY <1>10 DEF vars
<1>. QED
  BY <1>1, <1>2, <1>3, <1>4, <1>5, <1>6, <1>7, <1>8, <1>9, <1>10 DEF Next, Run

(* Every reachable state is well typed: no cursor or watermark leaves the  *)
(* pull requests there are, and no run is given a share without a page.    *)
THEOREM TypeCorrect == Spec => []TypeOK
BY InitTypeOK, NextTypeOK, PTL DEF Spec

-----------------------------------------------------------------------------
(* Settlement is sticky.                                                   *)

LEMMA StampKeeps ==
  ASSUME NEW pass, NEW state \in PassState, NEW next \in PassState,
         NEW status \in {"completed", "page_capped", "partial"}
  PROVE  LET stamped == Stamped(pass, state, next, status)
         IN  /\ stamped.written
             /\ status = "completed" => stamped.age = 0
             /\ status # "completed" => stamped.age = state.age \/ stamped.age = 0
             /\ Settled(pass, state) => Settled(pass, stamped)
             /\ state.age # Never => stamped.age # Never
<1>. DEFINE stamped == Stamped(pass, state, next, status)
            inherited == IF state.written /\ state.age = Never /\ LooksCompleted(pass, state)
                           THEN 0 ELSE state.age
<1>1. /\ stamped = [next EXCEPT !.written = TRUE, !.age = IF status = "completed" THEN 0 ELSE inherited]
  BY DEF Stamped
<1>2. /\ stamped.written /\ stamped.age = IF status = "completed" THEN 0 ELSE inherited
      /\ stamped.cursor = next.cursor /\ stamped.high = next.high /\ stamped.newest = next.newest
  BY <1>1 DEF PassState
<1>3. state.age \in 0..Never /\ Never \in Nat /\ Never # 0 /\ 0 <= FreshDays /\ FreshDays < Never
  BY Constants DEF PassState, Never
<1>. HIDE DEF stamped
<1>. QED
  BY <1>2, <1>3 DEF Settled, stamped

LEMMA StampFields ==
  ASSUME NEW pass, NEW state \in PassState, NEW next \in PassState,
         NEW status \in {"completed", "page_capped", "partial"}
  PROVE  /\ Stamped(pass, state, next, status).cursor = next.cursor
         /\ Stamped(pass, state, next, status).high = next.high
         /\ Stamped(pass, state, next, status).newest = next.newest
         /\ (status # "completed" /\ Stamped(pass, state, next, status).age # Never) =>
              state.age # Never \/ (state.written /\ LooksCompleted(pass, state))
<1>. DEFINE stamped == Stamped(pass, state, next, status)
<1>1. stamped = [next EXCEPT !.written = TRUE, !.age =
                   IF status = "completed" THEN 0
                   ELSE IF state.written /\ state.age = Never /\ LooksCompleted(pass, state)
                          THEN 0 ELSE state.age]
  BY DEF Stamped
<1>. HIDE DEF stamped
<1>2. /\ stamped.cursor = next.cursor /\ stamped.high = next.high
      /\ stamped.newest = next.newest
      /\ (status # "completed" /\ stamped.age # Never) =>
           state.age # Never \/ (state.written /\ LooksCompleted(pass, state))
  BY <1>1 DEF PassState
<1>. QED
  BY <1>2 DEF stamped

(* Once a pass has completed only its age makes it unsettled: a refresh    *)
(* that is capped or cut at the floor keeps the completion of before, and  *)
(* a watermark from before completions were dated is dated when it is      *)
(* first touched.                                                          *)
THEOREM OnlyAgeUnsettlesProved == Spec => OnlyAgeUnsettles
<1>. DEFINE Step == faults \subseteq {"capped", "floor", "crash"} =>
                      \A pass \in Passes :
                        /\ mark[pass].age # Never => mark'[pass].age # Never
                        /\ Settled(pass, mark[pass]) /\ ~Settled(pass, mark'[pass])
                             => mark'[pass].age = Stale
<1>1. TypeOK /\ [Next]_vars => [Step]_vars
  <2>. SUFFICES ASSUME TypeOK, [Next]_vars, faults \subseteq {"capped", "floor", "crash"},
                       NEW pass \in Passes
                PROVE  /\ mark[pass].age # Never => mark'[pass].age # Never
                       /\ Settled(pass, mark[pass]) /\ ~Settled(pass, mark'[pass])
                            => mark'[pass].age = Stale
    OBVIOUS
  <2>1. CASE mark'[pass] = mark[pass]
    BY <2>1
  <2>2. CASE Tick
    <3>1. mark'[pass] = [mark[pass] EXCEPT !.age = IF @ < Stale THEN @ + 1 ELSE @]
      BY <2>2 DEF Tick
    <3>2. mark[pass] \in PassState /\ mark[pass].age \in 0..Never
      BY StateTyped
    <3>3. /\ mark'[pass].age = IF mark[pass].age < Stale THEN mark[pass].age + 1 ELSE mark[pass].age
          /\ mark'[pass].written = mark[pass].written /\ mark'[pass].cursor = mark[pass].cursor
          /\ mark'[pass].high = mark[pass].high
      BY <3>1, <3>2 DEF PassState
    <3>. QED
      BY <3>2, <3>3, Constants DEF Settled, LooksCompleted, Stale, Never
  <2>3. CASE RunPass /\ pass = pc
    <3>1. PICK status \in {"completed", "page_capped", "partial", "rate_limited", "failed"}, k \in Nat :
            /\ status \in {"rate_limited", "failed"} => status \in faults
            /\ mark'[pass] = Stamped(pass, mark[pass], NextState(pass, mark[pass], status, k), status)
      BY <2>3, RunPassIs
    <3>2. status \in {"completed", "page_capped", "partial"}
      BY <3>1
    <3>3. mark[pass] \in PassState /\ NextState(pass, mark[pass], status, k) \in PassState
      BY StateTyped, NextTyped
    <3>. DEFINE next == NextState(pass, mark[pass], status, k)
    <3>4. mark'[pass] = Stamped(pass, mark[pass], next, status) /\ next \in PassState
      BY <3>1, <3>3
    <3>. HIDE DEF next
    <3>5. /\ Settled(pass, mark[pass]) => Settled(pass, Stamped(pass, mark[pass], next, status))
          /\ mark[pass].age # Never => Stamped(pass, mark[pass], next, status).age # Never
      BY <3>2, <3>3, <3>4, StampKeeps
    <3>. QED
      BY <3>4, <3>5
  <2>4. CASE RunPass /\ pass # pc
    BY <2>4, RunPassIs
  <2>5. CASE ~Tick /\ ~RunPass
    <3>1. mark' = mark
      BY <2>5 DEF Next, Run, CreatePR, ClosePR, BeginRun, SkipPass, WriteRows, TakeSnapshot, Crash, vars
    <3>. QED
      BY <3>1
  <2>. QED
    BY <2>2, <2>3, <2>4, <2>5
<1>. QED
  BY <1>1, TypeCorrect, PTL DEF Spec, OnlyAgeUnsettles

-----------------------------------------------------------------------------
(* The walk of created_desc.                                               *)

LEMMA Threshold ==
  ASSUME TypeOK
  PROVE  LET state == mark["created_desc"]
         IN  /\ StopThreshold(state) \in Nat
             /\ \A p \in Nat : p >= StopThreshold(state) <=> p >= WindowStart /\ p >= state.high
<1>1. "created_desc" \in Passes
  BY DEF Passes
<1>2. mark["created_desc"].high \in Nat
  BY <1>1, StateTyped
<1>. QED
  BY <1>2, Constants DEF StopThreshold, Later

(* A page that is not the last goes down to the cursor it leaves and not   *)
(* past the threshold; a finished walk keeps all down to the threshold.    *)
LEMMA DescendingWalk ==
  ASSUME TypeOK, NEW k \in Nat \ {0}
  PROVE  LET state == mark["created_desc"]
             start == StartCursor("created_desc", state)
             end   == EndCursor("created_desc", start, k)
             seen  == NewestSeen(state, k)
             kept  == Kept("created_desc", state, k)
         IN  /\ ~Finished("created_desc", state, k) =>
                  /\ end \in 1..created /\ (start # None => end < start)
                  /\ \A p \in 1..created : (p >= end /\ (start # None => p < start)) => p \in kept
             /\ Finished("created_desc", state, k) =>
                  \A p \in 1..created : (p >= WindowStart /\ p >= state.high /\ (start # None => p < start))
                    => p \in kept
             /\ seen \in Nat
             /\ (start = None /\ created > 0) => seen = Later(created, state.newest)
             /\ (start = None /\ created = 0) => seen = state.newest
             /\ (start # None /\ start <= state.newest) => seen = state.newest
             /\ state.newest <= created => seen <= created
<1>. DEFINE state == mark["created_desc"]
            start == StartCursor("created_desc", state)
            page  == Pages("created_desc", start, k)
            list  == Listed("created_desc", start)
<1>0. "created_desc" \in Passes /\ k \in Nat /\ created \in Nat
  BY Constants DEF Passes, TypeOK
<1>1. start \in 0..MaxPRs /\ start \in Nat /\ state.newest \in Nat /\ state.high \in Nat
  <2>1. start \in 0..MaxPRs
    BY <1>0, StateTyped
  <2>. QED
    BY <1>0, <2>1, StateTyped
<1>2. list = {p \in 1..created : start = None \/ p < start}
  BY DEF Listed
<1>3. page \subseteq list /\ page \subseteq 1..created /\ page \subseteq Nat
  BY <1>0, <1>1, PagesTyped
<1>4. \A p \in page, q \in list : q > p => q \in page
  <2>. SUFFICES ASSUME NEW p \in page, NEW q \in list, q > p PROVE q \in page
    OBVIOUS
  <2>1. Before("created_desc", q, p)
    BY DEF Before
  <2>. QED
    BY <1>0, <1>1, <2>1, PageBefore
<1>5. list # {} => page # {}
  BY <1>0, <1>1, PageStarts
<1>6. page # {} => /\ EndCursor("created_desc", start, k) \in page
                   /\ \A p \in page : EndCursor("created_desc", start, k) <= p
                   /\ Max(page) \in page /\ \A p \in page : p <= Max(page)
  BY <1>0, <1>1, EndsOfPage
<1>7. Kept("created_desc", state, k) = {p \in page : p >= StopThreshold(state)}
  BY DEF Kept
<1>8. NewestSeen(state, k) = IF page = {} THEN state.newest ELSE Later(Max(page), state.newest)
  BY DEF NewestSeen
<1>9. Finished("created_desc", state, k) <=> list \subseteq page \/ \E p \in page : p < StopThreshold(state)
  BY DEF Finished
<1>10. StopThreshold(state) \in Nat
       /\ \A p \in Nat : p >= StopThreshold(state) <=> p >= WindowStart /\ p >= state.high
  BY Threshold
<1>. HIDE DEF page, list, start, state
<1>11. ~Finished("created_desc", state, k) =>
         /\ EndCursor("created_desc", start, k) \in 1..created
         /\ start # None => EndCursor("created_desc", start, k) < start
         /\ \A p \in 1..created : (p >= EndCursor("created_desc", start, k) /\ (start # None => p < start))
              => p \in Kept("created_desc", state, k)
  <2>. SUFFICES ASSUME ~Finished("created_desc", state, k)
                PROVE  /\ EndCursor("created_desc", start, k) \in 1..created
                       /\ start # None => EndCursor("created_desc", start, k) < start
                       /\ \A p \in 1..created :
                            (p >= EndCursor("created_desc", start, k) /\ (start # None => p < start))
                              => p \in Kept("created_desc", state, k)
    OBVIOUS
  <2>1. page # {} /\ ~ (list \subseteq page) /\ ~ (\E p \in page : p < StopThreshold(state))
    BY <1>5, <1>9
  <2>. DEFINE end == EndCursor("created_desc", start, k)
  <2>2. end \in page /\ \A p \in page : end <= p
    BY <1>6, <2>1
  <2>. HIDE DEF end
  <2>3. end \in 1..created /\ (start # None => end < start)
    BY <1>2, <1>3, <2>2
  <2>4. ASSUME NEW p \in 1..created, p >= end, start # None => p < start
        PROVE  p \in Kept("created_desc", state, k)
    <3>1. p \in list
      BY <1>2, <2>4
    <3>2. p \in page
      <4>1. p = end \/ p > end
        BY <2>3, <2>4
      <4>. QED
        BY <1>4, <2>2, <3>1, <4>1
    <3>3. p >= StopThreshold(state)
      BY <1>10, <2>1, <3>2
    <3>. QED
      BY <1>7, <3>2, <3>3
  <2>. QED
    BY <2>3, <2>4 DEF end
<1>12. ASSUME Finished("created_desc", state, k), NEW p \in 1..created, p >= WindowStart, p >= state.high,
              start # None => p < start
       PROVE  p \in Kept("created_desc", state, k)
  <2>1. p \in list /\ p \in Nat
    BY <1>2, <1>12
  <2>2. p >= StopThreshold(state)
    BY <1>10, <1>12, <2>1
  <2>3. p \in page
    <3>1. CASE list \subseteq page
      BY <2>1, <3>1
    <3>2. CASE \E q \in page : q < StopThreshold(state)
      <4>1. PICK q \in page : q < StopThreshold(state)
        BY <3>2
      <4>2. p > q
        BY <1>3, <1>10, <2>1, <2>2, <4>1
      <4>. QED
        BY <1>4, <2>1, <4>2
    <3>. QED
      BY <1>9, <1>12, <3>1, <3>2
  <2>. QED
    BY <1>7, <2>2, <2>3
<1>13. page # {} => Max(page) \in 1..created /\ (start # None => Max(page) < start)
  BY <1>2, <1>3, <1>6
<1>14. (start = None /\ created > 0) => page # {} /\ Max(page) = created
  <2>. SUFFICES ASSUME start = None, created > 0 PROVE page # {} /\ Max(page) = created
    OBVIOUS
  <2>1. created \in list
    BY <1>0, <1>2
  <2>2. page # {} /\ Max(page) \in page /\ Max(page) \in 1..created
    BY <1>5, <1>6, <1>13, <2>1
  <2>3. created > Max(page) => created \in page
    BY <1>4, <2>1, <2>2
  <2>4. created \in page => created <= Max(page)
    BY <1>6, <2>2
  <2>. QED
    BY <1>0, <2>2, <2>3, <2>4
<1>15. created = 0 => page = {}
  BY <1>3
<1>16. NewestSeen(state, k) \in Nat
       /\ ((start = None /\ created > 0) => NewestSeen(state, k) = Later(created, state.newest))
       /\ ((start = None /\ created = 0) => NewestSeen(state, k) = state.newest)
       /\ ((start # None /\ start <= state.newest) => NewestSeen(state, k) = state.newest)
       /\ (state.newest <= created => NewestSeen(state, k) <= created)
  BY <1>0, <1>1, <1>8, <1>13, <1>14, <1>15 DEF Later
<1>. QED
  BY <1>11, <1>12, <1>16 DEF state, start

(* What a pass of created_desc leaves behind.                              *)
LEMMA CreatedDescStep ==
  ASSUME PeerInv, RunPass, pc = "created_desc"
  PROVE  WindowWalked' /\ WindowHeld'
<1>. DEFINE pass  == "created_desc"
            state == mark[pass]
            next  == mark'[pass]
            start == StartCursor(pass, state)
<1>0. /\ TypeOK /\ pass \in Passes /\ created' = created /\ closed' = closed /\ rows' = rows /\ faults' = faults
      /\ created \in Nat /\ InitialPRs <= created /\ PRs \subseteq Nat
      /\ InitialPRs \in Nat /\ WindowStart \in Nat /\ WindowStart > 0 /\ InitialClosed \subseteq closed'
  BY RunPassIs, Constants DEF PeerInv, TypeOK, Passes, WindowWalked
<1>1. PICK status \in {"completed", "page_capped", "partial", "rate_limited", "failed"}, k \in Nat :
        /\ status \in {"completed", "page_capped", "partial"} => k \in Nat \ {0}
        /\ status = "completed" => Finished(pass, state, k)
        /\ (status # "completed" /\ k # 0) => ~Finished(pass, state, k)
        /\ buffer' = buffer \cup Kept(pass, state, k)
        /\ next = Stamped(pass, state, NextState(pass, state, status, k), status)
  BY <1>0, RunPassIs DEF PeerInv
<1>2. /\ state \in PassState /\ state.cursor \in Nat /\ state.high \in Nat /\ state.newest \in Nat
      /\ state.age \in 0..Never /\ start = IF state.high # None THEN None ELSE state.cursor
      /\ NextState(pass, state, status, k) \in PassState
  BY <1>0, StateTyped, NextTyped DEF StartCursor
<1>3. Held \subseteq Held' /\ Kept(pass, state, k) \subseteq Held'
  BY <1>0, <1>1 DEF Held
<1>4. /\ state.newest <= created /\ state.high <= created
      /\ state.high # None => InitialPRs <= state.high
      /\ state.high = None /\ state.cursor # None =>
           InitialPRs <= state.newest /\ state.cursor <= state.newest
      /\ state.high = None /\ state.cursor = None => state.newest = None
      /\ state.age # Never => InitialPRs <= state.high
  BY DEF PeerInv, WindowWalked
<1>5. "crash" \notin faults =>
        /\ \A p \in PRs : (WindowStart <= p /\ p <= state.high) => p \in Held'
        /\ state.high = None /\ state.cursor # None =>
             \A p \in PRs : (WindowStart <= p /\ state.cursor <= p /\ p <= state.newest) => p \in Held'
  BY <1>3 DEF PeerInv, WindowHeld
<1>6. SUFFICES /\ next.newest <= created /\ next.high <= created
               /\ next.high # None => InitialPRs <= next.high
               /\ next.high = None /\ next.cursor # None =>
                    InitialPRs <= next.newest /\ next.cursor <= next.newest
               /\ next.high = None /\ next.cursor = None => next.newest = None
               /\ next.age # Never => InitialPRs <= next.high
               /\ "crash" \notin faults =>
                    /\ \A p \in PRs : (WindowStart <= p /\ p <= next.high) => p \in Held'
                    /\ next.high = None /\ next.cursor # None =>
                         \A p \in PRs : (WindowStart <= p /\ next.cursor <= p /\ p <= next.newest) => p \in Held'
  BY <1>0 DEF WindowWalked, WindowHeld
<1>7. CASE status \in {"rate_limited", "failed"}
  <2>1. NextState(pass, state, status, k) = state
    BY <1>7 DEF NextState, NextCreatedDesc
  <2>2. next = [state EXCEPT !.written = TRUE, !.age = state.age]
    BY <1>1, <1>7, <2>1 DEF Stamped
  <2>3. next.cursor = state.cursor /\ next.high = state.high /\ next.newest = state.newest
        /\ next.age = state.age
    BY <1>2, <2>2 DEF PassState
  <2>. HIDE DEF state, next
  <2>. QED
    BY <1>4, <1>5, <2>3
<1>8. CASE status \in {"completed", "page_capped", "partial"}
  <2>. DEFINE end  == EndCursor(pass, start, k)
              seen == NewestSeen(state, k)
              kept == Kept(pass, state, k)
  <2>1. k \in Nat \ {0}
    BY <1>1, <1>8
  <2>2. /\ ~Finished(pass, state, k) =>
             /\ end \in 1..created /\ (start # None => end < start)
             /\ \A p \in 1..created : (p >= end /\ (start # None => p < start)) => p \in kept
        /\ Finished(pass, state, k) =>
             \A p \in 1..created : (p >= WindowStart /\ p >= state.high /\ (start # None => p < start))
               => p \in kept
        /\ seen \in Nat
        /\ (start = None /\ created > 0) => seen = Later(created, state.newest)
        /\ (start = None /\ created = 0) => seen = state.newest
        /\ (start # None /\ start <= state.newest) => seen = state.newest
        /\ state.newest <= created => seen <= created
    BY <1>0, <2>1, DescendingWalk
  <2>3. /\ next.cursor = NextState(pass, state, status, k).cursor
        /\ next.high = NextState(pass, state, status, k).high
        /\ next.newest = NextState(pass, state, status, k).newest
        /\ (status # "completed" /\ next.age # Never) =>
             state.age # Never \/ LooksCompleted(pass, state)
    <3>. DEFINE walked == NextState(pass, state, status, k)
    <3>1. next = Stamped(pass, state, walked, status) /\ walked \in PassState /\ state \in PassState
      BY <1>1, <1>2
    <3>. HIDE DEF walked, next, state, pass
    <3>2. /\ Stamped(pass, state, walked, status).cursor = walked.cursor
          /\ Stamped(pass, state, walked, status).high = walked.high
          /\ Stamped(pass, state, walked, status).newest = walked.newest
          /\ (status # "completed" /\ Stamped(pass, state, walked, status).age # Never) =>
               state.age # Never \/ (state.written /\ LooksCompleted(pass, state))
      BY <1>8, <3>1, StampFields
    <3>. QED
      BY <3>1, <3>2 DEF walked
  <2>4. seen <= created
    BY <1>4, <2>2
  <2>5. CASE status = "completed"
    <3>1. /\ next.cursor = None /\ next.newest = None
          /\ next.high = IF seen # None THEN seen ELSE state.high
      BY <2>3, <2>5 DEF NextState, NextCreatedDesc, EmptyState
    <3>2. \A p \in 1..created : (p >= WindowStart /\ p >= state.high /\ (start # None => p < start))
            => p \in Held'
      BY <1>1, <1>3, <2>2, <2>5
    <3>. HIDE DEF next, state, start, end, seen, kept
    <3>3. CASE state.high # None
      <4>1. start = None /\ created > 0 /\ seen = created
        BY <1>0, <1>2, <1>4, <2>2, <3>3 DEF Later, None
      <4>2. next.high = created
        BY <1>0, <3>1, <4>1 DEF None
      <4>3. ASSUME "crash" \notin faults, NEW p \in PRs, WindowStart <= p, p <= created
            PROVE  p \in Held'
        <5>1. p \in Nat /\ p \in 1..created
          BY <1>0, <4>3
        <5>2. CASE p <= state.high
          BY <1>5, <4>3, <5>2
        <5>3. CASE ~ (p <= state.high)
          <6>1. p >= state.high
            BY <1>2, <5>1, <5>3
          <6>. QED
            BY <3>2, <4>1, <4>3, <5>1, <6>1
        <5>. QED
          BY <5>2, <5>3
      <4>. QED
        BY <1>0, <3>1, <4>1, <4>2, <4>3 DEF None
    <3>4. CASE state.high = None /\ state.cursor = None
      <4>1. start = None /\ state.newest = None
        BY <1>2, <1>4, <3>4
      <4>2. next.high = created
        BY <1>0, <2>2, <3>1, <3>4, <4>1 DEF Later, None
      <4>3. ASSUME NEW p \in PRs, WindowStart <= p, p <= created
            PROVE  p \in Held'
        <5>1. p \in Nat /\ p \in 1..created /\ p >= state.high
          BY <1>0, <3>4, <4>3 DEF None
        <5>. QED
          BY <3>2, <4>1, <4>3, <5>1
      <4>. QED
        BY <1>0, <3>1, <4>2, <4>3 DEF None
    <3>5. CASE state.high = None /\ state.cursor # None
      <4>1. start = state.cursor /\ seen = state.newest
        BY <1>2, <1>4, <2>2, <3>5
      <4>2. seen # None /\ next.high = state.newest
        BY <1>2, <1>4, <3>1, <3>5, <4>1 DEF None
      <4>3. ASSUME "crash" \notin faults, NEW p \in PRs, WindowStart <= p, p <= state.newest
            PROVE  p \in Held'
        <5>1. p \in Nat /\ p >= state.high /\ p \in 1..created
          BY <1>0, <1>2, <1>4, <3>5, <4>3 DEF None
        <5>2. CASE state.cursor <= p
          BY <1>5, <3>5, <4>3, <5>2
        <5>3. CASE ~ (state.cursor <= p)
          <6>1. p < start
            BY <1>2, <4>1, <5>1, <5>3
          <6>. QED
            BY <3>2, <4>3, <5>1, <6>1
        <5>. QED
          BY <5>2, <5>3
      <4>. QED
        BY <1>0, <1>4, <3>1, <3>5, <4>2, <4>3 DEF None
    <3>. QED
      BY <3>3, <3>4, <3>5
  <2>6. CASE status # "completed"
    <3>1. next.cursor = end /\ next.high = state.high /\ next.newest = seen
      BY <1>8, <2>3, <2>6 DEF NextState, NextCreatedDesc, EmptyState
    <3>2. /\ end \in 1..created /\ (start # None => end < start)
          /\ \A p \in 1..created : (p >= end /\ (start # None => p < start)) => p \in Held'
      BY <1>1, <1>3, <2>1, <2>2, <2>6
    <3>3. next.age # Never => InitialPRs <= state.high
      BY <1>4, <2>3, <2>6 DEF LooksCompleted
    <3>. HIDE DEF next, state, start, end, seen, kept
    <3>4. CASE state.high # None
      BY <1>4, <1>5, <2>4, <3>1, <3>3, <3>4
    <3>5. CASE state.high = None /\ state.cursor = None
      <4>1. start = None /\ seen = created /\ end \in Nat /\ end > 0 /\ end <= created
        BY <1>0, <1>2, <1>4, <2>2, <3>2, <3>5 DEF Later, None
      <4>2. ASSUME NEW p \in PRs, WindowStart <= p, end <= p, p <= created
            PROVE  p \in Held'
        <5>1. p \in 1..created /\ p >= end
          BY <1>0, <4>1, <4>2
        <5>. QED
          BY <3>2, <4>1, <5>1
      <4>. QED
        BY <1>0, <1>4, <1>5, <3>1, <3>3, <3>5, <4>1, <4>2 DEF None
    <3>6. CASE state.high = None /\ state.cursor # None
      <4>1. start = state.cursor /\ seen = state.newest /\ end \in Nat /\ end > 0 /\ end < state.cursor
        BY <1>0, <1>2, <1>4, <2>2, <3>2, <3>6
      <4>2. ASSUME "crash" \notin faults, NEW p \in PRs, WindowStart <= p, end <= p, p <= state.newest
            PROVE  p \in Held'
        <5>1. p \in Nat /\ p >= end /\ p \in 1..created
          BY <1>0, <1>2, <1>4, <4>1, <4>2
        <5>2. CASE state.cursor <= p
          BY <1>5, <3>6, <4>2, <5>2
        <5>3. CASE ~ (state.cursor <= p)
          <6>1. p < start
            BY <1>2, <4>1, <5>1, <5>3
          <6>. QED
            BY <3>2, <5>1, <6>1
        <5>. QED
          BY <5>2, <5>3
      <4>3. end <= state.newest
        BY <1>2, <1>4, <3>6, <4>1
      <4>. QED
        BY <1>4, <1>5, <2>4, <3>1, <3>3, <3>6, <4>1, <4>2, <4>3 DEF None
    <3>. QED
      BY <3>4, <3>5, <3>6
  <2>. QED
    BY <2>5, <2>6
<1>. QED
  BY <1>7, <1>8

-----------------------------------------------------------------------------
(* The walks of open_prs and closed_search.                                *)

LEMMA NoneAbove ==
  ASSUME TypeOK, NEW p
  PROVE  Cardinality({q \in closed : q > p}) \in Nat
<1>1. closed \in SUBSET (1..MaxPRs) /\ {q \in closed : q > p} \subseteq closed
  BY Constants DEF TypeOK
<1>. QED
  BY <1>1, Bounded, Constants

(* What either pass has done with a listing that has not failed.           *)
LEMMA ListingStep ==
  ASSUME PeerInv, RunPass, pc \in {"open_prs", "closed_search"}, faults \subseteq {"capped", "floor"}
  PROVE  LET state == mark[pc]
             next  == mark'[pc]
         IN  \E k \in Nat \ {0} :
               /\ Pages(pc, state.cursor, k) \subseteq Held'
               /\ \/ next.cursor = None /\ Listed(pc, state.cursor) \subseteq Pages(pc, state.cursor, k)
                  \/ /\ Pages(pc, state.cursor, k) # {}
                     /\ next.cursor = EndCursor(pc, state.cursor, k)
                     /\ next.age # Never => Done(pc)
<1>. DEFINE pass  == pc
            state == mark[pass]
            next  == mark'[pass]
<1>0. TypeOK /\ pass \in Passes /\ pass # "created_desc" /\ rows' = rows
  BY RunPassIs DEF PeerInv, Passes
<1>1. PICK status \in {"completed", "page_capped", "partial", "rate_limited", "failed"}, k \in Nat :
        /\ status \in {"rate_limited", "failed"} => status \in faults
        /\ status \in {"completed", "page_capped", "partial"} => k \in Nat \ {0}
        /\ status = "completed" => Finished(pass, state, k)
        /\ (status # "completed" /\ k # 0) => ~Finished(pass, state, k)
        /\ buffer' = buffer \cup Kept(pass, state, k)
        /\ next = Stamped(pass, state, NextState(pass, state, status, k), status)
  BY <1>0, RunPassIs
<1>2. status \in {"completed", "page_capped", "partial"} /\ k \in Nat \ {0}
  BY <1>1
<1>3. /\ state \in PassState /\ state.cursor \in 0..MaxPRs /\ StartCursor(pass, state) = state.cursor
      /\ NextState(pass, state, status, k) \in PassState
  BY <1>0, StateTyped, NextTyped
<1>. DEFINE page == Pages(pass, state.cursor, k)
<1>4. Kept(pass, state, k) = page
  BY <1>0, <1>3 DEF Kept
<1>5. page \subseteq Held'
  BY <1>0, <1>1, <1>4 DEF Held
<1>6. Finished(pass, state, k) <=> Listed(pass, state.cursor) \subseteq page
  BY <1>0, <1>3 DEF Finished
<1>7. /\ next.cursor = NextState(pass, state, status, k).cursor
      /\ (status # "completed" /\ next.age # Never) =>
           state.age # Never \/ (state.written /\ LooksCompleted(pass, state))
  <2>. DEFINE walked == NextState(pass, state, status, k)
  <2>1. next = Stamped(pass, state, walked, status) /\ walked \in PassState /\ state \in PassState
    BY <1>1, <1>3
  <2>. HIDE DEF walked, next, state, pass
  <2>2. /\ Stamped(pass, state, walked, status).cursor = walked.cursor
        /\ Stamped(pass, state, walked, status).high = walked.high
        /\ Stamped(pass, state, walked, status).newest = walked.newest
        /\ (status # "completed" /\ Stamped(pass, state, walked, status).age # Never) =>
             state.age # Never \/ (state.written /\ LooksCompleted(pass, state))
    BY <1>2, <2>1, StampFields
  <2>. QED
    BY <2>1, <2>2 DEF walked
<1>8. NextState(pass, state, status, k).cursor =
        IF status = "completed" THEN None ELSE EndCursor(pass, state.cursor, k)
  BY <1>0 DEF NextState, NextListing, EmptyState
<1>9. CASE status = "completed"
  BY <1>1, <1>2, <1>5, <1>6, <1>7, <1>8, <1>9
<1>10. CASE status # "completed"
  <2>1. page # {}
    <3>1. Listed(pass, state.cursor) # {}
      BY <1>1, <1>2, <1>6, <1>10
    <3>. QED
      BY <1>0, <1>2, <1>3, <3>1, PageStarts
  <2>2. next.age # Never => Done(pass)
    BY <1>7, <1>10 DEF Done, LooksCompleted
  <2>. QED
    BY <1>2, <1>5, <1>7, <1>8, <1>10, <2>1, <2>2
<1>. QED
  BY <1>9, <1>10

LEMMA OpenStep ==
  ASSUME PeerInv, RunPass, pc = "open_prs", faults \subseteq {"capped", "floor"}
  PROVE  /\ \A p \in InitialOpen \cap open : p <= mark'["open_prs"].cursor => p \in Held'
         /\ Done("open_prs")' => InitialOpen \cap open \subseteq Held'
<1>. DEFINE pass == "open_prs"
            c    == mark[pass].cursor
            d    == mark'[pass].cursor
<1>0. TypeOK /\ pass \in Passes /\ c \in 0..MaxPRs /\ c \in Nat /\ open \subseteq Nat
  BY StateTyped DEF PeerInv, TypeOK, Passes
<1>1. PICK k \in Nat \ {0} :
        /\ Pages(pass, c, k) \subseteq Held'
        /\ \/ d = None /\ Listed(pass, c) \subseteq Pages(pass, c, k)
           \/ /\ Pages(pass, c, k) # {}
              /\ d = EndCursor(pass, c, k)
              /\ mark'[pass].age # Never => Done(pass)
  BY ListingStep
<1>2. Held \subseteq Held'
  BY RunPassIs DEF PeerInv, Held
<1>3. /\ \A p \in InitialOpen \cap open : p <= c => p \in Held'
      /\ Done(pass) => InitialOpen \cap open \subseteq Held'
  BY <1>2 DEF PeerInv, ListingsHeld
<1>4. Listed(pass, c) = {p \in open : p > c}
  BY DEF Listed
<1>5. CASE d = None /\ Listed(pass, c) \subseteq Pages(pass, c, k)
  <2>1. \A p \in InitialOpen \cap open : p \in Held'
    <3>1. \A p \in open : p <= c \/ p > c
      <4>. HIDE DEF c
      <4>. QED
        BY <1>0
    <3>. QED
      BY <1>1, <1>3, <1>4, <1>5, <3>1
  <2>. QED
    BY <2>1
<1>6. CASE /\ Pages(pass, c, k) # {} /\ d = EndCursor(pass, c, k)
           /\ mark'[pass].age # Never => Done(pass)
  <2>1. d \in Pages(pass, c, k) /\ \A p \in Pages(pass, c, k) : p <= d
    BY <1>0, <1>6, EndsOfPage
  <2>2. d \in Nat /\ d # None
    <3>1. Pages(pass, c, k) \subseteq 1..MaxPRs
      BY <1>0, PagesTyped
    <3>. QED
      BY <2>1, <3>1, Constants DEF None
  <2>3. ASSUME NEW p \in InitialOpen \cap open, p <= d, ~ (p <= c)
        PROVE  p \in Held'
    <3>1. p \in Listed(pass, c) /\ p \in Nat
      <4>1. p \in open /\ p \in Nat
        BY <1>0
      <4>2. p > c
        BY <1>0, <2>3, <4>1
      <4>. QED
        BY <1>4, <4>1, <4>2
    <3>2. p = d \/ Before(pass, p, d)
      BY <2>2, <2>3, <3>1 DEF Before
    <3>3. p \in Pages(pass, c, k)
      BY <1>0, <2>1, <3>1, <3>2, PageBefore
    <3>. QED
      BY <1>1, <3>3
  <2>4. Done(pass)' => Done(pass)
    BY <1>6, <2>2 DEF Done
  <2>. QED
    BY <1>3, <2>3, <2>4
<1>. QED
  BY <1>1, <1>5, <1>6

LEMMA ClosedStep ==
  ASSUME PeerInv, RunPass, pc = "closed_search", faults \subseteq {"capped", "floor"}
  PROVE  /\ \A p \in InitialClosed :
              Cardinality({q \in closed : q > p}) < mark'["closed_search"].cursor => p \in Held'
         /\ Done("closed_search")' => InitialClosed \subseteq Held'
<1>. DEFINE pass == "closed_search"
            c    == mark[pass].cursor
            d    == mark'[pass].cursor
            Rank(p) == Cardinality({q \in closed : q > p})
<1>0. TypeOK /\ pass \in Passes /\ c \in 0..MaxPRs /\ c \in Nat /\ InitialClosed \subseteq closed
  BY StateTyped DEF PeerInv, Passes, WindowWalked
<1>1. PICK k \in Nat \ {0} :
        /\ Pages(pass, c, k) \subseteq Held'
        /\ \/ d = None /\ Listed(pass, c) \subseteq Pages(pass, c, k)
           \/ /\ Pages(pass, c, k) # {}
              /\ d = EndCursor(pass, c, k)
              /\ mark'[pass].age # Never => Done(pass)
  BY ListingStep
<1>2. Held \subseteq Held'
  BY RunPassIs DEF PeerInv, Held
<1>3. /\ \A p \in InitialClosed : Rank(p) < c => p \in Held'
      /\ Done(pass) => InitialClosed \subseteq Held'
  BY <1>2 DEF PeerInv, ListingsHeld
<1>4. Listed(pass, c) = {p \in closed : Rank(p) >= c}
  BY DEF Listed
<1>5. \A p \in InitialClosed : Rank(p) \in Nat /\ p \in closed
  BY <1>0, NoneAbove
<1>6. CASE d = None /\ Listed(pass, c) \subseteq Pages(pass, c, k)
  <2>1. \A p \in InitialClosed : p \in Held'
    <3>. HIDE DEF Rank, c, d
    <3>. QED
      BY <1>0, <1>1, <1>3, <1>4, <1>5, <1>6
  <2>2. \A p \in InitialClosed : ~ (Rank(p) < None)
    <3>. HIDE DEF Rank
    <3>. QED
      BY <1>5 DEF None
  <2>. QED
    BY <2>1
<1>7. CASE /\ Pages(pass, c, k) # {} /\ d = EndCursor(pass, c, k)
           /\ mark'[pass].age # Never => Done(pass)
  <2>1. /\ d = c + Cardinality(Pages(pass, c, k)) /\ Cardinality(Pages(pass, c, k)) \in Nat
        /\ \A p \in closed : (Rank(p) >= c /\ Rank(p) < c + Cardinality(Pages(pass, c, k)))
             => p \in Pages(pass, c, k)
    BY <1>0, <1>7, EndsOfPage, SearchReaches
  <2>2. d # None
    <3>1. Cardinality(Pages(pass, c, k)) # 0
      <4>1. Pages(pass, c, k) \subseteq 1..MaxPRs
        BY <1>0, PagesTyped
      <4>2. IsFiniteSet(Pages(pass, c, k))
        BY <4>1, Bounded, Constants
      <4>. QED
        BY <1>7, <4>2, FS_EmptySet
    <3>. HIDE DEF d, c
    <3>. QED
      BY <1>0, <2>1, <3>1 DEF None
  <2>3. ASSUME NEW p \in InitialClosed, Rank(p) < d
        PROVE  p \in Held'
    <3>1. Rank(p) \in Nat /\ p \in closed
      BY <1>5
    <3>2. Rank(p) < c \/ Rank(p) >= c
      <4>. HIDE DEF Rank, c
      <4>. QED
        BY <1>0, <3>1
    <3>3. CASE Rank(p) < c
      BY <1>3, <3>3
    <3>4. CASE Rank(p) >= c
      BY <1>1, <2>1, <2>3, <3>1, <3>4
    <3>. QED
      BY <3>2, <3>3, <3>4
  <2>4. Done(pass)' => Done(pass)
    BY <1>7, <2>2 DEF Done
  <2>. QED
    BY <1>3, <2>3, <2>4
<1>. QED
  BY <1>1, <1>6, <1>7

-----------------------------------------------------------------------------
(* What a step that walks no page of a pass leaves true of it.             *)

LEMMA WindowKept ==
  ASSUME PeerInv, TypeOK', faults' = faults, created <= created', closed \subseteq closed',
         "crash" \notin faults => Held \subseteq Held',
         mark'["created_desc"].cursor = mark["created_desc"].cursor,
         mark'["created_desc"].high = mark["created_desc"].high,
         mark'["created_desc"].newest = mark["created_desc"].newest,
         mark'["created_desc"].age # Never => mark["created_desc"].age # Never
  PROVE  WindowWalked' /\ WindowHeld'
<1>1. "created_desc" \in Passes
  BY DEF Passes
<1>2. /\ mark["created_desc"].newest \in Nat /\ mark["created_desc"].high \in Nat
      /\ created \in Nat /\ created' \in Nat /\ InitialPRs \in Nat
  BY <1>1, StateTyped, Constants DEF PeerInv, TypeOK
<1>3. WindowWalked'
  BY <1>2 DEF PeerInv, WindowWalked
<1>4. WindowHeld'
  BY DEF PeerInv, WindowHeld
<1>. QED
  BY <1>3, <1>4

LEMMA OpenKept ==
  ASSUME PeerInv, faults \subseteq {"capped", "floor"}, Held \subseteq Held',
         InitialOpen \cap open' \subseteq open,
         mark'["open_prs"].cursor = mark["open_prs"].cursor,
         mark'["open_prs"].written = mark["open_prs"].written,
         mark'["open_prs"].age # Never => mark["open_prs"].age # Never
  PROVE  /\ \A p \in InitialOpen \cap open' : p <= mark'["open_prs"].cursor => p \in Held'
         /\ Done("open_prs")' => InitialOpen \cap open' \subseteq Held'
<1>1. Done("open_prs")' => Done("open_prs")
  BY DEF Done
<1>. QED
  BY <1>1 DEF PeerInv, ListingsHeld

LEMMA ClosedKept ==
  ASSUME PeerInv, TypeOK', faults \subseteq {"capped", "floor"}, Held \subseteq Held',
         closed \subseteq closed',
         mark'["closed_search"].cursor = mark["closed_search"].cursor,
         mark'["closed_search"].written = mark["closed_search"].written,
         mark'["closed_search"].age # Never => mark["closed_search"].age # Never
  PROVE  /\ \A p \in InitialClosed :
              Cardinality({q \in closed' : q > p}) < mark'["closed_search"].cursor => p \in Held'
         /\ Done("closed_search")' => InitialClosed \subseteq Held'
<1>1. Done("closed_search")' => Done("closed_search")
  BY DEF Done
<1>2. TypeOK /\ mark["closed_search"].cursor \in Nat
  BY StateTyped DEF PeerInv, Passes
<1>3. ASSUME NEW p \in InitialClosed,
             Cardinality({q \in closed' : q > p}) < mark'["closed_search"].cursor
      PROVE  p \in Held'
  <2>. DEFINE above == {q \in closed : q > p}
              later == {q \in closed' : q > p}
  <2>1. later \in SUBSET (1..MaxPRs) /\ above \in SUBSET later
    <3>1. closed' \subseteq 1..MaxPRs
      BY Constants DEF TypeOK
    <3>2. later \subseteq closed' /\ above \subseteq later
      OBVIOUS
    <3>. HIDE DEF later
    <3>. QED
      BY <3>1, <3>2
  <2>. HIDE DEF above, later
  <2>2. Cardinality(above) \in Nat /\ Cardinality(later) \in Nat
        /\ Cardinality(above) <= Cardinality(later)
    BY <2>1, Bounded, Constants
  <2>3. Cardinality(later) < mark["closed_search"].cursor
    BY <1>3 DEF later
  <2>4. Cardinality(above) < mark["closed_search"].cursor
    BY <1>2, <2>2, <2>3
  <2>. QED
    BY <2>4 DEF above, PeerInv, ListingsHeld
<1>. QED
  BY <1>1, <1>3 DEF PeerInv, ListingsHeld

(* A step that touches no watermark but to age it.                         *)
LEMMA MarksKept ==
  ASSUME PeerInv, TypeOK', faults' = faults, created <= created', closed \subseteq closed',
         InitialOpen \cap open' \subseteq open,
         "crash" \notin faults => Held \subseteq Held',
         \A pass \in Passes :
           /\ mark'[pass].cursor = mark[pass].cursor /\ mark'[pass].high = mark[pass].high
           /\ mark'[pass].newest = mark[pass].newest /\ mark'[pass].written = mark[pass].written
           /\ mark'[pass].age # Never => mark[pass].age # Never
  PROVE  WindowWalked' /\ WindowHeld' /\ ListingsHeld'
<1>0. Passes = {"created_desc", "open_prs", "closed_search"}
  BY DEF Passes
<1>1. WindowWalked' /\ WindowHeld'
  BY <1>0, WindowKept
<1>2. ASSUME faults \subseteq {"capped", "floor"}
      PROVE  /\ \A p \in InitialOpen \cap open' : p <= mark'["open_prs"].cursor => p \in Held'
             /\ Done("open_prs")' => InitialOpen \cap open' \subseteq Held'
             /\ \A p \in InitialClosed :
                  Cardinality({q \in closed' : q > p}) < mark'["closed_search"].cursor => p \in Held'
             /\ Done("closed_search")' => InitialClosed \subseteq Held'
  <2>1. Held \subseteq Held'
    BY <1>2
  <2>. QED
    BY <1>0, <1>2, <2>1, OpenKept, ClosedKept
<1>3. ListingsHeld'
  BY <1>2 DEF ListingsHeld
<1>. QED
  BY <1>1, <1>3

LEMMA RunPassPeerInv ==
  ASSUME PeerInv, TypeOK', RunPass
  PROVE  PeerInv'
<1>0. /\ TypeOK /\ pc \in Passes /\ pc' = After(pc) /\ rows' = rows /\ created' = created
      /\ open' = open /\ closed' = closed /\ faults' = faults
      /\ \A pass \in Passes : pass # pc => mark'[pass] = mark[pass]
      /\ created \in Nat /\ Passes = {"created_desc", "open_prs", "closed_search"}
  BY RunPassIs, Constants DEF PeerInv, TypeOK, Passes
<1>1. Held \subseteq Held'
  BY <1>0, RunPassIs DEF Held
<1>2. BufferInOrder'
  BY <1>0, AfterIs DEF BufferInOrder
<1>3. WindowWalked' /\ WindowHeld'
  <2>1. CASE pc = "created_desc"
    BY <2>1, CreatedDescStep
  <2>2. CASE pc # "created_desc"
    BY <1>0, <1>1, <2>2, WindowKept
  <2>. QED
    BY <2>1, <2>2
<1>4. ListingsHeld'
  <2>. SUFFICES ASSUME faults \subseteq {"capped", "floor"}
                PROVE  /\ \A p \in InitialOpen \cap open' : p <= mark'["open_prs"].cursor => p \in Held'
                       /\ Done("open_prs")' => InitialOpen \cap open' \subseteq Held'
                       /\ \A p \in InitialClosed :
                            Cardinality({q \in closed' : q > p}) < mark'["closed_search"].cursor
                              => p \in Held'
                       /\ Done("closed_search")' => InitialClosed \subseteq Held'
    BY <1>0 DEF ListingsHeld
  <2>1. /\ \A p \in InitialOpen \cap open' : p <= mark'["open_prs"].cursor => p \in Held'
        /\ Done("open_prs")' => InitialOpen \cap open' \subseteq Held'
    <3>1. CASE pc = "open_prs"
      BY <1>0, <3>1, OpenStep
    <3>2. CASE pc # "open_prs"
      <4>1. mark'["open_prs"] = mark["open_prs"]
        BY <1>0, <3>2
      <4>. QED
        BY <1>0, <1>1, <4>1, OpenKept
    <3>. QED
      BY <3>1, <3>2
  <2>2. /\ \A p \in InitialClosed :
             Cardinality({q \in closed' : q > p}) < mark'["closed_search"].cursor => p \in Held'
        /\ Done("closed_search")' => InitialClosed \subseteq Held'
    <3>1. CASE pc = "closed_search"
      BY <1>0, <3>1, ClosedStep
    <3>2. CASE pc # "closed_search"
      <4>1. mark'["closed_search"] = mark["closed_search"]
        BY <1>0, <3>2
      <4>. QED
        BY <1>0, <1>1, <4>1, ClosedKept
    <3>. QED
      BY <3>1, <3>2
  <2>. QED
    BY <2>1, <2>2
<1>. QED
  BY <1>2, <1>3, <1>4 DEF PeerInv

LEMMA InitPeerInv == Init => PeerInv
<1>. SUFFICES ASSUME Init PROVE PeerInv
  OBVIOUS
<1>1. PICK legacy \in SUBSET Passes :
        /\ "created_desc" \in legacy => InitialPRs > 0
        /\ mark = [pass \in Passes |-> IF pass \in legacy THEN LegacyState(pass) ELSE EmptyState]
        /\ rows = UNION {Promised(pass) : pass \in legacy}
  BY DEF Init
<1>2. /\ created = InitialPRs /\ open = InitialOpen /\ closed = InitialClosed /\ buffer = {}
      /\ InitialPRs \in Nat /\ Never \in Nat /\ PRs \subseteq Nat
      /\ Passes = {"created_desc", "open_prs", "closed_search"}
  BY Constants DEF Init, Passes
<1>3. \A pass \in Passes :
        /\ mark[pass].cursor = None /\ mark[pass].newest = None /\ mark[pass].age = Never
        /\ mark[pass].written => pass \in legacy
        /\ mark[pass].high = IF pass = "created_desc" /\ pass \in legacy THEN InitialPRs ELSE None
  BY <1>1 DEF LegacyState, EmptyState
<1>4. \A pass \in legacy : Promised(pass) \subseteq Held
  BY <1>1 DEF Held
<1>5. WindowWalked
  BY <1>1, <1>2, <1>3 DEF WindowWalked, None
<1>6. WindowHeld
  <2>1. ASSUME NEW p \in PRs, WindowStart <= p, p <= mark["created_desc"].high
        PROVE  p \in Held
    <3>1. p \in Nat /\ p > 0
      BY DEF PRs
    <3>2. "created_desc" \in legacy /\ p <= InitialPRs
      BY <1>2, <1>3, <2>1, <3>1 DEF None
    <3>3. p \in Promised("created_desc")
      BY <1>2, <2>1, <3>1, <3>2, Constants DEF Promised
    <3>. QED
      BY <1>4, <3>2, <3>3
  <2>. QED
    BY <1>2, <1>3, <2>1 DEF WindowHeld
<1>7. ListingsHeld
  <2>1. \A p \in InitialOpen : ~ (p <= None)
    BY <1>2, PeerAssumption DEF None
  <2>2. ASSUME NEW p \in InitialClosed
        PROVE  ~ (Cardinality({q \in closed : q > p}) < None)
    <3>1. Cardinality({q \in closed : q > p}) \in Nat
      BY InitTypeOK, NoneAbove
    <3>. QED
      BY <3>1 DEF None
  <2>3. Done("open_prs") => InitialOpen \cap open \subseteq Held
    BY <1>2, <1>3, <1>4 DEF Done, Promised
  <2>4. Done("closed_search") => InitialClosed \subseteq Held
    BY <1>2, <1>3, <1>4 DEF Done, Promised
  <2>. QED
    BY <1>2, <1>3, <2>1, <2>2, <2>3, <2>4 DEF ListingsHeld
<1>. QED
  BY <1>2, <1>5, <1>6, <1>7, InitTypeOK DEF PeerInv, BufferInOrder

LEMMA NextPeerInv ==
  ASSUME PeerInv, [Next]_vars
  PROVE  PeerInv'
<1>0. /\ TypeOK /\ TypeOK' /\ created \in Nat /\ BufferInOrder
      /\ InitialOpen \subseteq Nat /\ InitialPRs <= created /\ InitialPRs \in Nat
      /\ \A p \in InitialOpen : p <= InitialPRs
  <2>1. TypeOK /\ TypeOK' /\ BufferInOrder /\ InitialPRs <= created
    BY NextTypeOK DEF PeerInv, WindowWalked
  <2>. QED
    BY <2>1, Constants, PeerAssumption DEF TypeOK
<1>1. CASE CreatePR
  <2>1. created <= created' /\ closed' = closed /\ faults' = faults /\ mark' = mark
        /\ rows' = rows /\ buffer' = buffer /\ pc' = pc
    BY <1>0, <1>1 DEF CreatePR
  <2>2. InitialOpen \cap open' \subseteq open
    BY <1>0, <1>1 DEF CreatePR
  <2>3. WindowWalked' /\ WindowHeld' /\ ListingsHeld'
    BY <1>0, <2>1, <2>2, MarksKept DEF Held
  <2>. QED
    BY <1>0, <2>1, <2>3 DEF PeerInv, BufferInOrder
<1>2. CASE \E p \in PRs : ClosePR(p)
  <2>1. created' = created /\ closed \subseteq closed' /\ faults' = faults /\ mark' = mark
        /\ rows' = rows /\ buffer' = buffer /\ pc' = pc /\ open' \subseteq open
    BY <1>2 DEF ClosePR
  <2>2. WindowWalked' /\ WindowHeld' /\ ListingsHeld'
    BY <1>0, <2>1, MarksKept DEF Held
  <2>. QED
    BY <1>0, <2>1, <2>2 DEF PeerInv, BufferInOrder
<1>3. CASE Tick
  <2>1. UNCHANGED <<created, open, closed, rows, pc, buffer, faults>>
    BY <1>3 DEF Tick, upstream
  <2>2. ASSUME NEW pass \in Passes
        PROVE  /\ mark'[pass].cursor = mark[pass].cursor /\ mark'[pass].high = mark[pass].high
               /\ mark'[pass].newest = mark[pass].newest /\ mark'[pass].written = mark[pass].written
               /\ mark'[pass].age # Never => mark[pass].age # Never
    <3>1. mark'[pass] = [mark[pass] EXCEPT !.age = IF @ < Stale THEN @ + 1 ELSE @]
      BY <1>3 DEF Tick
    <3>2. mark[pass] \in PassState /\ mark[pass].age \in Nat
      BY <1>0, StateTyped
    <3>3. /\ mark'[pass].cursor = mark[pass].cursor /\ mark'[pass].high = mark[pass].high
          /\ mark'[pass].newest = mark[pass].newest /\ mark'[pass].written = mark[pass].written
          /\ mark'[pass].age = IF mark[pass].age < Stale THEN mark[pass].age + 1 ELSE mark[pass].age
      BY <3>1, <3>2 DEF PassState
    <3>4. mark'[pass].age # Never => mark[pass].age # Never
      BY <3>2, <3>3, Constants DEF Stale, Never
    <3>. QED
      BY <3>3, <3>4
  <2>3. WindowWalked' /\ WindowHeld' /\ ListingsHeld'
    BY <1>0, <2>1, <2>2, MarksKept DEF Held
  <2>. QED
    BY <1>0, <2>1, <2>3 DEF PeerInv, BufferInOrder
<1>4. CASE RunPass
  BY <1>0, <1>4, RunPassPeerInv
<1>5. CASE BeginRun \/ SkipPass \/ TakeSnapshot \/ UNCHANGED vars
  <2>1. UNCHANGED <<created, open, closed, mark, rows, buffer, faults>>
    BY <1>5 DEF BeginRun, SkipPass, TakeSnapshot, vars, upstream
  <2>2. WindowWalked' /\ WindowHeld' /\ ListingsHeld'
    BY <1>0, <2>1, MarksKept DEF Held
  <2>3. BufferInOrder'
    <3>1. CASE BeginRun
      BY <3>1 DEF BeginRun, BufferInOrder
    <3>2. CASE SkipPass
      BY <3>2, AfterIs DEF SkipPass, BufferInOrder, Passes
    <3>3. CASE TakeSnapshot
      BY <1>0, <2>1, <3>3 DEF TakeSnapshot, BufferInOrder
    <3>4. CASE UNCHANGED vars
      BY <1>0, <3>4 DEF vars, BufferInOrder
    <3>. QED
      BY <1>5, <3>1, <3>2, <3>3, <3>4
  <2>. QED
    BY <1>0, <2>2, <2>3 DEF PeerInv
<1>6. CASE WriteRows
  <2>1. UNCHANGED <<created, open, closed, mark, faults>> /\ rows' = rows \cup buffer /\ buffer' = {}
    BY <1>6 DEF WriteRows, upstream
  <2>2. WindowWalked' /\ WindowHeld' /\ ListingsHeld'
    BY <1>0, <2>1, MarksKept DEF Held
  <2>. QED
    BY <1>0, <2>1, <2>2 DEF PeerInv, BufferInOrder
<1>7. CASE Crash
  <2>1. UNCHANGED <<created, open, closed, mark, faults>> /\ "crash" \in faults /\ buffer' = {}
    BY <1>7 DEF Crash, upstream
  <2>2. WindowWalked' /\ WindowHeld' /\ ListingsHeld'
    BY <1>0, <2>1, MarksKept
  <2>. QED
    BY <1>0, <2>1, <2>2 DEF PeerInv, BufferInOrder
<1>. QED
  BY <1>1, <1>2, <1>3, <1>4, <1>5, <1>6, <1>7 DEF Next, Run

LEMMA PeerInvariant == Spec => []PeerInv
BY InitPeerInv, NextPeerInv, PTL DEF Spec

-----------------------------------------------------------------------------
(* No pull request of the window up to the high watermark of created_desc  *)
(* is missing from what is stored or about to be written: resuming at a    *)
(* cursor, stopping at the threshold of an earlier walk, capping the pages *)
(* and failing in between skip nothing, however the pages fall.            *)
THEOREM WindowIsCovered == Spec => []WindowCovered
<1>1. PeerInv => WindowCovered
  <2>. SUFFICES ASSUME PeerInv, "crash" \notin faults,
                       NEW p \in WindowStart..mark["created_desc"].high
                PROVE  p \in rows \cup buffer
    BY DEF WindowCovered
  <2>1. mark["created_desc"].high \in Nat /\ mark["created_desc"].high <= MaxPRs
    BY StateTyped, Constants DEF PeerInv, Passes
  <2>2. p \in PRs /\ WindowStart <= p /\ p <= mark["created_desc"].high
    BY <2>1, Constants DEF PRs
  <2>. QED
    BY <2>2 DEF PeerInv, WindowHeld, Held
<1>. QED
  BY <1>1, PeerInvariant, PTL

(* Behind a pass a snapshot calls settled the store holds what the pass    *)
(* promises, in every run whose walks end by completing, by their page cap *)
(* or at the rate-limit floor.                                             *)
THEOREM SettlementIsHonest == Spec => []SettlementHonestUnlessFailing
<1>1. PeerInv => SettlementHonestUnlessFailing
  <2>. SUFFICES ASSUME PeerInv, faults \subseteq {"capped", "floor"}, pc = "snapshot",
                       NEW pass \in Passes, Settled(pass, mark[pass])
                PROVE  Promised(pass) \subseteq rows
    BY DEF SettlementHonestUnlessFailing, SettlementHonest
  <2>1. Held = rows
    BY DEF PeerInv, BufferInOrder, Held
  <2>2. mark[pass].written /\ (mark[pass].age # Never \/ LooksCompleted(pass, mark[pass]))
    BY DEF Settled
  <2>3. CASE pass = "created_desc"
    <3>1. InitialPRs <= mark[pass].high /\ mark[pass].high \in Nat
      BY <2>2, <2>3, StateTyped DEF LooksCompleted, PeerInv, WindowWalked
    <3>2. ASSUME NEW p \in WindowStart..InitialPRs
          PROVE  p \in Held
      <4>1. p \in PRs /\ WindowStart <= p /\ p <= mark[pass].high
        BY <3>1, Constants DEF PRs
      <4>. QED
        BY <2>3, <4>1 DEF PeerInv, WindowHeld
    <3>. QED
      BY <2>1, <2>3, <3>2 DEF Promised
  <2>4. CASE pass # "created_desc"
    <3>1. Done(pass)
      BY <2>2 DEF Done, LooksCompleted
    <3>. QED
      BY <2>1, <2>4, <3>1 DEF Passes, Promised, PeerInv, ListingsHeld
  <2>. QED
    BY <2>3, <2>4
<1>. QED
  BY <1>1, PeerInvariant, PTL

=============================================================================
