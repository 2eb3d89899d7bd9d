----------------------------- MODULE JiraProofs -----------------------------
(***************************************************************************)
(* Proofs about the collection of JIRA issues, for any number of issues,   *)
(* minutes, margin, size of a page and caps of the backfills.              *)
(***************************************************************************)
EXTENDS JiraCollection, FiniteSetTheorems, TLAPS

-----------------------------------------------------------------------------
(* A nonempty set of numbers has a least one.                              *)
LEMMA Smallest ==
  ASSUME NEW T \in SUBSET Nat, T # {}
  PROVE  \E m \in T : \A x \in T : m <= x
<1>1. PICK k \in T : \A j \in T : ~ (<<j, k>> \in OpToRel(<, Nat))
  BY WFMin, NatLessThanWellFounded
<1>2. ASSUME NEW j \in T
      PROVE  k <= j
  <2>1. j \in Nat /\ k \in Nat
    OBVIOUS
  <2>2. j < k => <<j, k>> \in OpToRel(<, Nat)
    BY <2>1 DEF OpToRel
  <2>3. ~ (j < k)
    BY <1>1, <2>2
  <2>. QED
    BY <2>1, <2>3
<1>. QED
  BY <1>2

-----------------------------------------------------------------------------
(* Places in a list. Below[x] are the elements of a finite set S that come *)
(* before x in some order, and how many they are is the place of x.        *)

Places(S, Below) ==
  /\ IsFiniteSet(S) /\ Below \in [S -> SUBSET S]
  /\ \A x, y \in S : x # y => x \in Below[y] \/ y \in Below[x]
  /\ \A x, y \in S : x \in Below[y] => Below[x] \subseteq Below[y]
  /\ \A x \in S : x \notin Below[x]

LEMMA PlacesGrow ==
  ASSUME NEW S, NEW Below, Places(S, Below)
  PROVE  /\ \A x \in S : IsFiniteSet(Below[x]) /\ Cardinality(Below[x]) \in Nat
         /\ \A x, y \in S : x \in Below[y] => Cardinality(Below[x]) < Cardinality(Below[y])
         /\ \A x, y \in S : Cardinality(Below[x]) = Cardinality(Below[y]) => x = y
<1>1. ASSUME NEW x \in S
      PROVE  IsFiniteSet(Below[x]) /\ Cardinality(Below[x]) \in Nat
  BY FS_Subset, FS_CardinalityType DEF Places
<1>2. ASSUME NEW x \in S, NEW y \in S, x \in Below[y]
      PROVE  Cardinality(Below[x]) < Cardinality(Below[y])
  <2>1. Below[x] \in SUBSET Below[y] /\ Below[x] # Below[y]
    BY <1>2 DEF Places
  <2>2. Cardinality(Below[x]) <= Cardinality(Below[y])
        /\ (Cardinality(Below[y]) = Cardinality(Below[x]) => Below[y] = Below[x])
    BY <1>1, <2>1, FS_Subset
  <2>. QED
    BY <1>1, <2>1, <2>2
<1>3. ASSUME NEW x \in S, NEW y \in S, Cardinality(Below[x]) = Cardinality(Below[y]), x # y
      PROVE  FALSE
  <2>1. x \in Below[y] \/ y \in Below[x]
    BY <1>3 DEF Places
  <2>. QED
    BY <1>1, <1>2, <1>3, <2>1
<1>. QED
  BY <1>1, <1>2, <1>3

(* No two elements have the same place, so that a page has no more         *)
(* elements than places,                                                   *)
LEMMA PlacesFit ==
  ASSUME NEW S, NEW Below, Places(S, Below), NEW a \in Nat, NEW b \in Nat, a <= b
  PROVE  /\ IsFiniteSet({x \in S : Cardinality(Below[x]) \in a..(b - 1)})
         /\ Cardinality({x \in S : Cardinality(Below[x]) \in a..(b - 1)}) \in Nat
         /\ Cardinality({x \in S : Cardinality(Below[x]) \in a..(b - 1)}) <= b - a
<1>. DEFINE page == {x \in S : Cardinality(Below[x]) \in a..(b - 1)}
            place == [x \in page |-> Cardinality(Below[x])]
<1>1. IsFiniteSet(page) /\ Cardinality(page) \in Nat
  BY FS_Subset, FS_CardinalityType DEF Places
<1>2. IsFiniteSet(a..(b - 1)) /\ Cardinality(a..(b - 1)) = b - a
  <2>1. a \in Int /\ b - 1 \in Int
    OBVIOUS
  <2>2. IsFiniteSet(a..(b - 1)) /\ Cardinality(a..(b - 1)) = IF a > b - 1 THEN 0 ELSE (b - 1) - a + 1
    BY <2>1, FS_Interval
  <2>. QED
    BY <2>1, <2>2
<1>3. place \in Injection(page, a..(b - 1))
  BY PlacesGrow DEF Injection, IsInjective
<1>. HIDE DEF page, place
<1>4. Cardinality(page) <= Cardinality(a..(b - 1))
  BY <1>2, <1>3, FS_Injection
<1>. QED
  BY <1>1, <1>2, <1>4 DEF page

(* and no fewer if an element comes after it.                              *)
LEMMA PlacesReach ==
  ASSUME NEW S, NEW Below, Places(S, Below), NEW a \in Nat, NEW b \in Nat, a <= b
  PROVE  (\E p \in S : Cardinality(Below[p]) >= b) =>
           Cardinality({x \in S : Cardinality(Below[x]) \in a..(b - 1)}) >= b - a
<1>. SUFFICES ASSUME NEW p \in S, Cardinality(Below[p]) >= b
              PROVE  Cardinality({x \in S : Cardinality(Below[x]) \in a..(b - 1)}) >= b - a
  OBVIOUS
<1>. DEFINE Place(x) == Cardinality(Below[x])
            page == {x \in S : Place(x) \in a..(b - 1)}
            first == {x \in S : Place(x) \in 0..(a - 1)}
            beyond == {Place(x) : x \in {y \in S : Place(y) >= b}}
<1>1. \A x \in S : Place(x) \in Nat
  BY PlacesGrow
<1>2. PICK m \in beyond : \A n \in beyond : m <= n
  <2>1. beyond \in SUBSET Nat /\ beyond # {}
    BY <1>1
  <2>. HIDE DEF beyond
  <2>. QED
    BY <2>1, Smallest
<1>3. PICK x \in S : Place(x) >= b /\ \A y \in S : Place(y) >= b => Place(x) <= Place(y)
  BY <1>2
<1>4. Below[x] \subseteq first \cup page
  <2>. SUFFICES ASSUME NEW y \in Below[x] PROVE y \in first \/ y \in page
    OBVIOUS
  <2>1. y \in S /\ Place(y) < Place(x)
    BY PlacesGrow DEF Places
  <2>2. Place(y) \in Nat /\ Place(x) \in Nat /\ Place(y) < b
    BY <1>1, <1>3, <2>1
  <2>. QED
    BY <2>1, <2>2
<1>5. /\ IsFiniteSet(first) /\ Cardinality(first) \in Nat /\ Cardinality(first) <= a
      /\ IsFiniteSet(page) /\ Cardinality(page) \in Nat
  <2>1. ASSUME NEW c \in Nat, c <= a
        PROVE  /\ IsFiniteSet({y \in S : Cardinality(Below[y]) \in c..(a - 1)})
               /\ Cardinality({y \in S : Cardinality(Below[y]) \in c..(a - 1)}) \in Nat
               /\ Cardinality({y \in S : Cardinality(Below[y]) \in c..(a - 1)}) <= a - c
    BY <2>1, PlacesFit
  <2>2. /\ IsFiniteSet({y \in S : Cardinality(Below[y]) \in 0..(a - 1)})
        /\ Cardinality({y \in S : Cardinality(Below[y]) \in 0..(a - 1)}) \in Nat
        /\ Cardinality({y \in S : Cardinality(Below[y]) \in 0..(a - 1)}) <= a
    <3>1. 0 \in Nat /\ 0 <= a /\ a - 0 = a
      OBVIOUS
    <3>. QED
      BY <2>1, <3>1
  <2>3. IsFiniteSet({y \in S : Cardinality(Below[y]) \in a..(b - 1)})
        /\ Cardinality({y \in S : Cardinality(Below[y]) \in a..(b - 1)}) \in Nat
    BY PlacesFit
  <2>. QED
    BY <2>2, <2>3
<1>6. Place(x) \in Nat /\ Below[x] \in SUBSET (first \cup page)
  BY <1>1, <1>4
<1>. HIDE DEF first, page
<1>7. /\ IsFiniteSet(first \cup page)
      /\ Cardinality(first \cup page) = Cardinality(first) + Cardinality(page) - Cardinality(first \cap page)
      /\ Cardinality(first \cap page) \in Nat
  BY <1>5, FS_Union, FS_Intersection, FS_CardinalityType
<1>8. Place(x) <= Cardinality(first \cup page)
  BY <1>6, <1>7, FS_Subset
<1>. QED
  BY <1>3, <1>5, <1>6, <1>7, <1>8 DEF page

-----------------------------------------------------------------------------
(* The inductive invariant.                                                *)

Writes == {"write issue", "write comment", "write changelog", "write checked", "write watermark"}
Patching == {"patches", "patch issue", "patch changelog", "patch comment", "patch checked", "patch cursor"}
Stages == {"idle", "search", "comments", "fetch comments", "backfill comment", "backfill checked",
           "patch total", "patch covered"} \cup Writes \cup Patching

(* No row, stored or fetched, is newer than its issue, nor is a watermark  *)
(* later than the minute.                                                  *)
TypeOK ==
  /\ updated \in [Issues -> Times] /\ patched \subseteq Issues /\ now \in Times
  /\ \A i \in Issues : updated[i] <= now
  /\ \A i \in patched : updated[i] > 0
  /\ faults \in Environments
  /\ stored \in [Tables -> [Issues -> Times]] /\ rows \in [Tables -> [Issues -> Times]]
  /\ \A t \in Tables, i \in Issues : stored[t][i] <= updated[i] /\ rows[t][i] <= updated[i]
  /\ checked \subseteq Issues /\ watermark \in Times /\ watermark <= now
  /\ cursor \in 0..NumIssues /\ total \in Nat \cup {-1} /\ covered \in Nat
  /\ pc \in Stages
  /\ marking \subseteq Issues /\ offset \in Nat /\ todo \subseteq Issues
  /\ pages \in Nat /\ noted \in Nat \cup {-1}

(* What the stages leave behind.                                           *)
Forgotten ==
  /\ pc \in {"idle", "comments"} => rows = [t \in Tables |-> NoRows] /\ marking = {}
  /\ pc \in {"idle", "search"} /\ offset = 0 => rows = [t \in Tables |-> NoRows] /\ marking = {}
  /\ pc \in {"fetch comments", "backfill comment", "backfill checked"} =>
       rows["jira_changelog"] = NoRows
  /\ pc \notin Patching \cup {"search", "patch total", "patch covered"} => offset = 0
  /\ todo \subseteq {i \in Issues : updated[i] > 0}

(* The stages behind the write of a table.                                 *)
Behind(t) ==
  CASE t = "issue"          -> Writes \ {"write issue"}
    [] t = "issue_comment"  -> {"write changelog", "write checked", "write watermark",
                                "backfill checked", "patch checked", "patch cursor"}
    [] t = "jira_changelog" -> {"write checked", "write watermark",
                                "patch comment", "patch checked", "patch cursor"}

(* A row fetched was current then, and what changed since will be searched.*)
RowsKnown ==
  /\ \A t \in Tables, i \in Issues : rows[t][i] > 0 => rows[t][i] = updated[i] \/ updated[i] >= Since
  /\ \A i \in marking : rows["issue_comment"][i] > 0
  /\ pc = "search" => \A t \in Tables : rows[t] = rows["issue"]
  /\ \A t \in Tables : pc \in Behind(t) => \A i \in Issues : rows[t][i] <= stored[t][i]

(* A search has all it has paged over, and when it is over all there is.   *)
Position(i) == Cardinality({j \in Matching : Before(j, i)})
Searched ==
  "busy" \notin faults =>
    /\ pc = "search" =>
         \A i \in Issues :
           /\ i \in marking => \A t \in Tables : rows[t][i] = updated[i]
           /\ i \in Matching /\ Position(i) < offset => i \in marking
    /\ pc \in Writes => \A i \in Issues : updated[i] >= Since =>
         \/ \A t \in Tables : rows[t][i] = updated[i]
         \/ \A j \in Issues : rows["issue"][j] <= updated[i]

(* The backfill of histories has all up to the last one it has fetched.    *)
Fetched == {i \in Issues : rows["jira_changelog"][i] > 0}
Place(i) == Cardinality({j \in Beyond : j < i})
Histories ==
  pc \in Patching =>
    /\ Fetched \subseteq Beyond
    /\ \A i \in Beyond : updated[i] < Since =>
         /\ \A k \in Fetched : i < k => i \in Fetched
         /\ pc = "patches" /\ Place(i) < offset => i \in Fetched

(* What it counts, as long as no issue becomes Patch Available.            *)
Behind0 == {i \in patched : i <= cursor}
Counted ==
  "growth" \notin faults =>
    /\ total # -1 => total = Cardinality(patched)
    /\ noted # -1 => noted = Cardinality(patched)
    /\ \A i \in patched : i <= cursor => stored["jira_changelog"][i] > 0
    /\ covered <= Cardinality(Behind0)
    /\ pc \in {"patch total", "patch covered"} => covered + offset <= Cardinality(Behind0)
    /\ pc \in Patching =>
         /\ offset = Cardinality(Fetched)
         /\ \A i \in Beyond, k \in Fetched : i < k => i \in Fetched

JiraInv == /\ TypeOK /\ Forgotten /\ RowsKnown /\ Searched /\ Histories /\ Counted
           /\ ("busy" \notin faults => NothingMissed) /\ CheckedIsCovered /\ HistoryBehindCursor
-----------------------------------------------------------------------------
LEMMA Constants ==
  /\ NumIssues \in Nat /\ NumIssues > 0 /\ MaxTime \in Nat /\ Margin \in Nat
  /\ Legacy \in Nat /\ Legacy <= NumIssues /\ Legacy <= MaxTime
  /\ PageSize \in Nat /\ PageSize > 0
  /\ Issues \subseteq Nat /\ Times \subseteq Nat /\ 0 \in Times
  /\ IsFiniteSet(Issues)
<1>1. IsFiniteSet(1..NumIssues)
  BY FS_Interval, JiraAssumption
<1>. QED
  BY <1>1, JiraAssumption DEF Issues, Times

LEMMA Values ==
  ASSUME TypeOK
  PROVE  /\ \A i \in Issues : updated[i] \in Nat /\ updated[i] \in Times /\ updated[i] <= now
         /\ \A t \in Tables, i \in Issues :
              /\ stored[t][i] \in Nat /\ stored[t][i] \in Times /\ stored[t][i] <= updated[i]
              /\ rows[t][i] \in Nat /\ rows[t][i] \in Times /\ rows[t][i] <= updated[i]
         /\ now \in Nat /\ watermark \in Nat /\ Since \in Int /\ Since <= now
         /\ "issue" \in Tables /\ "issue_comment" \in Tables /\ "jira_changelog" \in Tables
<1>1. /\ now \in Nat /\ watermark \in Nat /\ watermark <= now
  BY Constants DEF TypeOK
<1>2. Since \in Int /\ Since <= now
  BY <1>1, Constants DEF Since
<1>3. ASSUME NEW t \in Tables, NEW i \in Issues
      PROVE  /\ updated[i] \in Times /\ stored[t][i] \in Times /\ rows[t][i] \in Times
             /\ updated[i] <= now /\ stored[t][i] <= updated[i] /\ rows[t][i] <= updated[i]
  BY DEF TypeOK
<1>4. "issue" \in Tables /\ "issue_comment" \in Tables /\ "jira_changelog" \in Tables
  BY DEF Tables
<1>. QED
  BY <1>1, <1>2, <1>3, <1>4, Constants

LEMMA LaterIs ==
  ASSUME NEW a \in Nat, NEW b \in Nat
  PROVE  /\ Later(a, b) \in {a, b} /\ a <= Later(a, b) /\ b <= Later(a, b)
BY DEF Later

LEMMA LatestIs ==
  ASSUME TypeOK
  PROVE  /\ Latest(rows["issue"]) \in Times
         /\ \E i \in Issues : rows["issue"][i] = Latest(rows["issue"])
         /\ \A i \in Issues : rows["issue"][i] <= Latest(rows["issue"])
<1>. DEFINE f == rows["issue"]
            S == {MaxTime - f[i] : i \in Issues}
<1>1. \A i \in Issues : f[i] \in Times /\ f[i] \in Nat /\ MaxTime - f[i] \in Nat
  BY Values, Constants DEF Times
<1>2. S \in SUBSET Nat /\ S # {}
  <2>1. 1 \in Issues
    BY Constants DEF Issues
  <2>. QED
    BY <1>1, <2>1
<1>3. PICK m \in S : \A n \in S : m <= n
  <2>. HIDE DEF S
  <2>. QED
    BY <1>2, Smallest
<1>4. PICK i \in Issues : m = MaxTime - f[i]
  BY <1>3
<1>5. \A j \in Issues : f[j] <= f[i]
  <2>. SUFFICES ASSUME NEW j \in Issues PROVE f[j] <= f[i]
    OBVIOUS
  <2>1. MaxTime - f[i] <= MaxTime - f[j]
    BY <1>3, <1>4
  <2>. HIDE DEF f
  <2>. QED
    BY <1>1, <2>1, Constants
<1>. HIDE DEF f, S
<1>6. \E t \in Times : (\E k \in Issues : f[k] = t) /\ (\A k \in Issues : f[k] <= t)
  BY <1>1, <1>5
<1>7. PICK l \in Times : l = Latest(f) /\ (\E k \in Issues : f[k] = l) /\ (\A k \in Issues : f[k] <= l)
  BY <1>6 DEF Latest
<1>. QED
  BY <1>7 DEF f

LEMMA LastKeyIs ==
  ASSUME TypeOK
  PROVE  /\ LastKey \in 0..NumIssues
         /\ LastKey # 0 => LastKey \in Fetched
         /\ \A i \in Fetched : i <= LastKey
<1>. DEFINE S == {NumIssues - i : i \in Fetched}
            Fits(k) == (k = 0 \/ rows["jira_changelog"][k] > 0)
                       /\ \A i \in Issues : rows["jira_changelog"][i] > 0 => i <= k
<1>1. \E k \in 0..NumIssues : Fits(k)
  <2>1. CASE Fetched = {}
    <3>1. Fits(0) /\ 0 \in 0..NumIssues
      BY <2>1, Constants DEF Fetched
    <3>. QED
      BY <3>1
  <2>2. CASE Fetched # {}
    <3>1. \A i \in Fetched : i \in Nat /\ i <= NumIssues /\ NumIssues - i \in Nat /\ i \in Issues
      BY Constants DEF Fetched, Issues
    <3>2. PICK m \in S : \A n \in S : m <= n
      <4>1. S \in SUBSET Nat /\ S # {}
        BY <2>2, <3>1
      <4>. HIDE DEF S
      <4>. QED
        BY <4>1, Smallest
    <3>3. PICK k \in Fetched : m = NumIssues - k
      BY <3>2
    <3>4. ASSUME NEW i \in Fetched
          PROVE  i <= k
      <4>1. NumIssues - k <= NumIssues - i
        BY <3>2, <3>3
      <4>. QED
        BY <3>1, <4>1, Constants
    <3>5. Fits(k) /\ k \in 0..NumIssues
      BY <3>1, <3>4, Constants DEF Fetched
    <3>. QED
      BY <3>5
  <2>. QED
    BY <2>1, <2>2
<1>2. LastKey = CHOOSE k \in 0..NumIssues : Fits(k)
  BY DEF LastKey
<1>. HIDE DEF Fits
<1>3. LastKey \in 0..NumIssues /\ Fits(LastKey)
  BY <1>1, <1>2
<1>4. LastKey # 0 => LastKey \in Issues
  BY <1>3, Constants DEF Issues
<1>. QED
  BY <1>3, <1>4 DEF Fits, Fetched

-----------------------------------------------------------------------------
(* Types, and what the stages leave behind.                                *)

LEMMA InitJiraTypeOK == Init => TypeOK /\ Forgotten
<1>. SUFFICES ASSUME Init PROVE TypeOK /\ Forgotten
  OBVIOUS
<1>1. \A i \in Issues : updated[i] = (IF i <= Legacy THEN i ELSE 0) /\ updated[i] \in Times
                        /\ updated[i] <= Legacy
  BY Constants DEF Init, Issues, Times
<1>2. updated \in [Issues -> Times] /\ NoRows \in [Issues -> Times] /\ Legacy \in Times
  BY <1>1, Constants DEF Init, NoRows, Times
<1>3. /\ stored \in [Tables -> [Issues -> Times]] /\ rows \in [Tables -> [Issues -> Times]]
      /\ \A t \in Tables, i \in Issues : stored[t][i] \in {0, updated[i]} /\ rows[t][i] = 0
  BY <1>2 DEF Init, NoRows
<1>4. \A t \in Tables, i \in Issues : stored[t][i] <= updated[i] /\ rows[t][i] <= updated[i]
  BY <1>1, <1>3, Constants
<1>5. patched \subseteq Issues /\ \A i \in patched : updated[i] > 0
  <2>1. \A i \in 1..Legacy : i \in Issues /\ i <= Legacy /\ i > 0
    BY Constants DEF Issues
  <2>. QED
    BY <1>1, <2>1 DEF Init
<1>6. TypeOK
  BY <1>1, <1>2, <1>3, <1>4, <1>5, Constants DEF Init, TypeOK, Stages
<1>. QED
  BY <1>6 DEF Init, Forgotten, Patching

(* A write brings what was fetched, and takes nothing away.                *)
LEMMA WriteIs ==
  ASSUME TypeOK, NEW t \in Tables, NEW from, NEW to, Write(t, from, to)
  PROVE  /\ stored' \in [Tables -> [Issues -> Times]]
         /\ \A u \in Tables, i \in Issues :
              /\ stored'[u][i] \in Nat /\ stored[u][i] <= stored'[u][i]
              /\ stored'[u][i] <= updated[i]
              /\ u # t => stored'[u][i] = stored[u][i]
         /\ \A i \in Issues : rows[t][i] <= stored'[t][i]
         /\ pc = from /\ pc' = to
         /\ UNCHANGED <<jira, faults, checked, watermark, cursor, total, covered, run>>
<1>1. stored' = [stored EXCEPT ![t] = [i \in Issues |-> Later(stored[t][i], rows[t][i])]]
  BY DEF Write
<1>2. stored \in [Tables -> [Issues -> Times]]
  BY DEF TypeOK
<1>3. ASSUME NEW i \in Issues
      PROVE  /\ Later(stored[t][i], rows[t][i]) \in Times
             /\ stored[t][i] <= Later(stored[t][i], rows[t][i])
             /\ rows[t][i] <= Later(stored[t][i], rows[t][i])
             /\ Later(stored[t][i], rows[t][i]) <= updated[i]
  <2>1. /\ stored[t][i] \in Nat /\ rows[t][i] \in Nat /\ stored[t][i] \in Times
        /\ rows[t][i] \in Times /\ stored[t][i] <= updated[i] /\ rows[t][i] <= updated[i]
    BY Values
  <2>. QED
    BY <2>1, LaterIs
<1>4. stored' \in [Tables -> [Issues -> Times]]
  BY <1>1, <1>2, <1>3
<1>5. ASSUME NEW u \in Tables, NEW i \in Issues
      PROVE  /\ stored'[u][i] = IF u = t THEN Later(stored[t][i], rows[t][i]) ELSE stored[u][i]
             /\ stored[u][i] \in Nat /\ stored[u][i] <= updated[i]
  BY <1>1, <1>2, Values
<1>6. ASSUME NEW u \in Tables, NEW i \in Issues
      PROVE  /\ stored'[u][i] \in Nat /\ stored[u][i] <= stored'[u][i]
             /\ stored'[u][i] <= updated[i]
             /\ u # t => stored'[u][i] = stored[u][i]
             /\ u = t => rows[t][i] <= stored'[t][i]
  <2>1. stored'[u][i] \in Nat
    BY <1>4, Constants
  <2>2. CASE u = t
    BY <1>3, <1>5, <2>1, <2>2
  <2>3. CASE u # t
    BY <1>5, <2>1, <2>3
  <2>. QED
    BY <2>2, <2>3
<1>. QED
  BY <1>4, <1>6 DEF Write

(* Every write of a partition, and what its stage is behind then.          *)
AnyWrite ==
  \/ Write("issue", "write issue", "write comment")
  \/ Write("issue_comment", "write comment", "write changelog")
  \/ Write("jira_changelog", "write changelog", "write checked")
  \/ Write("issue_comment", "backfill comment", "backfill checked")
  \/ Write("issue", "patch issue", "patch changelog")
  \/ Write("jira_changelog", "patch changelog", "patch comment")
  \/ Write("issue_comment", "patch comment", "patch checked")

AnyCheck ==
  \/ Check("write checked", "write watermark")
  \/ Check("patch checked", "patch cursor")

CheckComments ==
  /\ pc = "backfill checked"
  /\ pc' = "patches"
  /\ checked' = checked \cup marking
  /\ rows' = [t \in Tables |-> NoRows]
  /\ marking' = {}
  /\ UNCHANGED <<jira, faults, stored, watermark, cursor, total, covered, offset, todo, pages, noted>>

MoveCursor ==
  /\ pc = "patch cursor"
  /\ pc' = "patch total"
  /\ cursor' = Later(cursor, LastKey)
  /\ UNCHANGED <<jira, faults, stored, checked, watermark, total, covered, run>>

(* The steps there are.                                                    *)
LEMMA Steps ==
  [Next]_vars <=>
    \/ \E i \in Issues : Update(i)
    \/ SearchPage \/ AnyWrite \/ AnyCheck \/ WriteWatermark \/ CheckComments
    \/ PatchPage \/ MoveCursor \/ WriteTotal \/ WriteCovered
    \/ ChooseComments \/ \E i \in Issues : FetchComments(i) \/ FailComments(i)
    \/ BeginRun \/ EndComments \/ EndPatches \/ FailSearch \/ Kill
    \/ UNCHANGED vars
BY DEF Next, Run, Fault, WriteSearch, WriteComments, WritePatches, AnyWrite, AnyCheck, CheckComments, MoveCursor

LEMMA AnyWriteIs ==
  ASSUME TypeOK, AnyWrite
  PROVE  /\ stored' \in [Tables -> [Issues -> Times]]
         /\ \A u \in Tables, i \in Issues :
              stored'[u][i] \in Nat /\ stored[u][i] <= stored'[u][i] /\ stored'[u][i] <= updated[i]
         /\ UNCHANGED <<jira, faults, checked, watermark, cursor, total, covered, run>>
         /\ pc \in Writes \cup Patching \cup {"backfill comment"} /\ pc \notin {"patches", "patch cursor"}
         /\ pc' \in Writes \cup Patching \cup {"backfill checked"}
         /\ pc' \in Writes => pc \in Writes
         /\ pc' \in Patching => pc \in Patching /\ pc' # "patches"
         /\ pc' = "backfill checked" => pc = "backfill comment"
<1>1. "issue" \in Tables /\ "issue_comment" \in Tables /\ "jira_changelog" \in Tables
  BY DEF Tables
<1>. DEFINE Effect == /\ stored' \in [Tables -> [Issues -> Times]]
                      /\ \A u \in Tables, i \in Issues :
                           /\ stored'[u][i] \in Nat /\ stored[u][i] <= stored'[u][i]
                           /\ stored'[u][i] <= updated[i]
                      /\ UNCHANGED <<jira, faults, checked, watermark, cursor, total, covered, run>>
<1>2. ASSUME NEW t \in Tables, NEW from, NEW to, Write(t, from, to)
      PROVE  Effect /\ pc = from /\ pc' = to
  BY <1>2, WriteIs
<1>. HIDE DEF Effect
<1>3. Effect /\ \/ pc = "write issue" /\ pc' = "write comment"
                \/ pc = "write comment" /\ pc' = "write changelog"
                \/ pc = "write changelog" /\ pc' = "write checked"
                \/ pc = "backfill comment" /\ pc' = "backfill checked"
                \/ pc = "patch issue" /\ pc' = "patch changelog"
                \/ pc = "patch changelog" /\ pc' = "patch comment"
                \/ pc = "patch comment" /\ pc' = "patch checked"
  BY <1>1, <1>2 DEF AnyWrite
<1>4. Effect
  BY <1>3
<1>5. /\ pc \in Writes \cup Patching \cup {"backfill comment"} /\ pc \notin {"patches", "patch cursor"}
      /\ pc' \in Writes \cup Patching \cup {"backfill checked"}
      /\ pc' \in Writes => pc \in Writes
      /\ pc' \in Patching => pc \in Patching /\ pc' # "patches"
      /\ pc' = "backfill checked" => pc = "backfill comment"
  BY <1>3 DEF Writes, Patching
<1>. QED
  BY <1>4, <1>5 DEF Effect

LEMMA JiraTypeStep ==
  ASSUME TypeOK, Forgotten, [Next]_vars
  PROVE  TypeOK' /\ Forgotten'
<1>0. /\ NoRows \in [Issues -> Times] /\ [t \in Tables |-> NoRows] \in [Tables -> [Issues -> Times]]
      /\ \A t \in Tables, i \in Issues : [u \in Tables |-> NoRows][t][i] = 0
  BY Constants DEF NoRows
<1>00. /\ \A i \in Issues : updated[i] \in Nat /\ updated[i] \in Times /\ updated[i] <= now
       /\ \A t \in Tables, i \in Issues :
            /\ stored[t][i] \in Nat /\ stored[t][i] \in Times /\ stored[t][i] <= updated[i]
            /\ rows[t][i] \in Nat /\ rows[t][i] \in Times /\ rows[t][i] <= updated[i]
       /\ now \in Nat /\ watermark \in Nat
       /\ "issue" \in Tables /\ "issue_comment" \in Tables /\ "jira_changelog" \in Tables
  BY Values
<1>001. /\ updated \in [Issues -> Times] /\ patched \subseteq Issues /\ rows \in [Tables -> [Issues -> Times]]
        /\ watermark <= now /\ cursor \in 0..NumIssues /\ offset \in Nat
  BY DEF TypeOK
<1>002. rows' = [t \in Tables |-> NoRows] /\ updated' = updated =>
          rows' \in [Tables -> [Issues -> Times]]
          /\ \A t \in Tables, i \in Issues : rows'[t][i] <= updated'[i]
  BY <1>0, <1>00
<1>01. /\ Latest(rows["issue"]) \in Times
       /\ \E i \in Issues : rows["issue"][i] = Latest(rows["issue"])
  BY LatestIs
<1>02. LastKey \in 0..NumIssues
  BY LastKeyIs
<1>03. AnyWrite =>
         /\ stored' \in [Tables -> [Issues -> Times]]
         /\ \A u \in Tables, i \in Issues :
              stored'[u][i] \in Nat /\ stored[u][i] <= stored'[u][i] /\ stored'[u][i] <= updated[i]
         /\ UNCHANGED <<jira, faults, checked, watermark, cursor, total, covered, run>>
         /\ pc \in Writes \cup Patching \cup {"backfill comment"} /\ pc \notin {"patches", "patch cursor"}
         /\ pc' \in Writes \cup Patching \cup {"backfill checked"}
         /\ pc' \in Writes => pc \in Writes
         /\ pc' \in Patching => pc \in Patching /\ pc' # "patches"
         /\ pc' = "backfill checked" => pc = "backfill comment"
  BY AnyWriteIs
<1>1. ASSUME NEW i \in Issues, Update(i) PROVE TypeOK' /\ Forgotten'
  <2>1. PICK t \in {now, now + 1} \cap Times :
          t > updated[i] /\ updated' = [updated EXCEPT ![i] = t] /\ now' = t
    BY <1>1 DEF Update
  <2>2. patched' \subseteq patched \cup {i} /\ UNCHANGED <<faults, disk, pc, run>>
    BY <1>1 DEF Update
  <2>3. now \in Nat /\ t \in Nat /\ now <= t
    BY <2>1, <1>00
  <2>4. \A j \in Issues : /\ updated'[j] = IF j = i THEN t ELSE updated[j]
                          /\ updated'[j] \in Times /\ updated[j] <= updated'[j] /\ updated'[j] <= t
                          /\ updated[j] \in Nat /\ updated'[j] \in Nat
    BY <2>1, <2>3, <1>00, <1>001, Constants
  <2>5. updated' \in [Issues -> Times]
    BY <2>1, <1>001
  <2>6. \A u \in Tables, j \in Issues : stored[u][j] <= updated'[j] /\ rows[u][j] <= updated'[j]
    BY <2>4, <1>00
  <2>7. \A j \in Issues : updated[j] > 0 => updated'[j] > 0
    BY <2>4
  <2>8. updated'[i] > 0
    BY <2>1, <2>3, <2>4
  <2>9. watermark <= now'
    BY <2>1, <2>3, <1>00, <1>001
  <2>10. TypeOK'
    BY <2>1, <2>2, <2>4, <2>5, <2>6, <2>7, <2>8, <2>9 DEF TypeOK, Forgotten, Stages, Writes, Patching, jira, disk, run
  <2>11. Forgotten'
    BY <2>2, <2>7 DEF TypeOK, Forgotten, Stages, Writes, Patching, jira, disk, run
  <2>. QED
    BY <2>10, <2>11
<1>2. CASE SearchPage
  <2>. DEFINE page == ByUpdate(Matching)
              got  == [i \in Issues |-> IF i \in page THEN updated[i] ELSE rows["issue"][i]]
  <2>1. /\ rows' = [t \in Tables |-> got] /\ marking' = marking \cup page
        /\ \/ Cardinality(page) < PageSize /\ pc' = "write issue" /\ offset' = 0
           \/ ~ (Cardinality(page) < PageSize) /\ offset' = offset + Cardinality(page) /\ pc' = pc
        /\ pc = "search" /\ UNCHANGED <<jira, faults, disk, todo, pages, noted>>
    BY <1>2 DEF SearchPage
  <2>2. page \subseteq Matching /\ page \subseteq Issues
    BY DEF ByUpdate, Matching
  <2>3. IsFiniteSet(page) /\ Cardinality(page) \in Nat
    BY <2>2, FS_Subset, FS_CardinalityType, Constants
  <2>4. \A i \in Issues : got[i] \in Times /\ got[i] <= updated[i]
    BY <1>00
  <2>5. rows' \in [Tables -> [Issues -> Times]] /\ \A t \in Tables, i \in Issues : rows'[t][i] <= updated[i]
    BY <2>1, <2>4
  <2>. HIDE DEF page, got
  <2>6. offset' \in Nat /\ (pc' = "search" => offset' # 0)
    <3>1. PageSize \in Nat /\ PageSize > 0 /\ offset \in Nat /\ Cardinality(page) \in Nat
      BY <2>3, <1>001, Constants
    <3>2. CASE Cardinality(page) < PageSize /\ pc' = "write issue" /\ offset' = 0
      BY <3>2
    <3>3. CASE ~ (Cardinality(page) < PageSize) /\ offset' = offset + Cardinality(page) /\ pc' = pc
      BY <3>1, <3>3
    <3>. QED
      BY <2>1, <3>2, <3>3
  <2>. QED
    BY <2>1, <2>2, <2>5, <2>6 DEF TypeOK, Forgotten, Stages, Writes, Patching, jira, disk, run
<1>3. CASE AnyWrite
  BY <1>3, <1>03 DEF TypeOK, Forgotten, Stages, Writes, Patching, jira, disk, run
<1>4. CASE AnyCheck
  BY <1>4 DEF AnyCheck, Check, TypeOK, Forgotten, Stages, Writes, Patching, jira, disk, run
<1>5. CASE WriteWatermark
  <2>1. watermark' \in Times /\ watermark' <= now
    <3>1. Latest(rows["issue"]) \in Times /\ Latest(rows["issue"]) <= now
      <4>1. PICK i \in Issues : rows["issue"][i] = Latest(rows["issue"])
        BY <1>01
      <4>. QED
        BY <4>1, <1>00, Constants
    <3>. QED
      BY <1>5, <3>1 DEF WriteWatermark, TypeOK, Forgotten, Stages, Writes, Patching, jira, disk, run
  <2>. QED
    BY <1>002, <1>5, <2>1 DEF WriteWatermark, TypeOK, Forgotten, Stages, Writes, Patching, jira, disk, run
<1>6. CASE CheckComments
  BY <1>002, <1>6 DEF CheckComments, TypeOK, Forgotten, Stages, Writes, Patching, jira, disk, run
<1>7. CASE PatchPage
  <2>. DEFINE page == ByKey(Beyond)
  <2>1. /\ rows' = [t \in Tables |-> [i \in Issues |->
                       IF i \in page /\ (t = "issue_comment" => i \notin checked \cup marking)
                         THEN updated[i] ELSE rows[t][i]]]
        /\ marking' = marking \cup (page \ checked)
        /\ offset' = offset + Cardinality(page) /\ pc' \in {"patches", "patch issue"}
        /\ pages' = pages + 1
        /\ noted' \in {Cardinality(Beyond), noted}
        /\ pc = "patches" /\ UNCHANGED <<jira, faults, disk, todo>>
    BY <1>7 DEF PatchPage
  <2>2. page \subseteq Issues /\ Beyond \subseteq Issues
    BY <1>001 DEF ByKey, Beyond
  <2>3. Cardinality(page) \in Nat /\ Cardinality(Beyond) \in Nat
    BY <2>2, FS_Subset, FS_CardinalityType, Constants
  <2>. HIDE DEF page
  <2>4. \A t \in Tables, i \in Issues : rows'[t][i] \in {updated[i], rows[t][i]}
    BY <2>1
  <2>5. \A t \in Tables, i \in Issues : rows'[t][i] \in Times /\ rows'[t][i] <= updated[i]
    BY <2>4, <1>00
  <2>6. rows' \in [Tables -> [Issues -> Times]]
    BY <2>1, <2>5
  <2>. QED
    <3>1. /\ marking' \subseteq Issues /\ offset' \in Nat /\ noted' \in Nat \cup {-1} /\ pages' \in Nat
          /\ pc \in {"patches"} /\ pc' \in {"patches", "patch issue"}
          /\ UNCHANGED <<updated, patched, now, faults, stored, checked, watermark, cursor, total, covered, todo>>
      <4>1. offset \in Nat /\ noted \in Nat \cup {-1} /\ pages \in Nat /\ marking \subseteq Issues
        BY DEF TypeOK
      <4>2. offset + Cardinality(page) \in Nat /\ pages + 1 \in Nat
        BY <2>3, <4>1
      <4>. QED
        BY <2>1, <2>2, <2>3, <4>1, <4>2 DEF jira, disk
    <3>2. TypeOK'
      BY <2>5, <2>6, <3>1 DEF TypeOK, Stages, Patching
    <3>3. Forgotten'
      BY <3>1 DEF Forgotten, Patching
    <3>. QED
      BY <3>2, <3>3
<1>8. CASE MoveCursor
  <2>1. cursor' \in 0..NumIssues
    BY <1>8, <1>02, <1>001 DEF MoveCursor, Later
  <2>. QED
    BY <1>8, <2>1 DEF MoveCursor, TypeOK, Forgotten, Stages, Writes, Patching, jira, disk, run
<1>9. CASE WriteTotal
  BY <1>9 DEF WriteTotal, TypeOK, Forgotten, Stages, Writes, Patching, jira, disk, run
<1>10. CASE WriteCovered
  <2>1. covered \in Nat /\ offset \in Nat /\ covered + offset \in Nat
    <3>1. covered \in Nat /\ offset \in Nat
      BY DEF TypeOK
    <3>. QED
      BY <3>1
  <2>2. /\ covered' = covered + offset
        /\ rows' = [t \in Tables |-> NoRows] /\ pc' = "idle"
        /\ marking' = {} /\ offset' = 0 /\ todo' = {} /\ pages' = 0 /\ noted' = -1
        /\ UNCHANGED <<updated, patched, now, faults, stored, checked, watermark, cursor, total>>
    BY <1>10 DEF WriteCovered, Fresh, jira
  <2>. QED
    BY <1>002, <2>1, <2>2 DEF TypeOK, Forgotten, Stages, Writes, Patching
<1>11. CASE ChooseComments
  <2>1. todo' \subseteq Unchecked /\ \A i \in Unchecked : i \in Issues /\ updated[i] > 0
    <3>1. ASSUME NEW i \in Unchecked PROVE i \in Issues /\ updated[i] > 0
      <4>1. i \in Issues /\ stored["issue"][i] > 0
        BY DEF Unchecked
      <4>. QED
        BY <4>1, <1>00
    <3>. QED
      BY <1>11, <3>1 DEF ChooseComments, TypeOK, Forgotten, Stages, Writes, Patching, jira, disk, run
  <2>. QED
    BY <1>0, <1>11, <2>1 DEF ChooseComments, Tables, TypeOK, Forgotten, Stages, Writes, Patching, jira, disk, run
<1>12. ASSUME NEW i \in Issues, FetchComments(i) \/ FailComments(i) PROVE TypeOK' /\ Forgotten'
  <2>1. CASE FetchComments(i)
    <3>1. /\ rows' = [rows EXCEPT !["issue_comment"][i] = updated[i]]
          /\ marking' = marking \cup {i} /\ todo' = todo \ {i} /\ pc = "fetch comments"
          /\ UNCHANGED <<jira, faults, disk, pc, offset, pages, noted>>
      BY <2>1 DEF FetchComments, NextTodo
    <3>2. \A t \in Tables, j \in Issues : rows'[t][j] \in {updated[j], rows[t][j]}
      BY <3>1, <1>00, <1>001
    <3>3. \A t \in Tables, j \in Issues : rows'[t][j] \in Times /\ rows'[t][j] <= updated[j]
      BY <3>2, <1>00
    <3>4. rows' \in [Tables -> [Issues -> Times]] /\ rows'["jira_changelog"] = rows["jira_changelog"]
      BY <3>1, <1>00, <1>001
    <3>. QED
      BY <3>1, <3>3, <3>4 DEF TypeOK, Forgotten, Stages, Writes, Patching, jira, disk, run
  <2>2. CASE FailComments(i)
    BY <2>2 DEF FailComments, NextTodo, TypeOK, Forgotten, Stages, Writes, Patching, jira, disk, run
  <2>. QED
    BY <1>12, <2>1, <2>2
<1>13. CASE BeginRun \/ EndComments \/ EndPatches
  BY <1>13 DEF BeginRun, EndComments, EndPatches, TypeOK, Forgotten, Stages, Writes, Patching, jira, disk, run
<1>14. CASE FailSearch
  BY <1>002, <1>14 DEF FailSearch, TypeOK, Forgotten, Stages, Writes, Patching, jira, disk, run
<1>15. CASE Kill
  BY <1>002, <1>15 DEF Kill, Fresh, TypeOK, Forgotten, Stages, Writes, Patching, jira, disk, run
<1>16. CASE UNCHANGED vars
  BY <1>16 DEF vars, TypeOK, Forgotten, Stages, Writes, Patching, jira, disk, run
<1>. QED
  BY <1>1, <1>2, <1>3, <1>4, <1>5, <1>6, <1>7, <1>8, <1>9, <1>10, <1>11, <1>12, <1>13, <1>14, <1>15,
     <1>16, Steps


-----------------------------------------------------------------------------
(* The rows that were fetched.                                             *)

LEMMA BehindWrite ==
  ASSUME TypeOK, AnyWrite, \A t \in Tables : pc \in Behind(t) => \A i \in Issues : rows[t][i] <= stored[t][i]
  PROVE  \A t \in Tables : pc' \in Behind(t) => \A i \in Issues : rows[t][i] <= stored'[t][i]
<1>. SUFFICES ASSUME NEW t \in Tables, pc' \in Behind(t), NEW i \in Issues
              PROVE  rows[t][i] <= stored'[t][i]
  OBVIOUS
<1>1. /\ t \in {"issue", "issue_comment", "jira_changelog"}
      /\ "issue" \in Tables /\ "issue_comment" \in Tables /\ "jira_changelog" \in Tables
  BY DEF Tables
<1>2. /\ rows[t][i] \in Nat /\ stored[t][i] \in Nat /\ stored'[t][i] \in Nat
      /\ stored[t][i] <= stored'[t][i]
  BY Values, AnyWriteIs
<1>3. CASE pc \in Behind(t)
  BY <1>2, <1>3
<1>4. CASE pc \notin Behind(t)
  <2>1. PICK u, from, to : u \in Tables /\ Write(u, from, to) /\ (u = t \/ to \notin Behind(t))
    BY <1>1, <1>4 DEF AnyWrite, Write, Behind, Writes
  <2>2. pc' = to /\ rows[u][i] <= stored'[u][i]
    BY <2>1, WriteIs
  <2>. QED
    BY <2>1, <2>2
<1>. QED
  BY <1>3, <1>4

LEMMA RowsKnownStep ==
  ASSUME TypeOK, Forgotten, RowsKnown, [Next]_vars
  PROVE  RowsKnown'
<1>00. /\ \A i \in Issues : updated[i] \in Nat /\ updated[i] <= now
       /\ \A t \in Tables, i \in Issues : rows[t][i] \in Nat /\ stored[t][i] \in Nat
       /\ now \in Nat /\ Since \in Int /\ Since <= now
       /\ "issue" \in Tables /\ "issue_comment" \in Tables /\ "jira_changelog" \in Tables
  BY Values
<1>01. updated \in [Issues -> Times] /\ rows \in [Tables -> [Issues -> Times]]
       /\ marking \subseteq Issues /\ patched \subseteq Issues /\ \A i \in patched : updated[i] > 0
  BY DEF TypeOK
<1>02. watermark' = watermark => Since' = Since
  BY DEF Since
<1>03. ASSUME rows' = [t \in Tables |-> NoRows], marking' = {}, pc' \in {"idle", "comments", "patches"}
       PROVE  RowsKnown'
  <2>1. \A t \in Tables, i \in Issues : rows'[t][i] = 0
    BY <1>03 DEF NoRows
  <2>2. \A t \in Tables : pc' \notin Behind(t)
    BY <1>03 DEF Behind, Writes, Tables
  <2>. QED
    BY <1>03, <2>1, <2>2 DEF RowsKnown
<1>04. ASSUME UNCHANGED <<rows, marking, updated, watermark, stored>>,
              pc' # "search" \/ rows = [t \in Tables |-> NoRows],
              \A t \in Tables : pc' \in Behind(t) => pc \in Behind(t)
       PROVE  RowsKnown'
  <2>1. pc' = "search" => \A t \in Tables : rows[t] = rows["issue"]
    BY <1>04, <1>00
  <2>. QED
    BY <1>02, <1>04, <2>1 DEF RowsKnown
<1>1. ASSUME NEW i \in Issues, Update(i) PROVE RowsKnown'
  <2>1. PICK t \in {now, now + 1} \cap Times : updated' = [updated EXCEPT ![i] = t]
    BY <1>1 DEF Update
  <2>2. UNCHANGED <<rows, marking, watermark, stored, pc>>
    BY <1>1 DEF Update, disk, run
  <2>3. updated'[i] \in Nat /\ updated'[i] >= Since
    BY <2>1, <1>00, <1>01
  <2>4. \A j \in Issues : updated'[j] = updated[j] \/ updated'[j] >= Since
    BY <2>1, <2>3, <1>01
  <2>5. \A u \in Tables, j \in Issues : rows[u][j] > 0 => rows[u][j] = updated'[j] \/ updated'[j] >= Since
    BY <2>4 DEF RowsKnown
  <2>. QED
    BY <2>2, <2>5, <1>02 DEF RowsKnown
<1>2. CASE SearchPage
  <2>. DEFINE page == ByUpdate(Matching)
  <2>1. /\ \A t \in Tables, i \in Issues : rows'[t][i] = IF i \in page THEN updated[i] ELSE rows[t][i]
        /\ \A t \in Tables : rows'[t] = rows'["issue"]
        /\ marking' = marking \cup page /\ pc' \in {"search", "write issue"}
        /\ UNCHANGED <<updated, watermark>>
    <3>. DEFINE got == [i \in Issues |-> IF i \in page THEN updated[i] ELSE rows["issue"][i]]
    <3>1. /\ rows' = [t \in Tables |-> got] /\ marking' = marking \cup page
          /\ pc = "search" /\ pc' \in {"search", "write issue"}
          /\ UNCHANGED <<updated, watermark>>
      BY <1>2 DEF SearchPage, jira, disk
    <3>2. \A t \in Tables : rows[t] = rows["issue"] /\ rows'[t] = got
      BY <3>1 DEF RowsKnown
    <3>3. \A i \in Issues : got[i] = IF i \in page THEN updated[i] ELSE rows["issue"][i]
      OBVIOUS
    <3>. HIDE DEF page, got
    <3>. QED
      BY <3>1, <3>2, <3>3, <1>00
  <2>2. \A i \in page : i \in Issues /\ updated[i] > 0
    BY DEF ByUpdate, Matching
  <2>. HIDE DEF page
  <2>3. \A t \in Tables : pc' \notin Behind(t)
    BY <2>1 DEF Behind, Writes, Tables
  <2>4. \A i \in marking' : rows'["issue_comment"][i] > 0
    BY <2>1, <2>2, <1>00, <1>01 DEF RowsKnown
  <2>5. \A t \in Tables, i \in Issues : rows'[t][i] > 0 => rows'[t][i] = updated'[i] \/ updated'[i] >= Since'
    BY <2>1, <1>02 DEF RowsKnown
  <2>. QED
    BY <2>1, <2>3, <2>4, <2>5 DEF RowsKnown
<1>3. CASE AnyWrite
  <2>1. UNCHANGED <<rows, marking, updated, watermark>> /\ pc' # "search"
    BY <1>3, AnyWriteIs DEF jira, run, Writes, Patching
  <2>2. \A t \in Tables : pc' \in Behind(t) => \A i \in Issues : rows[t][i] <= stored'[t][i]
    BY <1>3, BehindWrite DEF RowsKnown
  <2>. QED
    BY <2>1, <2>2, <1>02 DEF RowsKnown
<1>4. CASE AnyCheck
  <2>1. UNCHANGED <<rows, marking, updated, watermark, stored>> /\ pc' # "search"
        /\ \A t \in Tables : pc' \in Behind(t) => pc \in Behind(t)
    BY <1>4 DEF AnyCheck, Check, jira, run, Behind, Writes, Tables
  <2>. QED
    BY <1>04, <2>1
<1>5. CASE WriteWatermark \/ CheckComments \/ WriteCovered \/ FailSearch \/ Kill
  BY <1>5, <1>03 DEF WriteWatermark, CheckComments, WriteCovered, FailSearch, Kill, Fresh
<1>6. CASE PatchPage
  <2>. DEFINE page == ByKey(Beyond)
  <2>1. /\ rows' = [t \in Tables |-> [i \in Issues |->
                       IF i \in page /\ (t = "issue_comment" => i \notin checked \cup marking)
                         THEN updated[i] ELSE rows[t][i]]]
        /\ marking' = marking \cup (page \ checked) /\ pc' \in {"patches", "patch issue"}
        /\ UNCHANGED <<updated, watermark>>
    BY <1>6 DEF PatchPage, jira, disk
  <2>2. \A i \in page : i \in Issues /\ updated[i] > 0
    BY <1>01 DEF ByKey, Beyond
  <2>. HIDE DEF page
  <2>3. \A t \in Tables : pc' \notin Behind(t)
    BY <2>1 DEF Behind, Writes, Tables
  <2>4. \A t \in Tables, i \in Issues :
          rows'[t][i] = IF i \in page /\ (t = "issue_comment" => i \notin checked \cup marking)
                          THEN updated[i] ELSE rows[t][i]
    BY <2>1
  <2>5. ASSUME NEW i \in marking'
        PROVE  rows'["issue_comment"][i] > 0
    <3>1. i \in Issues /\ (i \in marking \/ i \in page \ checked)
      BY <2>1, <2>2, <1>01
    <3>2. CASE i \in marking
      BY <3>1, <3>2, <2>4, <1>00 DEF RowsKnown
    <3>3. CASE i \in page \ checked /\ i \notin marking
      BY <3>1, <3>3, <2>2, <2>4, <1>00
    <3>. QED
      BY <3>1, <3>2, <3>3
  <2>6. ASSUME NEW t \in Tables, NEW i \in Issues, rows'[t][i] > 0
        PROVE  rows'[t][i] = updated'[i] \/ updated'[i] >= Since'
    <3>1. rows'[t][i] = updated[i] \/ rows'[t][i] = rows[t][i]
      BY <2>4
    <3>. QED
      BY <3>1, <2>1, <2>6, <1>02 DEF RowsKnown
  <2>. QED
    BY <2>1, <2>3, <2>5, <2>6 DEF RowsKnown
<1>7. ASSUME NEW i \in Issues, FetchComments(i) PROVE RowsKnown'
  <2>1. /\ rows' = [rows EXCEPT !["issue_comment"][i] = updated[i]]
        /\ marking' = marking \cup {i} /\ pc' = "fetch comments" /\ i \in todo
        /\ UNCHANGED <<updated, watermark>>
    BY <1>7 DEF FetchComments, NextTodo, jira, disk
  <2>2. \A t \in Tables, j \in Issues :
          rows'[t][j] = IF t = "issue_comment" /\ j = i THEN updated[i] ELSE rows[t][j]
    BY <2>1, <1>00, <1>01
  <2>3. updated[i] > 0
    BY <2>1 DEF Forgotten
  <2>4. \A t \in Tables : pc' \notin Behind(t)
    BY <2>1 DEF Behind, Writes, Tables
  <2>5. \A j \in marking' : rows'["issue_comment"][j] > 0
    BY <2>1, <2>2, <2>3, <1>00, <1>01 DEF RowsKnown
  <2>6. ASSUME NEW t \in Tables, NEW j \in Issues, rows'[t][j] > 0
        PROVE  rows'[t][j] = updated'[j] \/ updated'[j] >= Since'
    <3>1. rows'[t][j] = updated[j] \/ rows'[t][j] = rows[t][j]
      BY <2>2
    <3>. QED
      BY <3>1, <2>1, <2>6, <1>02 DEF RowsKnown
  <2>. QED
    BY <2>1, <2>4, <2>5, <2>6 DEF RowsKnown
<1>8. CASE \/ MoveCursor \/ WriteTotal \/ ChooseComments \/ \E i \in Issues : FailComments(i)
           \/ EndComments \/ EndPatches
  <2>1. UNCHANGED <<rows, marking, updated, watermark, stored>> /\ pc' # "search"
        /\ \A t \in Tables : pc' \notin Behind(t)
    BY <1>8 DEF MoveCursor, WriteTotal, ChooseComments, FailComments, NextTodo, EndComments, EndPatches,
                jira, disk, run, Behind, Writes, Tables
  <2>. QED
    BY <1>04, <2>1
<1>9. CASE BeginRun
  <2>1. UNCHANGED <<rows, marking, updated, watermark, stored>> /\ rows = [t \in Tables |-> NoRows]
        /\ \A t \in Tables : pc' \notin Behind(t)
    BY <1>9 DEF BeginRun, Forgotten, jira, disk, run, Behind, Writes, Tables
  <2>. QED
    BY <1>04, <2>1
<1>10. CASE UNCHANGED vars
  BY <1>02, <1>10 DEF vars, disk, jira, run, RowsKnown
<1>. QED
  BY <1>1, <1>2, <1>3, <1>4, <1>5, <1>6, <1>7, <1>8, <1>9, <1>10, Steps

-----------------------------------------------------------------------------
(* The incremental search, as long as nothing is updated between its pages.*)

LEMMA MatchingPlaces ==
  ASSUME TypeOK
  PROVE  /\ Places(Matching, [x \in Matching |-> {j \in Matching : Before(j, x)}])
         /\ Matching \subseteq Issues
<1>. DEFINE Below == [x \in Matching |-> {j \in Matching : Before(j, x)}]
<1>1. Matching \subseteq Issues
  BY DEF Matching
<1>2. IsFiniteSet(Matching)
  BY <1>1, Constants, FS_Subset
<1>3. \A x \in Matching : updated[x] \in Nat /\ x \in Nat
  BY <1>1, Values, Constants
<1>4. Below \in [Matching -> SUBSET Matching]
  OBVIOUS
<1>5. \A x, y \in Matching : x \in Below[y] <=> Before(x, y)
  OBVIOUS
<1>6. ASSUME NEW x \in Matching, NEW y \in Matching, x # y
      PROVE  x \in Below[y] \/ y \in Below[x]
  BY <1>3, <1>5, <1>6 DEF Before
<1>7. ASSUME NEW x \in Matching, NEW y \in Matching, x \in Below[y]
      PROVE  Below[x] \subseteq Below[y]
  <2>. SUFFICES ASSUME NEW z \in Below[x] PROVE z \in Below[y]
    OBVIOUS
  <2>1. z \in Matching /\ Before(z, x) /\ Before(x, y)
    BY <1>5, <1>7
  <2>2. Before(z, y)
    BY <1>3, <2>1 DEF Before
  <2>. QED
    BY <1>5, <2>1, <2>2
<1>8. \A x \in Matching : x \notin Below[x]
  BY <1>3, <1>5 DEF Before
<1>. QED
  BY <1>1, <1>2, <1>4, <1>6, <1>7, <1>8 DEF Places

(* What a page of a search has, and that the last one leaves nothing out.  *)
LEMMA PageOfSearch ==
  ASSUME TypeOK
  PROVE  LET page == ByUpdate(Matching) IN
         /\ page \subseteq Matching /\ Cardinality(page) \in Nat
         /\ Cardinality(page) <= PageSize
         /\ \A i \in Matching : Position(i) \in Nat
         /\ \A i \in Matching : Position(i) < offset + Cardinality(page) => Position(i) < offset \/ i \in page
         /\ Cardinality(page) < PageSize => \A i \in Matching : Position(i) < offset \/ i \in page
<1>. DEFINE Below == [x \in Matching |-> {j \in Matching : Before(j, x)}]
            page == ByUpdate(Matching)
            last == offset + PageSize
<1>1. offset \in Nat /\ PageSize \in Nat /\ last \in Nat /\ offset <= last /\ last - offset = PageSize
  <2>1. offset \in Nat /\ PageSize \in Nat
    BY Constants DEF TypeOK
  <2>. QED
    BY <2>1
<1>2. Places(Matching, Below)
  BY MatchingPlaces
<1>3. \A i \in Matching : Cardinality(Below[i]) = Position(i)
  BY DEF Position
<1>4. page = {x \in Matching : Cardinality(Below[x]) \in offset..(last - 1)}
  <2>1. \A x \in Matching : Below[x] = {j \in Matching : Before(j, x)}
    OBVIOUS
  <2>. HIDE DEF Below
  <2>2. page = {x \in Matching : Cardinality({j \in Matching : Before(j, x)}) \in offset..(offset + PageSize - 1)}
    BY DEF ByUpdate
  <2>3. offset + PageSize - 1 = last - 1
    BY <1>1
  <2>. HIDE DEF page, last
  <2>. QED
    BY <2>1, <2>2, <2>3
<1>. HIDE DEF Below, page, last
<1>5. \A i \in Matching : Position(i) \in Nat
  BY <1>2, <1>3, PlacesGrow
<1>6. Cardinality(page) \in Nat /\ Cardinality(page) <= PageSize
  <2>1. /\ Cardinality({x \in Matching : Cardinality(Below[x]) \in offset..(last - 1)}) \in Nat
        /\ Cardinality({x \in Matching : Cardinality(Below[x]) \in offset..(last - 1)}) <= last - offset
    <3>1. Places(Matching, Below) /\ offset \in Nat /\ last \in Nat /\ offset <= last
      BY <1>1, <1>2
    <3>. QED
      BY ONLY <3>1, PlacesFit
  <2>. QED
    BY <1>1, <1>4, <2>1
<1>7. ASSUME NEW i \in Matching, Position(i) < last
      PROVE  Position(i) < offset \/ i \in page
  BY <1>1, <1>3, <1>4, <1>5, <1>7
<1>8. ASSUME NEW i \in Matching, Position(i) < offset + Cardinality(page)
      PROVE  Position(i) < offset \/ i \in page
  <2>1. Position(i) < last
    BY <1>1, <1>5, <1>6, <1>8 DEF last
  <2>. QED
    BY <1>7, <2>1
<1>9. ASSUME Cardinality(page) < PageSize, NEW i \in Matching
      PROVE  Position(i) < offset \/ i \in page
  <2>1. CASE Position(i) < last
    BY <1>7, <2>1
  <2>2. CASE Cardinality(Below[i]) >= last
    <3>1. Cardinality(page) >= PageSize
      <4>1. /\ Places(Matching, Below) /\ offset \in Nat /\ last \in Nat /\ offset <= last
            /\ i \in Matching /\ Cardinality(Below[i]) >= last
        BY <1>1, <1>2, <2>2
      <4>2. Cardinality({x \in Matching : Cardinality(Below[x]) \in offset..(last - 1)}) >= last - offset
        <5>1. (\E p \in Matching : Cardinality(Below[p]) >= last) =>
                Cardinality({x \in Matching : Cardinality(Below[x]) \in offset..(last - 1)}) >= last - offset
          BY ONLY <4>1, PlacesReach
        <5>. QED
          BY <4>1, <5>1
      <4>. QED
        BY <1>1, <1>4, <4>2
    <3>. QED
      BY <1>1, <1>6, <1>9, <3>1
  <2>. QED
    BY <1>1, <1>3, <1>5, <2>1, <2>2
<1>10. page \subseteq Matching
  BY <1>4
<1>. QED
  BY <1>5, <1>6, <1>8, <1>9, <1>10 DEF page

LEMMA SearchedStep ==
  ASSUME TypeOK, Forgotten, RowsKnown, Searched, [Next]_vars, TypeOK', Forgotten'
  PROVE  Searched'
<1>. SUFFICES ASSUME "busy" \notin faults PROVE Searched'
  BY Steps DEF Searched, Update, SearchPage, AnyWrite, Write, AnyCheck, Check, WriteWatermark, CheckComments,
     PatchPage, MoveCursor, WriteTotal, WriteCovered, ChooseComments, FetchComments, FailComments, BeginRun,
     EndComments, EndPatches, FailSearch, Kill, vars
<1>00. /\ \A i \in Issues : updated[i] \in Nat /\ updated[i] <= now
       /\ \A t \in Tables, i \in Issues : rows[t][i] \in Nat /\ rows[t][i] <= updated[i]
       /\ now \in Nat /\ Since \in Int /\ Since <= now
       /\ "issue" \in Tables /\ "issue_comment" \in Tables /\ "jira_changelog" \in Tables
  BY Values
<1>01. updated \in [Issues -> Times]
  BY DEF TypeOK
<1>02. watermark' = watermark => Since' = Since
  BY DEF Since
<1>03. ASSUME pc' \notin Writes, pc' # "search"
       PROVE  Searched'
  BY <1>03 DEF Searched
<1>04. ASSUME UNCHANGED <<updated, watermark, rows>>, pc' # "search", pc' \in Writes => pc \in Writes
       PROVE  Searched'
  BY <1>02, <1>04 DEF Searched
<1>05. ASSUME offset' = 0, pc' = "search"
       PROVE  Searched'
  <2>1. marking' = {}
    BY <1>05 DEF Forgotten
  <2>2. \A i \in Matching' : Position(i)' \in Nat
    <3>1. IsFiniteSet(Matching')
      BY Constants, FS_Subset DEF Matching
    <3>2. ASSUME NEW i PROVE Position(i)' \in Nat
      <4>1. {j \in Matching' : Before(j, i)'} \subseteq Matching'
        OBVIOUS
      <4>2. Cardinality({j \in Matching' : Before(j, i)'}) \in Nat
        BY <3>1, <4>1, FS_Subset, FS_CardinalityType
      <4>. QED
        BY <4>2 DEF Position
    <3>. QED
      BY <3>2
  <2>3. ASSUME NEW i \in Issues, i \in Matching', Position(i)' < offset'
        PROVE  FALSE
    BY <1>05, <2>2, <2>3
  <2>. QED
    BY <1>05, <2>1, <2>3 DEF Searched, Writes
<1>1. ASSUME NEW i \in Issues, Update(i) PROVE Searched'
  <2>1. PICK t \in {now, now + 1} \cap Times : updated' = [updated EXCEPT ![i] = t]
    BY <1>1 DEF Update
  <2>2. UNCHANGED <<rows, marking, watermark, pc, offset>> /\ (pc # "search" \/ offset = 0)
    BY <1>1 DEF Update, disk, run
  <2>3. CASE pc = "search"
    BY <2>2, <2>3, <1>05
  <2>4. CASE pc \in Writes
    <3>1. \A j \in Issues : updated'[j] = IF j = i THEN t ELSE updated[j]
      BY <2>1, <1>01
    <3>2. \A j \in Issues : rows["issue"][j] <= t
      BY <1>00, <2>1
    <3>3. ASSUME NEW j \in Issues, updated'[j] >= Since
          PROVE  \/ \A u \in Tables : rows[u][j] = updated'[j]
                 \/ \A k \in Issues : rows["issue"][k] <= updated'[j]
      <4>1. CASE j = i
        BY <3>1, <3>2, <4>1
      <4>2. CASE j # i
        BY <3>1, <3>3, <4>2, <2>4 DEF Searched
      <4>. QED
        BY <4>1, <4>2
    <3>. QED
      BY <2>2, <2>4, <3>3, <1>02 DEF Searched, Writes
  <2>. QED
    BY <2>2, <2>3, <2>4, <1>03
<1>2. CASE SearchPage
  <2>. DEFINE page == ByUpdate(Matching)
  <2>1. /\ \A t \in Tables, i \in Issues : rows'[t][i] = IF i \in page THEN updated[i] ELSE rows[t][i]
        /\ marking' = marking \cup page /\ pc = "search"
        /\ \/ Cardinality(page) < PageSize /\ pc' = "write issue" /\ offset' = 0
           \/ offset' = offset + Cardinality(page) /\ pc' = "search"
        /\ UNCHANGED <<updated, watermark>>
    <3>. DEFINE got == [i \in Issues |-> IF i \in page THEN updated[i] ELSE rows["issue"][i]]
    <3>1. /\ rows' = [t \in Tables |-> got] /\ marking' = marking \cup page
          /\ pc = "search"
          /\ \/ Cardinality(page) < PageSize /\ pc' = "write issue" /\ offset' = 0
             \/ offset' = offset + Cardinality(page) /\ pc' = "search"
          /\ UNCHANGED <<updated, watermark>>
      BY <1>2 DEF SearchPage, jira, disk
    <3>2. \A t \in Tables : rows[t] = rows["issue"] /\ rows'[t] = got
      BY <3>1 DEF RowsKnown
    <3>3. \A i \in Issues : got[i] = IF i \in page THEN updated[i] ELSE rows["issue"][i]
      OBVIOUS
    <3>. HIDE DEF page, got
    <3>. QED
      BY <3>1, <3>2, <3>3, <1>00
  <2>2. /\ page \subseteq Matching /\ Cardinality(page) \in Nat
        /\ \A i \in Matching : Position(i) \in Nat
        /\ \A i \in Matching : Position(i) < offset + Cardinality(page) => Position(i) < offset \/ i \in page
        /\ Cardinality(page) < PageSize => \A i \in Matching : Position(i) < offset \/ i \in page
    BY PageOfSearch
  <2>. HIDE DEF page
  <2>3. Since' = Since /\ Matching' = Matching /\ \A i \in Issues : Position(i)' = Position(i)
    BY <2>1 DEF Since, Matching, Position, Before
  <2>4. \A i \in marking', t \in Tables : i \in Issues => rows'[t][i] = updated[i]
    BY <2>1 DEF Searched
  <2>5. \A i \in Matching : Position(i) < offset => i \in marking
    BY <2>1 DEF Searched, Matching
  <2>6. CASE offset' = offset + Cardinality(page) /\ pc' = "search"
    <3>1. \A i \in Issues : i \in Matching' /\ Position(i)' < offset' => i \in marking'
      BY <2>1, <2>2, <2>3, <2>5, <2>6
    <3>2. \A i \in Issues : i \in marking' => \A t \in Tables : rows'[t][i] = updated'[i]
      BY <2>1, <2>4
    <3>. QED
      BY <2>6, <3>1, <3>2 DEF Searched, Writes
  <2>7. CASE Cardinality(page) < PageSize /\ pc' = "write issue"
    <3>1. ASSUME NEW i \in Issues, updated[i] >= Since, NEW t \in Tables
          PROVE  rows'[t][i] = updated[i]
      <4>1. CASE updated[i] > 0
        <5>1. i \in Matching
          BY <3>1, <4>1 DEF Matching
        <5>2. i \in marking'
          BY <5>1, <2>1, <2>2, <2>5, <2>7
        <5>. QED
          BY <5>2, <2>4
      <4>2. CASE updated[i] = 0
        <5>1. rows'[t][i] = updated[i] \/ rows'[t][i] = rows[t][i]
          BY <2>1
        <5>2. rows[t][i] \in Nat /\ rows[t][i] <= updated[i]
          BY <1>00
        <5>. QED
          BY <4>2, <5>1, <5>2
      <4>. QED
        BY <4>1, <4>2, <1>00
    <3>. QED
      BY <2>1, <2>3, <2>7, <3>1 DEF Searched
  <2>. QED
    BY <2>1, <2>6, <2>7
<1>3. CASE AnyWrite
  <2>1. UNCHANGED <<updated, watermark, rows>> /\ pc' # "search" /\ (pc' \in Writes => pc \in Writes)
    BY <1>3, AnyWriteIs DEF jira, run, Writes, Patching
  <2>. QED
    BY <2>1, <1>04
<1>4. CASE AnyCheck
  BY <1>4, <1>04 DEF AnyCheck, Check, jira, run, Writes
<1>5. CASE WriteWatermark \/ CheckComments \/ WriteCovered \/ FailSearch \/ Kill \/ PatchPage
           \/ MoveCursor \/ WriteTotal \/ ChooseComments \/ EndComments \/ EndPatches
           \/ \E i \in Issues : FetchComments(i) \/ FailComments(i)
  BY <1>5, <1>03 DEF WriteWatermark, CheckComments, WriteCovered, FailSearch, Kill, Fresh, PatchPage,
     MoveCursor, WriteTotal, ChooseComments, EndComments, EndPatches, FetchComments, FailComments, NextTodo, Writes
<1>6. CASE BeginRun
  BY <1>6, <1>05 DEF BeginRun, Forgotten, run, Patching
<1>7. CASE UNCHANGED vars
  <2>1. UNCHANGED <<updated, watermark, rows, pc, marking, offset>>
    BY <1>7 DEF vars, jira, disk, run
  <2>2. Since' = Since /\ Matching' = Matching /\ \A i \in Issues : Position(i)' = Position(i)
    BY <2>1 DEF Since, Matching, Position, Before
  <2>. QED
    BY <2>1, <2>2 DEF Searched
<1>. QED
  BY <1>1, <1>2, <1>3, <1>4, <1>5, <1>6, <1>7, Steps

-----------------------------------------------------------------------------
(* What the steps promise of the watermark, the marks and the cursor.      *)

(* The watermark passes an update only if every table has it.              *)
LEMMA WatermarkPasses ==
  ASSUME TypeOK, RowsKnown, Searched, "busy" \notin faults, WriteWatermark,
         NEW t \in Tables, NEW i \in Issues, updated[i] >= Since
  PROVE  stored[t][i] = updated[i] \/ updated[i] >= Since'
<1>1. /\ updated[i] \in Nat /\ stored[t][i] \in Nat /\ rows[t][i] \in Nat
      /\ stored[t][i] <= updated[i] /\ rows[t][i] <= updated[i]
  BY Values
<1>2. /\ pc = "write watermark" /\ watermark' \in {watermark, Latest(rows["issue"])}
  BY DEF WriteWatermark
<1>3. CASE watermark' = watermark
  BY <1>3 DEF Since
<1>4. CASE watermark' = Latest(rows["issue"]) /\ \A t2 \in Tables : rows[t2][i] = updated[i]
  <2>1. rows[t][i] <= stored[t][i]
    BY <1>2 DEF RowsKnown, Behind, Writes, Tables
  <2>. QED
    BY <1>1, <1>4, <2>1
<1>5. CASE watermark' = Latest(rows["issue"]) /\ \A j \in Issues : rows["issue"][j] <= updated[i]
  <2>1. Latest(rows["issue"]) \in Nat /\ Latest(rows["issue"]) <= updated[i]
    BY <1>5, LatestIs, Constants
  <2>2. Since' = Latest(rows["issue"]) - Margin
    BY <1>5 DEF Since
  <2>. QED
    BY <1>1, <2>1, <2>2, Constants
<1>. QED
  BY <1>2, <1>3, <1>4, <1>5 DEF Searched, Writes

(* A row that was fetched, and is stored, is covered.                      *)
LEMMA RowCovers ==
  ASSUME TypeOK, RowsKnown, NEW t \in Tables, NEW i \in Issues, pc \in Behind(t), rows[t][i] > 0
  PROVE  stored[t][i] = updated[i] \/ updated[i] >= Since
<1>1. /\ updated[i] \in Nat /\ stored[t][i] \in Nat /\ rows[t][i] \in Nat
      /\ stored[t][i] <= updated[i]
  BY Values
<1>2. rows[t][i] <= stored[t][i] /\ (rows[t][i] = updated[i] \/ updated[i] >= Since)
  BY DEF RowsKnown
<1>. QED
  BY <1>1, <1>2

(* What is covered stays covered by every step but those that move the     *)
(* watermark.                                                              *)
LEMMA CoveredStays ==
  ASSUME TypeOK, [Next]_vars, NEW t \in Tables, NEW i \in Issues,
         stored[t][i] = updated[i] \/ updated[i] >= Since, ~ WriteWatermark
  PROVE  stored'[t][i] = updated'[i] \/ updated'[i] >= Since'
<1>1. /\ updated[i] \in Nat /\ updated[i] <= now /\ now \in Nat /\ Since \in Int /\ Since <= now
      /\ updated \in [Issues -> Times]
  BY Values DEF TypeOK
<1>2. watermark' = watermark => Since' = Since
  BY DEF Since
<1>3. ASSUME NEW j \in Issues, Update(j)
      PROVE  stored'[t][i] = updated'[i] \/ updated'[i] >= Since'
  <2>1. PICK m \in {now, now + 1} \cap Times : updated' = [updated EXCEPT ![j] = m]
    BY <1>3 DEF Update
  <2>2. UNCHANGED <<stored, watermark>>
    BY <1>3 DEF Update, disk
  <2>3. updated'[i] = updated[i] \/ updated'[i] \in {now, now + 1}
    BY <2>1, <1>1
  <2>. QED
    BY <2>2, <2>3, <1>1, <1>2
<1>4. CASE AnyWrite
  <2>1. /\ stored'[t][i] \in Nat /\ stored[t][i] <= stored'[t][i] /\ stored'[t][i] <= updated[i]
        /\ UNCHANGED <<updated, watermark>>
    BY <1>4, AnyWriteIs DEF jira
  <2>. QED
    BY <2>1, <1>1, <1>2
<1>5. CASE UNCHANGED <<updated, watermark, stored>>
  BY <1>2, <1>5
<1>6. \/ \E j \in Issues : Update(j)
      \/ AnyWrite
      \/ UNCHANGED <<updated, watermark, stored>>
  BY Steps DEF SearchPage, AnyCheck, Check, CheckComments, PatchPage, MoveCursor, WriteTotal,
     WriteCovered, Fresh, ChooseComments, FetchComments, FailComments, BeginRun, EndComments, EndPatches,
     FailSearch, Kill, vars, jira, disk
<1>. QED
  BY <1>3, <1>4, <1>5, <1>6

LEMMA NothingMissedStep ==
  ASSUME TypeOK, RowsKnown, Searched, "busy" \notin faults, NothingMissed, [Next]_vars, TypeOK'
  PROVE  NothingMissed'
<1>. SUFFICES ASSUME NEW i \in Issues PROVE stored'["issue"][i] = updated'[i] \/ updated'[i] >= Since'
  <2>1. \A i \in Issues : updated'[i] \in Nat /\ Since' \in Int
    BY Constants DEF TypeOK, Since, Times
  <2>. QED
    BY <2>1 DEF NothingMissed
<1>1. "issue" \in Tables /\ updated[i] \in Nat /\ Since \in Int
  BY Values
<1>2. stored["issue"][i] = updated[i] \/ updated[i] >= Since
  BY <1>1 DEF NothingMissed
<1>3. CASE WriteWatermark
  <2>1. UNCHANGED <<updated, stored>>
    BY <1>3 DEF WriteWatermark, jira
  <2>. QED
    BY <1>1, <1>2, <1>3, <2>1, WatermarkPasses
<1>4. CASE ~ WriteWatermark
  BY <1>1, <1>2, <1>4, CoveredStays
<1>. QED
  BY <1>3, <1>4

LEMMA CheckedIsCoveredStep ==
  ASSUME TypeOK, RowsKnown, Searched, CheckedIsCovered, [Next]_vars, TypeOK'
  PROVE  CheckedIsCovered'
<1>00. faults' = faults
  BY Steps DEF Update, SearchPage, AnyWrite, Write, AnyCheck, Check, WriteWatermark, CheckComments,
     PatchPage, MoveCursor, WriteTotal, WriteCovered, ChooseComments, FetchComments, FailComments, BeginRun,
     EndComments, EndPatches, FailSearch, Kill, vars
<1>. SUFFICES ASSUME "busy" \notin faults, NEW i \in checked'
              PROVE  stored'["issue_comment"][i] = updated'[i] \/ updated'[i] >= Since'
  BY <1>00 DEF CheckedIsCovered
<1>1. "issue_comment" \in Tables /\ i \in Issues
  BY DEF Tables, TypeOK
<1>2. CASE i \in checked
  <2>1. stored["issue_comment"][i] = updated[i] \/ updated[i] >= Since
    BY <1>2 DEF CheckedIsCovered
  <2>2. CASE WriteWatermark
    <3>1. UNCHANGED <<updated, stored>>
      BY <2>2 DEF WriteWatermark, jira
    <3>. QED
      BY <1>1, <2>1, <2>2, <3>1, WatermarkPasses
  <2>3. CASE ~ WriteWatermark
    BY <1>1, <2>1, <2>3, CoveredStays
  <2>. QED
    BY <2>2, <2>3
<1>3. CASE i \notin checked
  <2>1. /\ AnyCheck \/ CheckComments
        /\ i \in marking /\ UNCHANGED <<updated, watermark, stored>>
        /\ pc \in {"write checked", "patch checked", "backfill checked"}
    <3>1. AnyCheck \/ CheckComments
      BY <1>3, Steps DEF Update, SearchPage, AnyWrite, Write, WriteWatermark,
         PatchPage, MoveCursor, WriteTotal, WriteCovered, ChooseComments, FetchComments, FailComments, BeginRun,
         EndComments, EndPatches, FailSearch, Kill, vars, disk
    <3>. QED
      BY <1>3, <3>1 DEF AnyCheck, Check, CheckComments, jira
  <2>2. pc \in Behind("issue_comment")
    BY <2>1 DEF Behind
  <2>3. rows["issue_comment"][i] > 0
    BY <2>1 DEF RowsKnown
  <2>4. stored["issue_comment"][i] = updated[i] \/ updated[i] >= Since
    BY <1>1, <2>2, <2>3, RowCovers
  <2>5. Since' = Since
    BY <2>1 DEF Since
  <2>. QED
    BY <2>1, <2>4, <2>5
<1>. QED
  BY <1>2, <1>3

-----------------------------------------------------------------------------
(* The backfill of histories.                                              *)

LEMMA BeyondPlaces ==
  ASSUME TypeOK
  PROVE  /\ Places(Beyond, [x \in Beyond |-> {j \in Beyond : j < x}])
         /\ Beyond \subseteq Issues /\ IsFiniteSet(Beyond)
<1>. DEFINE Below == [x \in Beyond |-> {j \in Beyond : j < x}]
<1>1. Beyond \subseteq Issues
  BY DEF Beyond, TypeOK
<1>2. IsFiniteSet(Beyond)
  BY <1>1, Constants, FS_Subset
<1>3. \A x \in Beyond : x \in Nat
  BY <1>1, Constants
<1>4. Below \in [Beyond -> SUBSET Beyond]
  OBVIOUS
<1>5. \A x, y \in Beyond : x \in Below[y] <=> x < y
  OBVIOUS
<1>6. ASSUME NEW x \in Beyond, NEW y \in Beyond, x # y
      PROVE  x \in Below[y] \/ y \in Below[x]
  BY <1>3, <1>5, <1>6
<1>7. ASSUME NEW x \in Beyond, NEW y \in Beyond, x \in Below[y]
      PROVE  Below[x] \subseteq Below[y]
  <2>. SUFFICES ASSUME NEW z \in Below[x] PROVE z \in Below[y]
    OBVIOUS
  <2>1. z \in Beyond /\ z < x /\ x < y
    BY <1>5, <1>7
  <2>2. z < y
    BY <1>3, <2>1
  <2>. QED
    BY <1>5, <2>1, <2>2
<1>8. \A x \in Beyond : x \notin Below[x]
  BY <1>3, <1>5
<1>. QED
  BY <1>1, <1>2, <1>4, <1>6, <1>7, <1>8 DEF Places

(* What a page of the backfill has.                                        *)
LEMMA PageOfPatches ==
  ASSUME TypeOK
  PROVE  LET page == ByKey(Beyond) IN
         /\ page \subseteq Beyond /\ IsFiniteSet(page) /\ Cardinality(page) \in Nat
         /\ Cardinality(page) <= PageSize
         /\ \A i \in Beyond : Place(i) \in Nat
         /\ \A i, k \in Beyond : i < k => Place(i) < Place(k)
         /\ \A i \in page : Place(i) >= offset /\ Place(i) < offset + PageSize
         /\ \A i \in Beyond : Place(i) < offset + PageSize => Place(i) < offset \/ i \in page
<1>. DEFINE Below == [x \in Beyond |-> {j \in Beyond : j < x}]
            page == ByKey(Beyond)
            last == offset + PageSize
<1>1. offset \in Nat /\ PageSize \in Nat /\ last \in Nat /\ offset <= last /\ last - offset = PageSize
  <2>1. offset \in Nat /\ PageSize \in Nat
    BY Constants DEF TypeOK
  <2>. QED
    BY <2>1
<1>2. Places(Beyond, Below)
  BY BeyondPlaces
<1>3. \A i \in Beyond : Cardinality(Below[i]) = Place(i)
  BY DEF Place
<1>4. page = {x \in Beyond : Cardinality(Below[x]) \in offset..(last - 1)}
  <2>1. \A x \in Beyond : Below[x] = {j \in Beyond : j < x}
    OBVIOUS
  <2>. HIDE DEF Below
  <2>2. page = {x \in Beyond : Cardinality({j \in Beyond : j < x}) \in offset..(offset + PageSize - 1)}
    BY DEF ByKey
  <2>3. offset + PageSize - 1 = last - 1
    BY <1>1
  <2>. HIDE DEF page, last
  <2>. QED
    BY <2>1, <2>2, <2>3
<1>5. \A x, y \in Beyond : x < y => x \in Below[y]
  OBVIOUS
<1>. HIDE DEF Below, page
<1>6. /\ \A i \in Beyond : Place(i) \in Nat
      /\ \A i, k \in Beyond : i < k => Place(i) < Place(k)
  BY <1>2, <1>3, <1>5, PlacesGrow
<1>7. \A i \in Beyond : i \in page <=> Place(i) >= offset /\ Place(i) < last
  <2>. HIDE DEF last
  <2>. QED
    BY <1>1, <1>3, <1>4, <1>6
<1>8. IsFiniteSet(page) /\ Cardinality(page) \in Nat /\ Cardinality(page) <= PageSize
  <2>. HIDE DEF last
  <2>1. LET places == {x \in Beyond : Cardinality(Below[x]) \in offset..(last - 1)}
        IN  IsFiniteSet(places) /\ Cardinality(places) \in Nat /\ Cardinality(places) <= last - offset
    <3>1. Places(Beyond, Below) /\ offset \in Nat /\ last \in Nat /\ offset <= last
      BY <1>1, <1>2
    <3>. QED
      BY ONLY <3>1, PlacesFit
  <2>. QED
    BY <1>1, <1>4, <2>1
<1>9. page \subseteq Beyond
  BY <1>4
<1>10. \A i \in Beyond : Place(i) < offset + PageSize => Place(i) < offset \/ i \in page
  BY <1>1, <1>6, <1>7
<1>11. \A i \in page : Place(i) >= offset /\ Place(i) < offset + PageSize
  BY <1>7, <1>9
<1>. QED
  BY <1>6, <1>8, <1>9, <1>10, <1>11 DEF page

(* The steps of the backfill, and those before it.                         *)
LEMMA PatchingSteps ==
  ASSUME [Next]_vars, pc' \in Patching, TypeOK
  PROVE  \/ \E i \in Issues : Update(i) /\ pc \in Patching
         \/ PatchPage
         \/ /\ ChooseComments \/ CheckComments
            /\ pc' = "patches" /\ pc \notin Patching /\ UNCHANGED <<jira, faults, cursor, watermark, total, noted>>
         \/ /\ pc \in Patching
            /\ UNCHANGED <<jira, faults, rows, offset, noted, cursor, watermark, total, covered>>
            /\ pc' = "patches" => pc = "patches"
<1>1. ASSUME NEW i \in Issues, Update(i) PROVE pc \in Patching
  BY <1>1 DEF Update
<1>2. CASE AnyWrite
  BY <1>2, AnyWriteIs DEF run, jira
<1>3. CASE ChooseComments \/ CheckComments
  BY <1>3 DEF ChooseComments, CheckComments, Patching, disk
<1>4. CASE AnyCheck \/ EndPatches \/ UNCHANGED vars
  BY <1>4 DEF AnyCheck, Check, EndPatches, vars, jira, run, disk, Patching
<1>5. ~ (\/ SearchPage \/ WriteWatermark \/ MoveCursor \/ WriteTotal \/ WriteCovered
         \/ \E i \in Issues : FetchComments(i) \/ FailComments(i)
         \/ BeginRun \/ EndComments \/ FailSearch \/ Kill)
  BY DEF SearchPage, WriteWatermark, MoveCursor, WriteTotal, WriteCovered, FetchComments, FailComments,
     NextTodo, BeginRun, EndComments, FailSearch, Kill, Fresh, Patching
<1>. QED
  BY <1>1, <1>2, <1>3, <1>4, <1>5, Steps

(* What a page adds to what was fetched.                                   *)
LEMMA PageAdds ==
  ASSUME TypeOK, PatchPage
  PROVE  LET page == ByKey(Beyond) IN
         /\ Fetched' = Fetched \cup page
         /\ offset' = offset + Cardinality(page) /\ pc = "patches"
         /\ Beyond' = Beyond /\ \A i \in Beyond : Place(i)' = Place(i)
         /\ UNCHANGED <<jira, faults, disk>>
<1>. DEFINE page == ByKey(Beyond)
<1>1. /\ rows' = [t \in Tables |-> [i \in Issues |->
                     IF i \in page /\ (t = "issue_comment" => i \notin checked \cup marking)
                       THEN updated[i] ELSE rows[t][i]]]
      /\ offset' = offset + Cardinality(page) /\ pc = "patches"
      /\ UNCHANGED <<jira, faults, disk>>
  BY DEF PatchPage
<1>2. \A i \in page : i \in Issues /\ updated[i] > 0
  BY DEF TypeOK, ByKey, Beyond
<1>. HIDE DEF page
<1>3. \A i \in Issues : rows'["jira_changelog"][i] = IF i \in page THEN updated[i] ELSE rows["jira_changelog"][i]
  <2>1. "jira_changelog" \in Tables /\ "jira_changelog" # "issue_comment"
    BY Values
  <2>. QED
    BY <1>1, <2>1
<1>4. Fetched' = Fetched \cup page
  BY <1>2, <1>3 DEF Fetched
<1>5. Beyond' = Beyond
  BY <1>1 DEF Beyond, jira, disk
<1>6. \A i \in Beyond : Place(i)' = Place(i)
  BY <1>5 DEF Place
<1>. QED
  BY <1>1, <1>4, <1>5, <1>6 DEF page

LEMMA HistoriesStep ==
  ASSUME TypeOK, Forgotten, Histories, [Next]_vars, TypeOK', Forgotten'
  PROVE  Histories'
<1>. SUFFICES ASSUME pc' \in Patching PROVE Histories'
  BY DEF Histories
<1>00. /\ \A i \in Issues : updated[i] \in Nat /\ updated[i] <= now
       /\ now \in Nat /\ Since \in Int /\ Since <= now
       /\ "jira_changelog" \in Tables
  BY Values
<1>01. watermark' = watermark => Since' = Since
  BY DEF Since
<1>1. ASSUME NEW i \in Issues, Update(i), pc \in Patching PROVE Histories'
  <2>1. PICK t \in {now, now + 1} \cap Times : updated' = [updated EXCEPT ![i] = t]
    BY <1>1 DEF Update
  <2>2. /\ UNCHANGED <<rows, watermark, pc, offset, cursor>>
        /\ patched' \in {patched, patched \cup {i}}
    BY <1>1 DEF Update, disk, run
  <2>3. \A j \in Issues : updated'[j] = IF j = i THEN t ELSE updated[j]
    BY <2>1 DEF TypeOK
  <2>4. Fetched' = Fetched /\ Since' = Since /\ Beyond \subseteq Beyond' /\ Beyond' \subseteq Beyond \cup {i}
    BY <2>2 DEF Fetched, Since, Beyond
  <2>5. Beyond' \subseteq Issues /\ IsFiniteSet(Beyond')
    <3>1. Beyond' \subseteq Issues
      BY DEF Beyond, TypeOK
    <3>. QED
      BY <3>1, Constants, FS_Subset
  <2>6. ASSUME NEW j \in Beyond', updated'[j] < Since'
        PROVE  j \in Beyond /\ updated[j] < Since /\ Place(j) <= Place(j)' /\ Place(j)' \in Nat /\ Place(j) \in Nat
    <3>1. j # i
      BY <2>1, <2>3, <2>4, <2>6, <1>00
    <3>2. j \in Beyond /\ updated[j] < Since
      BY <2>3, <2>4, <2>5, <2>6, <3>1
    <3>. DEFINE below == {k \in Beyond : k < j}
                below2 == {k \in Beyond' : k < j}
    <3>3. below \in SUBSET below2 /\ below2 \in SUBSET Beyond'
      BY <2>4
    <3>4. Place(j) = Cardinality(below) /\ Place(j)' = Cardinality(below2)
      BY DEF Place
    <3>. HIDE DEF below, below2
    <3>5. Cardinality(below) <= Cardinality(below2) /\ Cardinality(below2) \in Nat /\ Cardinality(below) \in Nat
      BY <2>5, <3>3, FS_Subset, FS_CardinalityType
    <3>. QED
      BY <3>2, <3>4, <3>5
  <2>7. offset \in Nat
    BY DEF TypeOK
  <2>8. ASSUME NEW j \in Beyond', updated'[j] < Since'
        PROVE  /\ \A k \in Fetched' : j < k => j \in Fetched'
               /\ pc' = "patches" /\ Place(j)' < offset' => j \in Fetched'
    <3>1. /\ \A k \in Fetched : j < k => j \in Fetched
          /\ pc = "patches" /\ Place(j) < offset => j \in Fetched
      BY <1>1, <2>6, <2>8 DEF Histories
    <3>2. Place(j)' < offset => Place(j) < offset
      BY <2>6, <2>7, <2>8
    <3>. QED
      BY <2>2, <2>4, <3>1, <3>2
  <2>9. Fetched' \subseteq Beyond'
    BY <1>1, <2>4 DEF Histories
  <2>. QED
    BY <2>8, <2>9 DEF Histories
<1>2. CASE PatchPage
  <2>. DEFINE page == ByKey(Beyond)
  <2>1. /\ Fetched' = Fetched \cup page
        /\ offset' = offset + Cardinality(page) /\ pc = "patches"
        /\ Beyond' = Beyond /\ \A i \in Beyond : Place(i)' = Place(i)
        /\ updated' = updated /\ Since' = Since
    BY <1>2, PageAdds DEF Since, jira, disk
  <2>2. /\ page \subseteq Beyond /\ Cardinality(page) \in Nat /\ Cardinality(page) <= PageSize
        /\ \A i \in Beyond : Place(i) \in Nat
        /\ \A i, k \in Beyond : i < k => Place(i) < Place(k)
        /\ \A i \in page : Place(i) >= offset /\ Place(i) < offset + PageSize
        /\ \A i \in Beyond : Place(i) < offset + PageSize => Place(i) < offset \/ i \in page
    BY PageOfPatches
  <2>. HIDE DEF page
  <2>3. offset \in Nat /\ PageSize \in Nat
    BY Constants DEF TypeOK
  <2>4. Fetched \subseteq Beyond
    BY <2>1 DEF Histories, Patching
  <2>5. ASSUME NEW i \in Beyond, updated[i] < Since, Place(i) < offset + PageSize
        PROVE  i \in Fetched'
    BY <2>1, <2>2, <2>5 DEF Histories, Patching
  <2>6. ASSUME NEW i \in Beyond, updated[i] < Since, NEW k \in Fetched', i < k
        PROVE  i \in Fetched'
    <3>1. CASE k \in Fetched
      BY <2>1, <2>6, <3>1 DEF Histories, Patching
    <3>2. CASE k \in page
      <4>1. Place(i) < Place(k) /\ Place(k) < offset + PageSize /\ Place(i) \in Nat /\ Place(k) \in Nat
        BY <2>2, <2>6, <3>2
      <4>2. Place(i) < offset + PageSize
        BY <4>1, <2>3
      <4>. QED
        BY <2>5, <2>6, <4>2
    <3>. QED
      BY <2>1, <3>1, <3>2
  <2>7. ASSUME NEW i \in Beyond, updated[i] < Since, Place(i) < offset'
        PROVE  i \in Fetched'
    <3>1. Place(i) < offset + PageSize
      BY <2>1, <2>2, <2>3, <2>7
    <3>. QED
      BY <2>5, <2>7, <3>1
  <2>8. Fetched' \subseteq Beyond'
    BY <2>1, <2>2, <2>4
  <2>. QED
    BY <2>1, <2>6, <2>7, <2>8 DEF Histories
<1>3. CASE /\ ChooseComments \/ CheckComments
           /\ pc' = "patches"
  <2>1. rows' = [t \in Tables |-> NoRows] /\ offset' = 0
    BY <1>3 DEF ChooseComments, CheckComments, Forgotten, Patching
  <2>2. Fetched' = {}
    BY <2>1, <1>00 DEF Fetched, NoRows
  <2>3. \A i \in Beyond' : Place(i)' \in Nat
    <3>1. Beyond' \subseteq Issues
      BY DEF Beyond, TypeOK
    <3>2. IsFiniteSet(Beyond')
      BY <3>1, Constants, FS_Subset
    <3>3. ASSUME NEW i PROVE Cardinality({k \in Beyond' : k < i}) \in Nat
      <4>1. {k \in Beyond' : k < i} \in SUBSET Beyond'
        OBVIOUS
      <4>. QED
        BY <3>2, <4>1, FS_Subset, FS_CardinalityType
    <3>. QED
      BY <3>3 DEF Place
  <2>4. \A i \in Beyond' : ~ (Place(i)' < offset')
    BY <2>1, <2>3
  <2>. QED
    BY <2>2, <2>4 DEF Histories
<1>4. CASE /\ pc \in Patching
           /\ UNCHANGED <<jira, rows, offset, cursor, watermark>>
           /\ pc' = "patches" => pc = "patches"
  <2>1. Fetched' = Fetched /\ Beyond' = Beyond /\ Since' = Since /\ updated' = updated
    BY <1>4 DEF Fetched, Beyond, Since, jira
  <2>2. \A i \in Beyond : Place(i)' = Place(i)
    BY <2>1 DEF Place
  <2>. QED
    BY <1>4, <2>1, <2>2 DEF Histories
<1>. QED
  BY <1>1, <1>2, <1>3, <1>4, PatchingSteps

LEMMA HistoryBehindCursorStep ==
  ASSUME TypeOK, RowsKnown, Searched, Histories, HistoryBehindCursor, [Next]_vars, TypeOK'
  PROVE  HistoryBehindCursor'
<1>00. faults' = faults
  BY Steps DEF Update, SearchPage, AnyWrite, Write, AnyCheck, Check, WriteWatermark, CheckComments,
     PatchPage, MoveCursor, WriteTotal, WriteCovered, ChooseComments, FetchComments, FailComments, BeginRun,
     EndComments, EndPatches, FailSearch, Kill, vars
<1>. SUFFICES ASSUME "busy" \notin faults, NEW i \in Issues, i \in patched', i <= cursor'
              PROVE  stored'["jira_changelog"][i] = updated'[i] \/ updated'[i] >= Since'
  BY <1>00 DEF HistoryBehindCursor, TypeOK
<1>1. "jira_changelog" \in Tables /\ i \in Issues
  BY DEF Tables
<1>2. CASE i \in patched /\ i <= cursor
  <2>1. stored["jira_changelog"][i] = updated[i] \/ updated[i] >= Since
    BY <1>2 DEF HistoryBehindCursor
  <2>2. CASE WriteWatermark
    <3>1. UNCHANGED <<updated, stored>>
      BY <2>2 DEF WriteWatermark, jira
    <3>. QED
      BY <1>1, <2>1, <2>2, <3>1, WatermarkPasses
  <2>3. CASE ~ WriteWatermark
    BY <1>1, <2>1, <2>3, CoveredStays
  <2>. QED
    BY <2>2, <2>3
<1>3. CASE MoveCursor /\ ~ (i <= cursor)
  <2>1. /\ UNCHANGED <<updated, watermark, stored, patched>> /\ pc = "patch cursor"
        /\ cursor' \in {cursor, LastKey}
    BY <1>3 DEF MoveCursor, jira, Later
  <2>2. cursor' = LastKey /\ i <= LastKey /\ i \in Beyond /\ LastKey # 0 /\ LastKey \in Fetched
    <3>1. cursor \in Nat /\ i \in Nat
      BY <1>1, Constants DEF TypeOK
    <3>2. cursor' = LastKey /\ i <= LastKey
      BY <2>1, <1>3
    <3>0. patched' = patched
      BY <2>1
    <3>3. i > cursor /\ i > 0 /\ i \in patched
      <4>1. i > cursor
        BY <1>3, <3>1
      <4>2. i > 0
        BY <1>1, Constants DEF Issues
      <4>3. i \in patched
        BY <3>0
      <4>. QED
        BY <4>1, <4>2, <4>3
    <3>. QED
      <4>1. LastKey \in 0..NumIssues /\ (LastKey # 0 => LastKey \in Fetched)
        BY LastKeyIs
      <4>2. LastKey # 0 /\ i \in Beyond
        <5>1. LastKey # 0
          BY <3>1, <3>2, <3>3, <4>1, Constants
        <5>. QED
          BY <3>3, <5>1 DEF Beyond
      <4>. QED
        BY <3>2, <4>1, <4>2
  <2>3. Since' = Since
    BY <2>1 DEF Since
  <2>4. CASE updated[i] < Since
    <3>1. i \in Fetched
      <4>1. i = LastKey \/ i < LastKey
        BY <1>1, <2>2, Constants, LastKeyIs
      <4>. QED
        BY <2>1, <2>2, <2>4, <4>1 DEF Histories, Patching
    <3>2. rows["jira_changelog"][i] > 0 /\ pc \in Behind("jira_changelog")
      BY <2>1, <3>1 DEF Fetched, Behind
    <3>. QED
      BY <1>1, <2>1, <2>3, <3>2, RowCovers
  <2>5. updated[i] \in Nat /\ Since \in Int
    BY <1>1, Values
  <2>6. CASE ~ (updated[i] < Since)
    <3>0. updated[i] >= Since
      BY <2>5, <2>6
    <3>2. updated' = updated
      BY <2>1
    <3>1. updated[i] >= Since /\ updated'[i] = updated[i]
      BY <3>0, <3>2
    <3>. QED
      BY <2>3, <3>1
  <2>. QED
    BY <2>4, <2>6
<1>4. CASE i \notin patched
  <2>1. PICK j \in Issues : Update(j) /\ i = j
    <3>1. patched' # patched
      BY <1>4
    <3>2. \E j \in Issues : Update(j)
      BY <3>1, Steps, AnyWriteIs DEF SearchPage, AnyCheck, Check, WriteWatermark, CheckComments,
         PatchPage, MoveCursor, WriteTotal, WriteCovered, ChooseComments, FetchComments, FailComments, BeginRun,
         EndComments, EndPatches, FailSearch, Kill, vars, jira
    <3>. QED
      BY <3>2, <1>4 DEF Update
  <2>2. stored["jira_changelog"][i] = updated[i] \/ updated'[i] >= Since'
    <3>1. PICK t \in {now, now + 1} \cap Times : updated' = [updated EXCEPT ![i] = t]
      BY <2>1 DEF Update
    <3>2. watermark' = watermark /\ updated'[i] = t
      BY <1>1, <2>1, <3>1 DEF Update, disk, TypeOK
    <3>3. now \in Nat /\ Since \in Int /\ Since <= now
      BY Values
    <3>. QED
      BY <3>1, <3>2, <3>3 DEF Since
  <2>3. CASE stored["jira_changelog"][i] = updated[i]
    <3>1. ~ WriteWatermark
      BY <2>1, <1>4 DEF WriteWatermark, jira
    <3>. QED
      BY <1>1, <2>3, <3>1, CoveredStays
  <2>. QED
    BY <2>2, <2>3
<1>5. CASE i \in patched /\ ~ (i <= cursor) /\ ~ MoveCursor
  <2>1. cursor' = cursor
    BY <1>5, Steps, AnyWriteIs DEF Update, SearchPage, AnyCheck, Check, WriteWatermark, CheckComments,
       PatchPage, WriteTotal, WriteCovered, ChooseComments, FetchComments, FailComments, BeginRun,
       EndComments, EndPatches, FailSearch, Kill, vars, disk
  <2>. QED
    BY <1>5, <2>1
<1>. QED
  BY <1>2, <1>3, <1>4, <1>5

-----------------------------------------------------------------------------
(* What the backfill of histories counts.                                  *)

(* The steps that change each part of what is counted.                     *)
LEMMA CountingSteps ==
  ASSUME TypeOK, [Next]_vars
  PROVE  /\ faults' = faults
         /\ patched' = patched \/ "growth" \in faults
         /\ total' = total \/ WriteTotal
         /\ noted' \in {noted, -1} \/ PatchPage
         /\ cursor' = cursor \/ MoveCursor
         /\ covered' = covered \/ WriteCovered
         /\ stored' = stored \/ AnyWrite
         /\ pc' \in {"patch total", "patch covered"} =>
              \/ MoveCursor
              \/ pc \in {"patch total", "patch covered"} /\ offset' = offset /\ covered' = covered /\ cursor' = cursor
<1>1. CASE AnyWrite
  <2>1. UNCHANGED <<jira, faults, watermark, cursor, total, covered, run>>
        /\ pc' \notin {"patch total", "patch covered"}
    BY <1>1, AnyWriteIs DEF Writes, Patching
  <2>. QED
    BY <1>1, <2>1 DEF jira, run
<1>2. CASE \E i \in Issues : Update(i)
  BY <1>2 DEF Update, disk, run
<1>3. CASE WriteTotal
  BY <1>3 DEF WriteTotal, jira, run
<1>4. CASE WriteCovered
  BY <1>4 DEF WriteCovered, Fresh, jira
<1>5. CASE PatchPage
  BY <1>5 DEF PatchPage, jira, disk
<1>6. CASE MoveCursor
  BY <1>6 DEF MoveCursor, jira, run
<1>7. CASE Kill
  BY <1>7 DEF Kill, Fresh, jira, disk
<1>8. CASE \/ SearchPage \/ AnyCheck \/ WriteWatermark \/ CheckComments
           \/ ChooseComments \/ \E i \in Issues : FetchComments(i) \/ FailComments(i)
  BY <1>8 DEF SearchPage, AnyCheck, Check, WriteWatermark, CheckComments, ChooseComments, FetchComments,
     FailComments, NextTodo, jira, disk, run
<1>9. CASE BeginRun \/ EndComments \/ EndPatches \/ FailSearch \/ UNCHANGED vars
  BY <1>9 DEF BeginRun, EndComments, EndPatches, FailSearch, vars, jira, disk, run
<1>. QED
  BY <1>1, <1>2, <1>3, <1>4, <1>5, <1>6, <1>7, <1>8, <1>9, Steps

LEMMA CountedSets ==
  ASSUME TypeOK
  PROVE  /\ IsFiniteSet(patched) /\ Cardinality(patched) \in Nat
         /\ IsFiniteSet(Behind0) /\ Cardinality(Behind0) \in Nat /\ Behind0 \subseteq patched
         /\ IsFiniteSet(Fetched) /\ Cardinality(Fetched) \in Nat
<1>1. patched \in SUBSET Issues /\ Behind0 \in SUBSET Issues /\ Fetched \in SUBSET Issues
  BY DEF TypeOK, Behind0, Fetched
<1>2. Behind0 \subseteq patched
  BY DEF Behind0
<1>. QED
  BY <1>1, <1>2, Constants, FS_Subset, FS_CardinalityType

(* A page has none of what was fetched, and leaves no gap.                 *)
LEMMA PageIsNew ==
  ASSUME TypeOK, Histories, Counted, "growth" \notin faults, PatchPage
  PROVE  /\ offset' = Cardinality(Fetched')
         /\ \A i \in Beyond, k \in Fetched' : i < k => i \in Fetched'
<1>. DEFINE page == ByKey(Beyond)
<1>1. /\ Fetched' = Fetched \cup page
      /\ offset' = offset + Cardinality(page) /\ pc = "patches"
  BY PageAdds
<1>2. /\ page \subseteq Beyond /\ IsFiniteSet(page) /\ Cardinality(page) \in Nat
      /\ \A i \in Beyond : Place(i) \in Nat
      /\ \A i, k \in Beyond : i < k => Place(i) < Place(k)
      /\ \A i \in page : Place(i) >= offset /\ Place(i) < offset + PageSize
      /\ \A i \in Beyond : Place(i) < offset + PageSize => Place(i) < offset \/ i \in page
  BY PageOfPatches
<1>. HIDE DEF page
<1>3. /\ Fetched \subseteq Beyond /\ offset = Cardinality(Fetched) /\ offset \in Nat /\ PageSize \in Nat
      /\ \A i \in Beyond, k \in Fetched : i < k => i \in Fetched
      /\ IsFiniteSet(Fetched)
  BY <1>1, CountedSets, Constants DEF Histories, Counted, Patching, TypeOK
<1>4. Beyond \subseteq Nat /\ IsFiniteSet(Beyond)
  BY BeyondPlaces, Constants
<1>5. ASSUME NEW i \in Fetched
      PROVE  Place(i) < offset
  <2>. DEFINE below == {j \in Beyond : j < i}
  <2>1. below \in SUBSET Fetched /\ i \notin below
    <3>1. i \in Nat /\ ~ (i < i)
      BY <1>3, <1>4
    <3>2. \A j \in below : j \in Beyond /\ j < i /\ j \in Fetched
      BY <1>3, <1>5
    <3>. QED
      BY <3>1, <3>2
  <2>2. Place(i) = Cardinality(below)
    BY DEF Place
  <2>. HIDE DEF below
  <2>3. Cardinality(below) <= Cardinality(Fetched) /\ Cardinality(below) \in Nat
        /\ (Cardinality(Fetched) = Cardinality(below) => Fetched = below)
    BY <1>3, <2>1, FS_Subset, FS_CardinalityType
  <2>. QED
    BY <1>3, <2>1, <2>2, <2>3
<1>6. ASSUME NEW i \in Beyond, Place(i) < offset
      PROVE  i \in Fetched
  <2>. SUFFICES ASSUME i \notin Fetched PROVE FALSE
    OBVIOUS
  <2>. DEFINE below == {j \in Beyond : j < i}
  <2>1. Fetched \in SUBSET below /\ below \in SUBSET Beyond
    BY <1>3, <1>4
  <2>2. Place(i) = Cardinality(below)
    BY DEF Place
  <2>. HIDE DEF below
  <2>3. Cardinality(Fetched) <= Cardinality(below)
    BY <1>4, <2>1, FS_Subset
  <2>. QED
    BY <1>2, <1>3, <1>6, <2>2, <2>3
<1>7. Fetched \cap page = {}
  BY <1>2, <1>3, <1>5
<1>8. Cardinality(Fetched \cup page) = Cardinality(Fetched) + Cardinality(page)
  <2>1. Cardinality(Fetched \cup page)
          = Cardinality(Fetched) + Cardinality(page) - Cardinality(Fetched \cap page)
    BY <1>2, <1>3, FS_Union
  <2>2. Cardinality(Fetched \cap page) = 0
    BY <1>7, FS_EmptySet
  <2>. QED
    BY <1>2, <1>3, <2>1, <2>2
<1>9. ASSUME NEW i \in Beyond, NEW k \in Fetched', i < k
      PROVE  i \in Fetched'
  <2>1. CASE k \in Fetched
    BY <1>1, <1>3, <1>9, <2>1
  <2>2. CASE k \in page
    <3>1. Place(i) < Place(k) /\ Place(k) < offset + PageSize /\ Place(i) \in Nat /\ Place(k) \in Nat
      BY <1>2, <1>9, <2>2
    <3>2. Place(i) < offset + PageSize
      BY <1>3, <3>1
    <3>. QED
      BY <1>1, <1>2, <1>6, <3>2
  <2>. QED
    BY <1>1, <2>1, <2>2
<1>. QED
  BY <1>1, <1>3, <1>8, <1>9

(* The cursor passes what was fetched, and that is stored.                 *)
LEMMA CursorCounts ==
  ASSUME TypeOK, RowsKnown, Histories, Counted, "growth" \notin faults, MoveCursor, TypeOK'
  PROVE  /\ covered + offset <= Cardinality(Behind0')
         /\ covered <= Cardinality(Behind0')
         /\ \A i \in patched : i <= cursor' => stored["jira_changelog"][i] > 0
<1>1. /\ pc = "patch cursor" /\ cursor' = Later(cursor, LastKey)
      /\ patched' = patched
  BY DEF MoveCursor, jira
<1>2. /\ cursor \in Nat /\ LastKey \in 0..NumIssues /\ LastKey \in Nat
      /\ LastKey # 0 => LastKey \in Fetched
      /\ \A i \in Fetched : i <= LastKey
  <2>1. cursor \in Nat
    BY Constants DEF TypeOK
  <2>2. LastKey \in 0..NumIssues
    BY LastKeyIs
  <2>. QED
    BY <2>1, <2>2, LastKeyIs, Constants
<1>3. cursor' \in {cursor, LastKey} /\ cursor <= cursor' /\ LastKey <= cursor'
  BY <1>1, <1>2, LaterIs
<1>4. /\ Fetched \subseteq Beyond /\ offset = Cardinality(Fetched) /\ covered \in Nat
      /\ covered <= Cardinality(Behind0)
      /\ \A i \in Beyond, k \in Fetched : i < k => i \in Fetched
      /\ \A i \in patched : i <= cursor => stored["jira_changelog"][i] > 0
  BY <1>1 DEF Histories, Counted, Patching, TypeOK
<1>5. patched \subseteq Nat /\ patched \subseteq Issues /\ \A i \in patched : i > 0
  BY Constants DEF TypeOK, Issues
<1>6. Behind0' = {i \in patched : i <= cursor'}
  BY <1>1 DEF Behind0
<1>7. ASSUME NEW i \in patched, i <= cursor'
      PROVE  i <= cursor \/ i \in Fetched
  <2>. SUFFICES ASSUME ~ (i <= cursor) PROVE i \in Fetched
    OBVIOUS
  <2>1. cursor' = LastKey /\ i \in Beyond /\ LastKey # 0
    BY <1>2, <1>3, <1>5, <1>7 DEF Beyond
  <2>2. LastKey \in Fetched /\ (i = LastKey \/ i < LastKey)
    BY <1>2, <1>5, <1>7, <2>1
  <2>. QED
    BY <1>4, <2>1, <2>2
<1>8. ASSUME NEW i \in patched, i <= cursor'
      PROVE  stored["jira_changelog"][i] > 0
  <2>1. CASE i <= cursor
    BY <1>4, <2>1
  <2>2. CASE i \in Fetched
    <3>1. /\ rows["jira_changelog"][i] > 0 /\ "jira_changelog" \in Tables /\ i \in Issues
          /\ pc \in Behind("jira_changelog")
      BY <1>1, <2>2 DEF Fetched, Behind, Tables
    <3>2. rows["jira_changelog"][i] <= stored["jira_changelog"][i]
      BY <3>1 DEF RowsKnown
    <3>3. rows["jira_changelog"][i] \in Nat /\ stored["jira_changelog"][i] \in Nat
      BY <3>1, Values
    <3>. QED
      BY <3>1, <3>2, <3>3
  <2>. QED
    BY <1>7, <1>8, <2>1, <2>2
<1>9. Behind0 \cup Fetched \subseteq Behind0' /\ Behind0 \cap Fetched = {}
  <2>1. \A i \in Fetched : i \in patched /\ i > cursor /\ i <= cursor'
    <3>1. ASSUME NEW i \in Fetched
          PROVE  i \in patched /\ i > cursor /\ i <= cursor'
      <4>1. i \in patched /\ i > cursor /\ i <= LastKey /\ i \in Nat
        BY <1>2, <1>4, <1>5 DEF Beyond
      <4>. QED
        BY <1>2, <1>3, <4>1
    <3>. QED
      BY <3>1
  <2>2. \A i \in Behind0 : i \in patched /\ i <= cursor /\ i <= cursor'
    <3>1. ASSUME NEW i \in Behind0
          PROVE  i \in patched /\ i <= cursor /\ i <= cursor'
      <4>1. i \in patched /\ i <= cursor /\ i \in Nat
        BY <1>5 DEF Behind0
      <4>. QED
        BY <1>2, <1>3, <4>1
    <3>. QED
      BY <3>1
  <2>3. Behind0 \cap Fetched = {}
    <3>1. ASSUME NEW i \in Behind0 \cap Fetched PROVE FALSE
      <4>1. i > cursor /\ i <= cursor /\ i \in Nat
        BY <2>1, <2>2, <1>5
      <4>. QED
        BY <1>2, <4>1
    <3>. QED
      BY <3>1
  <2>. QED
    BY <1>6, <2>1, <2>2, <2>3
<1>10. /\ IsFiniteSet(Behind0) /\ IsFiniteSet(Fetched)
       /\ Cardinality(Behind0) \in Nat /\ Cardinality(Fetched) \in Nat
  BY CountedSets
<1>11. IsFiniteSet(Behind0') /\ Cardinality(Behind0') \in Nat
  <2>1. Behind0' \in SUBSET patched
    BY <1>6
  <2>. HIDE DEF Behind0
  <2>. QED
    BY <2>1, CountedSets, FS_Subset, FS_CardinalityType
<1>12. Cardinality(Behind0 \cup Fetched) = Cardinality(Behind0) + Cardinality(Fetched)
  <2>1. Cardinality(Behind0 \cup Fetched)
          = Cardinality(Behind0) + Cardinality(Fetched) - Cardinality(Behind0 \cap Fetched)
    BY <1>10, FS_Union
  <2>2. Cardinality(Behind0 \cap Fetched) = 0
    BY <1>9, FS_EmptySet
  <2>. QED
    BY <1>10, <2>1, <2>2
<1>13. Cardinality(Behind0 \cup Fetched) <= Cardinality(Behind0')
  BY <1>9, <1>11, FS_Subset
<1>. QED
  BY <1>4, <1>8, <1>10, <1>11, <1>12, <1>13

LEMMA CountedStep ==
  ASSUME TypeOK, Forgotten, RowsKnown, Histories, Counted, [Next]_vars, TypeOK', Forgotten'
  PROVE  Counted'
<1>. SUFFICES ASSUME "growth" \notin faults PROVE Counted'
  BY CountingSteps DEF Counted
<1>1. faults' = faults /\ patched' = patched
  BY CountingSteps
<1>2. /\ total # -1 => total = Cardinality(patched)
      /\ noted # -1 => noted = Cardinality(patched)
      /\ \A i \in patched : i <= cursor => stored["jira_changelog"][i] > 0
      /\ covered <= Cardinality(Behind0)
      /\ pc \in {"patch total", "patch covered"} => covered + offset <= Cardinality(Behind0)
      /\ pc \in Patching =>
           /\ offset = Cardinality(Fetched)
           /\ \A i \in Beyond, k \in Fetched : i < k => i \in Fetched
  BY DEF Counted
<1>3. total' # -1 => total' = Cardinality(patched)
  <2>1. CASE total' = total
    BY <1>2, <2>1
  <2>2. CASE WriteTotal
    BY <1>2, <2>2 DEF WriteTotal
  <2>. QED
    BY <2>1, <2>2, CountingSteps
<1>4. noted' # -1 => noted' = Cardinality(patched)
  <2>1. CASE noted' \in {noted, -1}
    BY <1>2, <2>1
  <2>2. CASE PatchPage
    <3>1. noted' = noted \/ (noted' = Cardinality(Beyond) /\ cursor = 0)
      <4>1. noted' = IF cursor = 0 /\ total = -1 /\ noted = -1 THEN Cardinality(Beyond) ELSE noted
        BY <2>2 DEF PatchPage
      <4>2. CASE cursor = 0 /\ total = -1 /\ noted = -1
        BY <4>1, <4>2
      <4>3. CASE cursor # 0
        BY <4>1, <4>3
      <4>4. CASE total # -1
        BY <4>1, <4>4
      <4>5. CASE noted # -1
        BY <4>1, <4>5
      <4>. QED
        BY <4>2, <4>3, <4>4, <4>5
    <3>2. cursor = 0 => Beyond = patched
      <4>1. \A i \in patched : i \in Nat /\ i > 0
        BY Constants DEF TypeOK, Issues
      <4>. QED
        BY <4>1 DEF Beyond
    <3>. QED
      BY <1>2, <3>1, <3>2
  <2>. QED
    BY <2>1, <2>2, CountingSteps
<1>5. CASE MoveCursor
  <2>1. /\ covered + offset <= Cardinality(Behind0') /\ covered <= Cardinality(Behind0')
        /\ \A i \in patched : i <= cursor' => stored["jira_changelog"][i] > 0
    BY <1>5, CursorCounts
  <2>2. stored' = stored /\ covered' = covered /\ offset' = offset /\ pc' = "patch total"
    BY <1>5 DEF MoveCursor, run
  <2>. QED
    BY <1>1, <1>3, <1>4, <2>1, <2>2 DEF Counted, Patching
<1>6. CASE ~ MoveCursor
  <2>1. cursor' = cursor
    BY <1>6, CountingSteps
  <2>2. Behind0' = Behind0
    BY <1>1, <2>1 DEF Behind0
  <2>3. ASSUME NEW i \in patched, i <= cursor
        PROVE  stored'["jira_changelog"][i] > 0
    <3>1. stored["jira_changelog"][i] > 0
      BY <1>2, <2>3
    <3>2. CASE stored' = stored
      BY <3>1, <3>2
    <3>3. CASE AnyWrite
      <4>1. "jira_changelog" \in Tables /\ i \in Issues
        BY DEF Tables, TypeOK
      <4>2. /\ stored'["jira_changelog"][i] \in Nat /\ stored["jira_changelog"][i] \in Nat
            /\ stored["jira_changelog"][i] <= stored'["jira_changelog"][i]
        BY <3>3, <4>1, AnyWriteIs, Values
      <4>. QED
        BY <3>1, <4>2
    <3>. QED
      BY <3>2, <3>3, CountingSteps
  <2>4. covered' <= Cardinality(Behind0)
    <3>1. CASE covered' = covered
      BY <1>2, <3>1
    <3>2. CASE WriteCovered
      BY <1>2, <3>2 DEF WriteCovered
    <3>. QED
      BY <3>1, <3>2, CountingSteps
  <2>5. pc' \in {"patch total", "patch covered"} => covered' + offset' <= Cardinality(Behind0)
    <3>. SUFFICES ASSUME pc' \in {"patch total", "patch covered"}
                  PROVE  covered' + offset' <= Cardinality(Behind0)
      OBVIOUS
    <3>1. pc \in {"patch total", "patch covered"} /\ offset' = offset /\ covered' = covered
      BY <1>6, CountingSteps
    <3>. QED
      BY <1>2, <3>1
  <2>6. ASSUME pc' \in Patching
        PROVE  /\ offset' = Cardinality(Fetched')
               /\ \A i \in Beyond', k \in Fetched' : i < k => i \in Fetched'
    <3>1. Beyond' = Beyond
      BY <1>1, <2>1 DEF Beyond
    <3>2. CASE PatchPage
      BY <3>1, <3>2, PageIsNew
    <3>3. CASE pc \in Patching /\ UNCHANGED <<rows, offset>>
      <4>1. Fetched' = Fetched
        BY <3>3 DEF Fetched
      <4>. QED
        BY <1>2, <3>1, <3>3, <4>1
    <3>4. CASE (ChooseComments \/ CheckComments) /\ pc' = "patches"
      <4>1. rows' = [t \in Tables |-> NoRows] /\ offset' = 0 /\ "jira_changelog" \in Tables
        BY <3>4, Values DEF ChooseComments, CheckComments, Forgotten, Patching
      <4>2. Fetched' = {}
        BY <4>1 DEF Fetched, NoRows
      <4>. QED
        BY <4>1, <4>2, FS_EmptySet
    <3>5. ASSUME NEW i \in Issues, Update(i) PROVE UNCHANGED <<rows, offset, pc>>
      BY <3>5 DEF Update, run
    <3>. QED
      BY <2>6, <3>2, <3>3, <3>4, <3>5, PatchingSteps
  <2>. QED
    BY <1>1, <1>3, <1>4, <2>1, <2>2, <2>3, <2>4, <2>5, <2>6 DEF Counted
<1>. QED
  BY <1>5, <1>6

-----------------------------------------------------------------------------
(* The invariant, and what it gives.                                       *)

LEMMA InitJiraInv == Init => JiraInv
<1>. SUFFICES ASSUME Init PROVE JiraInv
  OBVIOUS
<1>1. TypeOK /\ Forgotten
  BY InitJiraTypeOK
<1>2. /\ pc = "idle" /\ rows = [t \in Tables |-> NoRows] /\ marking = {} /\ checked = {}
      /\ cursor = 0 /\ total = -1 /\ covered = 0 /\ noted = -1
      /\ stored = [t \in Tables |-> IF t = "issue" THEN updated ELSE NoRows]
  BY DEF Init
<1>3. \A t \in Tables, i \in Issues : rows[t][i] = 0
  BY <1>2 DEF NoRows
<1>4. \A t \in Tables : pc \notin Behind(t)
  BY <1>2 DEF Behind, Writes, Tables
<1>5. RowsKnown
  BY <1>2, <1>3, <1>4 DEF RowsKnown
<1>6. Searched
  BY <1>2 DEF Searched, Writes
<1>7. Histories
  BY <1>2 DEF Histories, Patching
<1>8. ASSUME NEW i \in patched, i <= cursor
      PROVE  FALSE
  <2>1. i \in Nat /\ i > 0
    BY Constants DEF TypeOK, Issues, Init
  <2>. QED
    BY <1>2, <1>8, <2>1
<1>9. Counted
  <2>1. covered <= Cardinality(Behind0)
    <3>1. Cardinality(Behind0) \in Nat
      BY <1>1, CountedSets
    <3>. QED
      BY <1>2, <3>1
  <2>. QED
    BY <1>2, <1>8, <2>1 DEF Counted, Patching
<1>10. NothingMissed
  <2>1. \A i \in Issues : stored["issue"][i] = updated[i]
    BY <1>2 DEF Tables
  <2>. QED
    BY <2>1 DEF NothingMissed
<1>11. CheckedIsCovered /\ HistoryBehindCursor
  BY <1>2, <1>8 DEF CheckedIsCovered, HistoryBehindCursor
<1>. QED
  BY <1>1, <1>5, <1>6, <1>7, <1>9, <1>10, <1>11 DEF JiraInv

LEMMA JiraInvStep ==
  ASSUME JiraInv, [Next]_vars
  PROVE  JiraInv'
<1>1. /\ TypeOK /\ Forgotten /\ RowsKnown /\ Searched /\ Histories /\ Counted
      /\ ("busy" \notin faults => NothingMissed) /\ CheckedIsCovered /\ HistoryBehindCursor
  BY DEF JiraInv
<1>2. TypeOK' /\ Forgotten'
  BY <1>1, JiraTypeStep
<1>3. RowsKnown'
  BY <1>1, RowsKnownStep
<1>4. Searched'
  BY <1>1, <1>2, SearchedStep
<1>5. Histories'
  BY <1>1, <1>2, HistoriesStep
<1>6. Counted'
  BY <1>1, <1>2, CountedStep
<1>7. faults' = faults
  BY <1>1, CountingSteps
<1>8. "busy" \notin faults' => NothingMissed'
  BY <1>1, <1>2, <1>7, NothingMissedStep
<1>9. CheckedIsCovered'
  BY <1>1, <1>2, CheckedIsCoveredStep
<1>10. HistoryBehindCursor'
  BY <1>1, <1>2, HistoryBehindCursorStep
<1>. QED
  BY <1>2, <1>3, <1>4, <1>5, <1>6, <1>8, <1>9, <1>10 DEF JiraInv

LEMMA JiraInvariant == Spec => []JiraInv
<1>1. JiraInv /\ [Next]_vars => JiraInv'
  BY JiraInvStep
<1>. QED
  BY InitJiraInv, <1>1, PTL DEF Spec

(* The population of the note is behind the cursor when the count reaches  *)
(* the total.                                                              *)
LEMMA NoteIsHonest ==
  ASSUME TypeOK, Counted
  PROVE  NoteHonest
<1>. SUFFICES ASSUME "growth" \notin faults, NoteGone, NEW i \in patched
              PROVE  stored["jira_changelog"][i] > 0
  BY DEF NoteHonest
<1>1. /\ total = Cardinality(patched) /\ covered >= total /\ covered <= Cardinality(Behind0)
      /\ covered \in Nat
  BY DEF NoteGone, Counted, TypeOK
<1>2. /\ IsFiniteSet(patched) /\ Cardinality(patched) \in Nat
      /\ Cardinality(Behind0) \in Nat /\ Behind0 \in SUBSET patched
  BY CountedSets
<1>3. Cardinality(Behind0) = Cardinality(patched)
  <2>1. Cardinality(Behind0) <= Cardinality(patched)
    BY <1>2, FS_Subset
  <2>. QED
    BY <1>1, <1>2, <2>1
<1>4. Behind0 = patched
  <2>. HIDE DEF Behind0
  <2>. QED
    BY <1>2, <1>3, FS_Subset
<1>5. i <= cursor
  BY <1>4 DEF Behind0
<1>. QED
  BY <1>5 DEF Counted

(* TypeOK: no row, stored or fetched, is newer than its issue, nor a       *)
(* watermark later than the minute, in any stage of a run.                 *)
THEOREM TypeCorrect == Spec => []TypeOK
<1>1. JiraInv => TypeOK
  BY DEF JiraInv
<1>. QED
  BY <1>1, JiraInvariant, PTL

(* What the two backfills have recorded as done is done: as long as no     *)
(* issue is updated between the pages of a search, an issue marked as      *)
(* checked has its comments, an issue behind the cursor its history, or    *)
(* the search is still to bring them; and the note of the page that        *)
(* histories are missing goes only when none is, unless issues become      *)
(* Patch Available after the total was counted. Whatever fails, and        *)
(* wherever the process is killed.                                         *)
THEOREM BackfillsStayHonest == Spec => []BackfillsHonest
<1>1. JiraInv => BackfillsHonest
  BY NoteIsHonest DEF JiraInv, BackfillsHonest
<1>. QED
  BY <1>1, JiraInvariant, PTL

(* An update the next search will not ask for is stored, unless issues are *)
(* updated between the pages of a search.                                  *)
THEOREM NothingIsMissed == Spec => []("busy" \notin faults => NothingMissed)
<1>1. JiraInv => ("busy" \notin faults => NothingMissed)
  BY DEF JiraInv
<1>. QED
  BY <1>1, JiraInvariant, PTL

-----------------------------------------------------------------------------
(* The feed.                                                               *)

LEMMA SettledIsReadable ==
  ASSUME JiraInv, "busy" \notin faults
  PROVE  Settled \subseteq Readable
<1>. SUFFICES ASSUME NEW v \in Settled PROVE v \in Readable
  OBVIOUS
<1>1. v \in Versions /\ v[1] \in Issues /\ v[2] \in Times /\ v[2] <= updated[v[1]] /\ updated[v[1]] < Since
  BY DEF Settled, Versions
<1>2. stored["issue"][v[1]] = updated[v[1]]
  BY <1>1 DEF JiraInv, NothingMissed
<1>3. v[2] \in Nat /\ updated[v[1]] \in Nat
  BY <1>1, Values, Constants DEF JiraInv
<1>. QED
  BY <1>1, <1>2, <1>3 DEF Readable

LEMMA ReadableGrows ==
  ASSUME JiraInv, [Next]_vars
  PROVE  Readable \subseteq Readable'
<1>. SUFFICES ASSUME NEW v \in Readable PROVE v \in Readable'
  OBVIOUS
<1>1. v \in Versions /\ v[1] \in Issues /\ v[2] \in Times /\ stored["issue"][v[1]] >= v[2]
  BY DEF Readable, Versions
<1>2. TypeOK /\ "issue" \in Tables /\ v[2] \in Nat
  BY <1>1, Constants DEF JiraInv, Tables
<1>3. CASE stored' = stored
  BY <1>1, <1>3 DEF Readable
<1>4. CASE AnyWrite
  <2>1. /\ stored["issue"][v[1]] <= stored'["issue"][v[1]]
        /\ stored["issue"][v[1]] \in Nat /\ stored'["issue"][v[1]] \in Nat
    BY <1>1, <1>2, <1>4, AnyWriteIs, Values
  <2>2. stored'["issue"][v[1]] >= v[2]
    BY <1>1, <1>2, <2>1
  <2>. QED
    BY <1>1, <2>2 DEF Readable
<1>. QED
  BY <1>2, <1>3, <1>4, CountingSteps

Calm == "busy" \notin faults

(* As long as no issue is updated between the pages of a search, each step *)
(* of the collection is a delivery of the feed or none: what the next      *)
(* query will not ask for can be read, and nothing that could be read is   *)
(* lost, whatever else fails. JiraMissed shows what is excluded here.      *)
THEOREM ImplementsFeed == Spec /\ Calm => DeliversAtLeastOnce
<1>1. Init /\ Calm => Feed!FeedInit
  <2>. SUFFICES ASSUME Init, Calm PROVE Feed!FeedInit
    OBVIOUS
  <2>1. Settled \subseteq Readable
    BY InitJiraInv, SettledIsReadable DEF Calm
  <2>2. Readable \subseteq Versions
    BY DEF Readable
  <2>. QED
    BY <2>1, <2>2 DEF Feed!FeedInit
<1>2. JiraInv /\ Calm /\ [Next]_vars => Calm'
  BY CountingSteps DEF JiraInv, Calm
<1>3. JiraInv /\ Calm => Settled \subseteq Readable
  BY SettledIsReadable DEF Calm
<1>4. JiraInv' /\ Calm' => (Settled \subseteq Readable)'
  BY <1>3, PTL
<1>5. JiraInv /\ JiraInv' /\ Calm /\ [Next]_vars => [Feed!Deliver]_(Feed!feed)
  <2>. SUFFICES ASSUME JiraInv, JiraInv', Calm, [Next]_vars
                PROVE  Feed!Deliver
    BY DEF Feed!feed
  <2>1. Readable \subseteq Readable'
    BY ReadableGrows
  <2>2. Settled' \subseteq Readable'
    BY <1>2, <1>4
  <2>3. Readable' \subseteq Versions
    BY DEF Readable
  <2>. QED
    BY <2>1, <2>2, <2>3 DEF Feed!Deliver
<1>. QED
  BY <1>1, <1>2, <1>5, JiraInvariant, PTL DEF Spec, DeliversAtLeastOnce, Feed!FeedSpec

=============================================================================
