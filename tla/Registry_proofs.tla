--------------------------- MODULE Registry_proofs ---------------------------
(***************************************************************************)
(* Resolve returns only repositories the configuration asks for, whatever  *)
(* GitHub lists and whatever fails, when the exclude patterns spell their  *)
(* organizations as GitHub does.  It misses none of them, although the     *)
(* pages shift under it, when the include patterns do and nothing leaves a *)
(* listing.                                                                *)
(***************************************************************************)
EXTENDS Registry, FiniteSetTheorems, WellFoundedInduction, TLAPS

(* An organization is a spelling of itself.                                *)
LEMMA OwnAccount == \A r \in Repos : r[1] \in Orgs /\ Account[r[1]] = r[1]
BY RegistryAssumption DEF RegistryAssumption

(* While a listing is left, the current one is one of them.                *)
LEMMA CurrentIsLeft == todo # {} => Current \in todo
<1> SUFFICES ASSUME todo # {} PROVE Current \in todo
  OBVIOUS
<1>1. \E q \in todo : IsSearch(q) => \A k \in todo : IsSearch(k)
  <2>1. CASE \A k \in todo : IsSearch(k)
    BY <2>1
  <2>2. CASE \E k \in todo : ~IsSearch(k)
    BY <2>2
  <2> QED BY <2>1, <2>2
<1> QED BY <1>1 DEF Current

(* An entry that Resolve takes from a listing is wanted (the owner check   *)
(* of topics, the glob of include patterns).                               *)
LEMMA MatchedIsWanted ==
    ASSUME exists \subseteq Repos, NEW q \in Queries, NEW r \in Listing(q), matched(q, r)
    PROVE  r \in Wanted(exists, tagged)
<1>1. r \in exists /\ r \in Repos /\ r[1] = Account[q.org]
  BY DEF Listing
<1>2. CASE IsSearch(q)
  <2>1. q \in [topic : Topics, org : inScopeOrgs]
    BY <1>2 DEF Queries, IsSearch
  <2>2. r \in tagged[q.topic] /\ q.topic \in Topics
    BY <1>2, <2>1 DEF Listing
  <2>3. PICK p \in Include : p.org = r[1]
    BY <1>2 DEF matched, inScopeOrgs
  <2>4. Account[p.org] = r[1]
    BY <1>1, <2>3, OwnAccount
  <2> QED BY <1>1, <2>2, <2>3, <2>4 DEF Wanted
<1>3. CASE ~IsSearch(q)
  <2>1. q \in Include /\ r[2] \in q.glob
    BY <1>3 DEF IsSearch, matched
  <2> QED BY <1>1, <2>1 DEF Wanted
<1> QED BY <1>2, <1>3

(* What is left after the exclusions is not unwanted.                      *)
LEMMA ExcludedIsGone ==
    ASSUME Spelled, NEW repos \in SUBSET Repos PROVE exclude(repos) \subseteq repos \ Unwanted
<1> SUFFICES ASSUME NEW r \in exclude(repos) PROVE r \in repos \ Unwanted
  OBVIOUS
<1>1. r \in repos /\ r \in Repos
  BY DEF exclude
<1>2. ASSUME NEW p \in Exclude, Account[p.org] = r[1], r[2] \in p.glob PROVE FALSE
  <2>1. Account[p.org] = p.org
    BY RegistryAssumption DEF RegistryAssumption, Spelled
  <2> QED BY <1>2, <2>1 DEF exclude
<1> QED BY <1>1, <1>2 DEF Unwanted

(* Nothing has been taken when the run begins.                             *)
LEMMA InitInv == Init => IInv
BY DEF Init, IInv, TargetsAreWanted

(* Every request of Resolve takes wanted repositories only (ReadPage), and *)
(* what it returns is taken and not excluded (Resolve); changes by others  *)
(* add to what was wanted (Add, Delete, Tag).                              *)
LEMMA NextInv == ASSUME Spelled, IInv, [Next]_vars PROVE IInv'
<1> USE DEF IInv
<1>1. CASE ReadPage
  <2> DEFINE q == Current
  <2>1. q \in todo /\ q \in Queries
    BY <1>1, CurrentIsLeft DEF ReadPage
  <2>2. PICK got : /\ got \subseteq Page(q, page)
                   /\ repoMap' = repoMap \cup {r \in got : matched(q, r)}
                   /\ todo' \subseteq todo
    BY <1>1 DEF ReadPage
  <2>3. \A r \in got : matched(q, r) => r \in Wanted(exists, tagged) /\ r \in Repos
    <3>1. got \subseteq Listing(q) /\ Listing(q) \subseteq exists
      BY <2>2 DEF Page, Listing
    <3> QED BY <2>1, <3>1, MatchedIsWanted
  <2>4. UNCHANGED <<exists, tagged, ever, targets>>
    BY <1>1 DEF ReadPage, World
  <2>5. repoMap' \subseteq ever \cap Repos
    BY <2>2, <2>3
  <2> HIDE DEF q
  <2> QED BY <2>2, <2>4, <2>5 DEF TargetsAreWanted, Wanted
<1>2. CASE Resolve
  <2>1. targets' \subseteq ever \ Unwanted
    BY <1>2, ExcludedIsGone DEF Resolve
  <2> QED BY <1>2, <2>1 DEF Resolve, World, TargetsAreWanted, Wanted
<1>3. CASE PastSearch \/ FailedRequest
  BY <1>3 DEF PastSearch, FailedRequest, Fail, World, TargetsAreWanted, Wanted
<1>4. ASSUME NEW there \in SUBSET Repos, NEW tags, Change(there, tags) PROVE IInv'
  BY <1>4 DEF Change, TargetsAreWanted, Wanted
<1>5. CASE Add \/ Delete \/ Tag
  <2>1. CASE Add
    BY <1>4, <2>1 DEF Add
  <2>2. CASE Delete
    BY <1>4, <2>2 DEF Delete
  <2>3. CASE Tag
    BY <1>4, <2>3 DEF Tag
  <2> QED BY <1>5, <2>1, <2>2, <2>3
<1>6. CASE UNCHANGED vars
  BY <1>6 DEF vars, TargetsAreWanted, Wanted
<1> QED BY <1>1, <1>2, <1>3, <1>5, <1>6 DEF Next, Step

(* registry.go:86 and :107: every target is wanted and none is excluded,   *)
(* for any listings, patterns, topics, page size and failures (Resolve).   *)
THEOREM TargetsAreWantedHolds == ASSUME Spelled PROVE Spec => []TargetsAreWanted
<1>1. Init => IInv
  BY InitInv
<1>2. IInv /\ [Next]_vars => IInv'
  BY NextInv
<1>3. IInv => TargetsAreWanted
  BY DEF IInv
<1> QED BY <1>1, <1>2, <1>3, PTL DEF Spec

-----------------------------------------------------------------------------
(* Pages.                                                                  *)

(* A set of numbers has a least one.                                       *)
LEMMA HasLeast ==
    ASSUME NEW T \in SUBSET Nat, T # {} PROVE \E m \in T : \A k \in T : m <= k
<1> DEFINE R == OpToRel(<, Nat)
<1>1. IsWellFoundedOn(R, Nat)
  BY NatLessThanWellFounded
<1>2. \A x, y \in Nat : y < x => <<y, x>> \in R
  BY DEF OpToRel
<1> HIDE DEF R
<1>3. PICK m \in T : \A k \in T : ~ (<<k, m>> \in R)
  BY <1>1, WFMin
<1>4. ASSUME NEW k \in T, ~(m <= k) PROVE FALSE
  <2>1. k \in Nat /\ m \in Nat /\ k < m
    BY <1>4
  <2> QED
    BY <1>2, <1>3, <2>1
<1> QED
  BY <1>4

(* What is newer than r in a listing, and how many that are.               *)
Newer(L, r) == {s \in L : s[2] > r[2]}
Rank(L, r) == Cardinality(Newer(L, r))

(* A listing: repositories of one organization.                            *)
OneOrg(L) == /\ L \subseteq Orgs \X Nat /\ IsFiniteSet(L)
             /\ \A r, s \in L : r[1] = s[1]

LEMMA RankTyped ==
    ASSUME NEW L, IsFiniteSet(L), NEW r
    PROVE  /\ Rank(L, r) \in Nat /\ IsFiniteSet(Newer(L, r))
           /\ r \in L /\ r[2] \in Nat => Rank(L, r) < Cardinality(L)
<1>1. Newer(L, r) \subseteq L
  BY DEF Newer
<1>2. IsFiniteSet(Newer(L, r)) /\ Rank(L, r) \in Nat
  BY <1>1, FS_Subset, FS_CardinalityType DEF Rank
<1>3. ASSUME r \in L, r[2] \in Nat PROVE Rank(L, r) < Cardinality(L)
  <2>1. Newer(L, r) \subseteq L \ {r}
    BY <1>3 DEF Newer
  <2>2. IsFiniteSet(L \ {r}) /\ Cardinality(L \ {r}) = Cardinality(L) - 1
    BY <1>3, FS_RemoveElement
  <2>3. Rank(L, r) <= Cardinality(L \ {r})
    BY <2>1, <2>2, FS_Subset DEF Rank
  <2>4. Cardinality(L) \in Nat
    BY FS_CardinalityType
  <2> QED
    BY <1>2, <2>2, <2>3, <2>4
<1> QED
  BY <1>2, <1>3

(* Repositories that come push older ones back, and never forward.         *)
LEMMA RankGrows ==
    ASSUME NEW L, NEW M, IsFiniteSet(M), L \subseteq M, NEW r
    PROVE  Rank(L, r) <= Rank(M, r)
<1>1. Newer(L, r) \subseteq Newer(M, r) /\ Newer(M, r) \subseteq M
  BY DEF Newer
<1>2. IsFiniteSet(Newer(M, r))
  BY <1>1, FS_Subset
<1> QED
  BY <1>1, <1>2, FS_Subset DEF Rank

(* The next newer one is one place ahead.                                  *)
LEMMA OnePlaceAhead ==
    ASSUME NEW L, OneOrg(L), NEW r \in L, Rank(L, r) # 0
    PROVE  \E s \in L : Rank(L, s) = Rank(L, r) - 1
<1> DEFINE T == {s[2] : s \in Newer(L, r)}
<1>1. \A s \in L : s \in Orgs \X Nat /\ s[2] \in Nat /\ s = <<s[1], s[2]>>
  BY DEF OneOrg
<1>2. IsFiniteSet(Newer(L, r)) /\ Rank(L, r) \in Nat
  BY RankTyped DEF OneOrg
<1>3. Newer(L, r) # {}
  BY FS_EmptySet DEF Rank
<1>4. T \subseteq Nat /\ T # {}
  BY <1>1, <1>3 DEF Newer
<1>5. PICK s \in Newer(L, r) : \A x \in Newer(L, r) : s[2] <= x[2]
  <2>1. PICK m \in T : \A k \in T : m <= k
    <3> HIDE DEF T
    <3> QED
      BY <1>4, HasLeast
  <2> QED
    BY <2>1
<1>6. s \in L /\ s[2] > r[2]
  BY DEF Newer
<1>7. Newer(L, s) = Newer(L, r) \ {s}
  <2>1. ASSUME NEW x \in Newer(L, s) PROVE x \in Newer(L, r) \ {s}
    BY <1>1, <1>6, <2>1 DEF Newer
  <2>2. ASSUME NEW x \in Newer(L, r), x # s PROVE x \in Newer(L, s)
    <3>1. x \in L /\ s[2] <= x[2] /\ x[2] \in Nat /\ s[2] \in Nat
      BY <1>1, <1>5, <1>6 DEF Newer
    <3>2. x[1] = s[1]
      BY <1>6, <3>1 DEF OneOrg
    <3>3. x[2] # s[2]
      BY <1>1, <1>6, <2>2, <3>1, <3>2
    <3> QED
      BY <3>1, <3>3 DEF Newer
  <2> QED
    BY <2>1, <2>2
<1>8. Rank(L, s) = Rank(L, r) - 1
  BY <1>2, <1>7, FS_RemoveElement DEF Rank
<1> QED
  BY <1>6, <1>8

(* Every place ahead of r is taken.                                        *)
LEMMA PlacesTaken ==
    ASSUME NEW L, OneOrg(L), NEW r \in L, NEW k \in Nat, k <= Rank(L, r)
    PROVE  \E s \in L : Rank(L, s) = k
<1> DEFINE T == {n \in Nat : n >= k /\ \E s \in L : Rank(L, s) = n}
<1>1. \A s \in L : Rank(L, s) \in Nat
  BY RankTyped DEF OneOrg
<1>2. Rank(L, r) \in T
  BY <1>1
<1>3. PICK m \in T : \A n \in T : m <= n
  <2> HIDE DEF T
  <2>1. T \subseteq Nat
    BY DEF T
  <2> QED
    BY <1>2, <2>1, HasLeast
<1>4. PICK s \in L : Rank(L, s) = m
  OBVIOUS
<1>5. ASSUME m # k PROVE FALSE
  <2>1. m - 1 \in Nat /\ m - 1 >= k /\ m # 0
    BY <1>5
  <2>2. \E x \in L : Rank(L, x) = m - 1
    BY <1>4, <2>1, OnePlaceAhead
  <2>3. m - 1 \in T
    BY <2>1, <2>2
  <2> QED
    BY <1>3, <2>3
<1> QED
  BY <1>4, <1>5

(* What page p holds.                                                      *)
LEMMA PageBounds ==
    ASSUME NEW n \in Nat, NEW size \in Nat \ {0}, NEW p \in Nat \ {0}
    PROVE  n \div size = p - 1 <=> (p - 1) * size <= n /\ n < p * size
OBVIOUS

(* A page that is not the last one is full.                                *)
LEMMA PageIsFull ==
    ASSUME NEW L, OneOrg(L), NEW r \in L, NEW p \in Nat \ {0}, Rank(L, r) >= p * PageSize,
           NEW got, got = {s \in L : Rank(L, s) \div PageSize = p - 1}
    PROVE  AnotherPage(got)
<1> DEFINE I == (p - 1) * PageSize .. p * PageSize - 1
           f == [s \in got |-> Rank(L, s)]
<1>1. PageSize \in Nat \ {0}
  BY RegistryAssumption DEF RegistryAssumption
<1>2. (p - 1) * PageSize \in Nat /\ p * PageSize \in Nat /\ p * PageSize = (p - 1) * PageSize + PageSize
  BY <1>1
<1>3. \A s \in L : Rank(L, s) \in Nat
  BY RankTyped DEF OneOrg
<1>4. \A s \in L : s \in got <=> Rank(L, s) \in I
  <2> SUFFICES ASSUME NEW s \in L PROVE s \in got <=> Rank(L, s) \in I
    OBVIOUS
  <2>1. Rank(L, s) \div PageSize = p - 1
          <=> (p - 1) * PageSize <= Rank(L, s) /\ Rank(L, s) < p * PageSize
    BY <1>1, <1>3, PageBounds
  <2> QED
    BY <1>2, <1>3, <2>1
<1>5. got \subseteq L /\ IsFiniteSet(got)
  BY FS_Subset DEF OneOrg
<1>6. \A k \in I : \E s \in got : Rank(L, s) = k
  <2> SUFFICES ASSUME NEW k \in I PROVE \E s \in got : Rank(L, s) = k
    OBVIOUS
  <2>1. k \in Nat /\ k <= Rank(L, r)
    BY <1>2, <1>3
  <2>2. PICK s \in L : Rank(L, s) = k
    BY <2>1, PlacesTaken
  <2> QED
    BY <1>4, <2>2
<1>7. f \in Surjection(got, I)
  <2>1. f \in [got -> I]
    BY <1>4, <1>5
  <2>2. \A k \in I : \E s \in got : f[s] = k
    BY <1>6
  <2> HIDE DEF f, I
  <2> QED
    BY <2>1, <2>2 DEF Surjection
<1>8. Cardinality(I) <= Cardinality(got)
  <2> HIDE DEF f, I
  <2> QED
    BY <1>5, <1>7, FS_Surjection
<1>9. Cardinality(I) = PageSize
  <2>1. PICK a \in Int, b \in Int : a = (p - 1) * PageSize /\ b = p * PageSize - 1
    BY <1>2
  <2>2. I = a..b
    BY <2>1
  <2>3. b = a + PageSize - 1 /\ a \in Int /\ b \in Int
    <3>1. PICK c \in Nat : c = p * PageSize
      BY <1>2
    <3>2. c = a + PageSize /\ b = c - 1
      BY <1>2, <2>1, <3>1
    <3> QED
      BY <1>1, <3>1, <3>2
  <2>4. Cardinality(a..b) = IF a > b THEN 0 ELSE b - a + 1
    BY FS_Interval
  <2> HIDE DEF I
  <2> QED
    BY <1>1, <2>2, <2>3, <2>4
<1>10. Cardinality(got) \in Nat
  BY <1>5, FS_CardinalityType
<1> QED
  BY <1>1, <1>8, <1>9, <1>10 DEF AnotherPage

-----------------------------------------------------------------------------
(* Types.                                                                  *)

LEMMA Listed ==
    ASSUME exists \subseteq Repos, NEW q
    PROVE  OneOrg(Listing(q)) /\ Listing(q) \subseteq exists
<1>1. Listing(q) \subseteq exists /\ \A r, s \in Listing(q) : r[1] = s[1]
  BY DEF Listing
<1>2. Repos \subseteq Orgs \X Nat /\ IsFiniteSet(Repos)
  BY RegistryAssumption DEF RegistryAssumption
<1>3. IsFiniteSet(Listing(q))
  BY <1>1, <1>2, FS_Subset
<1> QED
  BY <1>1, <1>2, <1>3 DEF OneOrg

(* A page is the repositories in its places.                               *)
LEMMA PageOf == ASSUME NEW q, NEW p
                PROVE Page(q, p) = {s \in Listing(q) : Rank(Listing(q), s) \div PageSize = p - 1}
BY DEF Page, Rank, Newer

(* Resolve asks for no more pages than there are repositories, and one.    *)
LEMMA PagesEnd ==
    ASSUME TypeOK, NEW q, NEW got \in SUBSET Page(q, page), AnotherPage(got)
    PROVE  page + 1 \in 1..Cardinality(Repos) + 1
<1> DEFINE L == Listing(q)
<1>1. OneOrg(L) /\ L \subseteq Repos /\ IsFiniteSet(Repos) /\ PageSize \in Nat \ {0}
  BY Listed, RegistryAssumption DEF TypeOK, RegistryAssumption
<1>2. got \subseteq L /\ IsFiniteSet(got)
  <2>1. got \subseteq L
    BY DEF Page
  <2> QED
    BY <1>1, <2>1, FS_Subset DEF OneOrg
<1>3. PICK r \in got : TRUE
  <2>1. got # {}
    BY <1>1, FS_EmptySet DEF AnotherPage
  <2> QED
    BY <2>1
<1>4. /\ Rank(L, r) \in Nat /\ Rank(L, r) < Cardinality(L)
      /\ Cardinality(L) \in Nat /\ Cardinality(L) <= Cardinality(Repos)
      /\ Cardinality(Repos) \in Nat
  <2>1. r \in L /\ r[2] \in Nat /\ IsFiniteSet(L)
    BY <1>1, <1>2 DEF OneOrg
  <2> HIDE DEF L
  <2> QED
    BY <1>1, <2>1, RankTyped, FS_Subset, FS_CardinalityType
<1>5. page \in Nat \ {0}
  BY <1>4 DEF TypeOK
<1>6. (page - 1) * PageSize <= Rank(L, r)
  <2>1. Rank(L, r) \div PageSize = page - 1
    BY PageOf
  <2> HIDE DEF L
  <2> QED
    BY <1>1, <1>4, <1>5, <2>1, PageBounds
<1>7. page - 1 <= (page - 1) * PageSize
  BY <1>1, <1>5
<1>8. (page - 1) * PageSize \in Nat
  BY <1>1, <1>5
<1> HIDE DEF L
<1> QED
  BY <1>4, <1>5, <1>6, <1>7, <1>8

LEMMA WantedTyped == ASSUME NEW there, there \subseteq Repos, NEW tags
                     PROVE Wanted(there, tags) \subseteq Repos
BY DEF Wanted

LEMMA TypeInit == Init => TypeOK
<1> SUFFICES ASSUME Init PROVE TypeOK
  OBVIOUS
<1>1. 0 \in 0..MaxChanges /\ Cardinality(Repos) \in Nat
  BY RegistryAssumption, FS_CardinalityType DEF RegistryAssumption
<1>2. first \subseteq Repos /\ ever = first /\ repoMap = {} /\ targets = {}
  BY WantedTyped DEF Init
<1>3. page \in 1..Cardinality(Repos) + 1
  BY <1>1 DEF Init
<1> QED
  BY <1>1, <1>2, <1>3 DEF Init, TypeOK

LEMMA TypeNext == TypeOK /\ [Next]_vars => TypeOK'
<1> SUFFICES ASSUME TypeOK, [Next]_vars PROVE TypeOK'
  OBVIOUS
<1> USE DEF TypeOK
<1>1. Cardinality(Repos) \in Nat /\ MaxChanges \in Nat /\ Taggable \subseteq Repos
  BY RegistryAssumption, FS_CardinalityType DEF RegistryAssumption
<1>2. CASE ReadPage
  <2>1. PICK got : /\ got \subseteq Page(Current, page)
                   /\ repoMap' = repoMap \cup {r \in got : matched(Current, r)}
                   /\ \/ AnotherPage(got) /\ page' = page + 1 /\ todo' = todo
                      \/ page' = 1 /\ todo' = todo \ {Current}
    BY <1>2 DEF ReadPage, NextPage
  <2>2. page' \in 1..Cardinality(Repos) + 1
    BY <1>1, <2>1, PagesEnd
  <2>3. repoMap' \subseteq Repos
    BY <2>1 DEF Page, Listing
  <2>4. todo' \subseteq todo
    BY <2>1
  <2> QED
    BY <1>2, <2>2, <2>3, <2>4 DEF ReadPage, World
<1>3. CASE Resolve
  BY <1>3 DEF Resolve, World, exclude
<1>4. CASE PastSearch \/ FailedRequest
  BY <1>4 DEF PastSearch, FailedRequest, Fail, World
<1>5. ASSUME NEW there \in SUBSET Repos, NEW tags \in [Topics -> SUBSET Taggable],
             Change(there, tags)
      PROVE  TypeOK'
  <2>1. changes' \in 0..MaxChanges
    BY <1>1, <1>5 DEF Change
  <2> QED
    BY <1>5, <2>1, WantedTyped DEF Change
<1>6. CASE Add \/ Delete
  BY <1>5, <1>6 DEF Add, Delete
<1>7. CASE Tag
  BY <1>5, <1>7 DEF Tag
<1>8. CASE UNCHANGED vars
  BY <1>8 DEF vars
<1> QED
  BY <1>2, <1>3, <1>4, <1>6, <1>7, <1>8 DEF Next, Step

(* Types, and with them a bound on the pages Resolve asks for (ListByOrg,  *)
(* ListByTopic): a page after the last repository is empty, so it is the   *)
(* last page.                                                              *)
THEOREM TypeHolds == Spec => []TypeOK
<1> QED
  BY TypeInit, TypeNext, PTL DEF Spec

-----------------------------------------------------------------------------
(* Nothing is missed.                                                      *)

(* The include patterns name organizations as GitHub does, and a search    *)
(* that is answered is answered in whole.                                  *)
Answered == (\A p \in Include : p.org \in Orgs) /\ "search" \notin Faulty

(* r is still to come: a listing that is left has it, on a page that has   *)
(* not been read.                                                          *)
Unread(q, r) == /\ r \in Listing(q) /\ matched(q, r)
                /\ q = Current => Rank(Listing(q), r) >= (page - 1) * PageSize
MissInv == ~left /\ phase # "failed" =>
    /\ \A r \in first : r \in repoMap \/ \E q \in todo : Unread(q, r)
    /\ phase = "done" => todo = {} /\ targets = exclude(repoMap)

(* Every wanted repository is in a listing that takes it.                  *)
LEMMA WantedIsListed ==
    ASSUME Answered, TypeOK, NEW r \in Wanted(exists, tagged)
    PROVE  \E q \in Queries : r \in Listing(q) /\ matched(q, r)
<1>1. PICK p \in Include : /\ Account[p.org] = r[1]
                           /\ r[2] \in p.glob \/ \E t \in Topics : r \in tagged[t]
  BY DEF Wanted
<1>2. r \in exists
  BY DEF Wanted
<1>3. CASE r[2] \in p.glob
  BY <1>1, <1>2, <1>3 DEF Queries, Listing, IsSearch, matched
<1>4. ASSUME NEW t \in Topics, r \in tagged[t]
      PROVE  \E q \in Queries : r \in Listing(q) /\ matched(q, r)
  <2> DEFINE q == [topic |-> t, org |-> p.org]
  <2>1. q \in Queries
    BY DEF Queries, inScopeOrgs
  <2>2. q \notin Include
    <3>1. \A x \in Include : DOMAIN x = {"org", "glob"}
      BY RegistryAssumption DEF RegistryAssumption
    <3>2. "topic" \in DOMAIN q
      OBVIOUS
    <3> QED
      BY <3>1, <3>2
  <2>3. r[1] = p.org
    BY <1>1, RegistryAssumption DEF RegistryAssumption, Answered
  <2> QED
    BY <1>1, <1>2, <1>4, <2>1, <2>2, <2>3 DEF Listing, IsSearch, matched, inScopeOrgs
<1> QED
  BY <1>1, <1>3, <1>4

LEMMA MissInit == ASSUME Answered PROVE Init => MissInv
<1> SUFFICES ASSUME Init PROVE MissInv
  OBVIOUS
<1>1. TypeOK
  BY TypeInit
<1>2. ASSUME NEW r \in first PROVE \E q \in todo : Unread(q, r)
  <2>1. PICK q \in Queries : r \in Listing(q) /\ matched(q, r)
    BY <1>1, WantedIsListed DEF Init
  <2>2. Rank(Listing(q), r) \in Nat
    BY <1>1, Listed, RankTyped DEF TypeOK, OneOrg
  <2>3. (page - 1) * PageSize = 0
    BY RegistryAssumption DEF RegistryAssumption, Init
  <2> QED
    BY <2>1, <2>2, <2>3 DEF Unread, Init
<1> QED
  BY <1>2 DEF MissInv, Init

(* Others change a listing: what is in it moves back, or stays.            *)
LEMMA ChangeMisses ==
    ASSUME TypeOK, MissInv, NEW there \in SUBSET Repos, NEW tags, DOMAIN tags = DOMAIN tagged,
           Change(there, tags)
    PROVE  MissInv'
<1> SUFFICES ASSUME ~left' PROVE MissInv'
  BY DEF MissInv
<1>1. /\ ~left /\ exists \subseteq exists' /\ exists' \subseteq Repos
      /\ \A t \in Topics : tagged[t] \subseteq tagged'[t]
  BY DEF Change, TypeOK
<1>2. phase = "listing" /\ UNCHANGED <<phase, todo, page, repoMap, targets, first>>
  BY DEF Change
<1>3. ASSUME NEW r \in first, NEW q \in todo, Unread(q, r) PROVE Unread(q, r)'
  <2>1. Listing(q) \subseteq Listing(q)'
    <3>1. IsSearch(q) => q.topic \in Topics
      BY DEF TypeOK, Queries, IsSearch
    <3> QED
      BY <1>1, <3>1 DEF Listing, IsSearch
  <2>2. OneOrg(Listing(q)) /\ OneOrg(Listing(q)')
    <3>1. OneOrg(Listing(q))
      BY Listed DEF TypeOK
    <3>2. Listing(q)' \subseteq Repos /\ \A s, x \in Listing(q)' : s[1] = x[1]
      BY <1>1 DEF Listing
    <3>3. Repos \subseteq Orgs \X Nat /\ IsFiniteSet(Repos)
      BY RegistryAssumption DEF RegistryAssumption
    <3>4. IsFiniteSet(Listing(q)')
      BY <3>2, <3>3, FS_Subset
    <3> QED
      BY <3>1, <3>2, <3>3, <3>4 DEF OneOrg
  <2>3. Rank(Listing(q), r) <= Rank(Listing(q)', r)
    BY <2>1, <2>2, RankGrows DEF OneOrg
  <2>4. Rank(Listing(q), r) \in Nat /\ Rank(Listing(q)', r) \in Nat
    BY <2>2, RankTyped DEF OneOrg
  <2>5. Current' = Current /\ matched(q, r)' = matched(q, r)
    BY <1>2 DEF Current, matched, IsSearch
  <2>6. (page - 1) * PageSize \in Int
    <3>1. page \in Int /\ PageSize \in Int
      BY FS_CardinalityType, RegistryAssumption DEF TypeOK, RegistryAssumption
    <3> QED
      BY <3>1
  <2> QED
    BY <1>2, <1>3, <2>1, <2>3, <2>4, <2>5, <2>6 DEF Unread
<1> QED
  BY <1>1, <1>2, <1>3 DEF MissInv

(* Resolve reads a page: what is wanted on it is taken, and what is behind *)
(* it is on a page Resolve asks for next, for this page is full.           *)
LEMMA ReadPageMisses == ASSUME Answered, TypeOK, MissInv, ReadPage PROVE MissInv'
<1> SUFFICES ASSUME ~left PROVE MissInv'
  BY DEF MissInv, ReadPage, World
<1> DEFINE q == Current
           L == Listing(q)
           got == Page(q, page)
<1>1. /\ repoMap' = repoMap \cup {r \in got : matched(q, r)}
      /\ IF AnotherPage(got) THEN page' = page + 1 /\ todo' = todo
                             ELSE page' = 1 /\ todo' = todo \ {q}
  BY DEF ReadPage, Answered, NextPage
<1>2. phase = "listing" /\ phase' = phase /\ UNCHANGED <<exists, tagged, first>>
  BY DEF ReadPage, World
<1>3. OneOrg(L) /\ PageSize \in Nat \ {0} /\ page \in Nat \ {0}
  <2>1. OneOrg(L)
    BY Listed DEF TypeOK
  <2>2. Cardinality(Repos) \in Nat /\ PageSize \in Nat \ {0}
    BY FS_CardinalityType, RegistryAssumption DEF RegistryAssumption
  <2> QED
    BY <2>1, <2>2 DEF TypeOK
<1>4. \A x, r : Listing(x)' = Listing(x) /\ (matched(x, r)' <=> matched(x, r))
  BY <1>2 DEF Listing, IsSearch, matched
<1>5. \A x, r : r \in Listing(x) => Rank(Listing(x), r) \in Nat
  BY Listed, RankTyped DEF TypeOK, OneOrg
<1>6. ASSUME NEW r \in first, NEW x \in todo, Unread(x, r), x # q
      PROVE  \E y \in todo' : Unread(y, r)'
  <2>1. x \in todo'
    BY <1>1, <1>6
  <2>2. CASE AnotherPage(got)
    <3>1. Current' = Current
      BY <1>1, <2>2 DEF Current, IsSearch
    <3> QED
      BY <1>4, <1>6, <2>1, <3>1 DEF Unread
  <2>3. CASE ~AnotherPage(got)
    <3>1. (page' - 1) * PageSize = 0
      BY <1>1, <1>3, <2>3
    <3>2. r \in Listing(x) /\ matched(x, r)
      BY <1>6 DEF Unread
    <3>3. Unread(x, r)'
      BY <1>4, <1>5, <3>1, <3>2 DEF Unread
    <3> QED
      BY <2>1, <3>3
  <2> QED
    BY <2>2, <2>3
<1>7. ASSUME NEW r \in first, q \in todo, Unread(q, r), r \notin repoMap'
      PROVE  \E y \in todo' : Unread(y, r)'
  <2>1. r \in L /\ matched(q, r) /\ Rank(L, r) >= (page - 1) * PageSize
    BY <1>7 DEF Unread
  <2>2. Rank(L, r) \in Nat /\ (page - 1) * PageSize \in Nat /\ page * PageSize \in Nat
    BY <1>3, <1>5, <2>1
  <2>3. got = {s \in L : Rank(L, s) \div PageSize = page - 1}
    BY PageOf
  <2>4. Rank(L, r) >= page * PageSize
    <3>1. r \notin got
      BY <1>1, <1>7, <2>1
    <3>2. ~(Rank(L, r) \div PageSize = page - 1)
      BY <2>1, <2>3, <3>1
    <3>3. PICK n \in Nat : n = Rank(L, r)
      BY <2>2
    <3>4. n \div PageSize = page - 1 <=> (page - 1) * PageSize <= n /\ n < page * PageSize
      BY <1>3, PageBounds
    <3>5. ~(n < page * PageSize)
      BY <2>1, <3>2, <3>3, <3>4
    <3> HIDE DEF L
    <3> QED
      BY <2>2, <3>3, <3>5
  <2>5. AnotherPage(got)
    <3> HIDE DEF L, got
    <3> QED
      BY <1>3, <2>1, <2>3, <2>4, PageIsFull
  <2>6. page' = page + 1 /\ todo' = todo /\ Current' = q
    BY <1>1, <2>5 DEF Current, IsSearch
  <2>7. (page' - 1) * PageSize = page * PageSize
    BY <1>3, <2>6
  <2>8. Unread(q, r)'
    BY <1>4, <2>1, <2>4, <2>6, <2>7 DEF Unread
  <2> QED
    BY <1>7, <2>6, <2>8
<1>8. ASSUME NEW r \in first PROVE r \in repoMap' \/ \E y \in todo' : Unread(y, r)'
  <2>1. r \in repoMap \/ \E x \in todo : Unread(x, r)
    BY <1>2 DEF MissInv
  <2> QED
    BY <1>1, <1>6, <1>7, <2>1
<1> QED
  BY <1>2, <1>8 DEF MissInv

LEMMA MissNext == ASSUME Answered PROVE TypeOK /\ MissInv /\ [Next]_vars => MissInv'
<1> SUFFICES ASSUME TypeOK, MissInv, [Next]_vars PROVE MissInv'
  OBVIOUS
<1>1. CASE ReadPage
  BY <1>1, ReadPageMisses
<1>2. CASE Resolve
  BY <1>2 DEF Resolve, World, MissInv
<1>3. CASE PastSearch \/ FailedRequest
  BY <1>3 DEF PastSearch, FailedRequest, Fail, MissInv
<1>4. CASE Add \/ Delete
  BY <1>4, ChangeMisses DEF Add, Delete, TypeOK
<1>5. CASE Tag
  BY <1>5, ChangeMisses DEF Tag, TypeOK
<1>6. CASE UNCHANGED vars
  <2>1. ASSUME NEW q, NEW r PROVE Unread(q, r)' <=> Unread(q, r)
    <3>1. Listing(q)' = Listing(q) /\ Current' = Current /\ matched(q, r)' = matched(q, r)
      BY <1>6 DEF vars, Listing, Current, IsSearch, matched
    <3> QED
      BY <1>6, <3>1 DEF vars, Unread
  <2> QED
    BY <1>6, <2>1 DEF vars, MissInv
<1> QED
  BY <1>1, <1>2, <1>3, <1>4, <1>5, <1>6 DEF Next, Step

(* What is excluded is unwanted, however the pattern spells it.            *)
LEMMA OnlyUnwantedExcluded ==
    ASSUME NEW repos \in SUBSET Repos PROVE repos \ Unwanted \subseteq exclude(repos)
BY OwnAccount DEF Unwanted, exclude

(* Resolve misses no repository that was wanted from the beginning, while  *)
(* others come and push it from page to page, for any number of            *)
(* repositories, topics, page size and failed requests, when nothing       *)
(* leaves a listing meanwhile and the include patterns name organizations  *)
(* as GitHub does (ListByOrg, ListByTopic).                                *)
THEOREM NothingMissedHolds == ASSUME Answered PROVE Spec => []NothingMissed
<1>1. Init => MissInv
  BY MissInit
<1>2. TypeOK /\ MissInv /\ [Next]_vars => MissInv'
  BY MissNext
<1>3. TypeOK /\ MissInv => NothingMissed
  BY OnlyUnwantedExcluded DEF TypeOK, MissInv, NothingMissed
<1> QED
  BY <1>1, <1>2, <1>3, TypeHolds, PTL DEF Spec
=============================================================================
