--------------------------- MODULE CatalogProofs ---------------------------
(***************************************************************************)
(* For any rows, filters, profiles, sizes and runs: the state stays well   *)
(* typed, paging neither repeats a row nor skips one that was there, the   *)
(* best candidates are recommended, and totals cover the counts by type.   *)
(*                                                                         *)
(* All of it rests on what a commit of another transaction may not do: it  *)
(* takes no row away and changes no created_at.  So a cursor, once made,   *)
(* separates what has been shown from what is still to be shown, whatever  *)
(* is inserted on either side of it.                                       *)
(***************************************************************************)
EXTENDS Catalog, FiniteSetTheorems, TLAPS

\* Only a listing has pages; the first has no cursor, and a cursor is beyond
\* none of what has been shown.
Paged ==
  /\ doing \notin {"listing", "listed"} => cursor = None /\ seen = {} /\ page = {}
  /\ doing = "listing" /\ cursor = None => seen = {} /\ page = {}
  /\ cursor # None => \A r \in seen \cup page : ~Beyond(cursor, r)

\* What has been there and fits since is shown or still found.
StillFound == doing = "listing" => steady \subseteq seen \cup page \cup Found

\* Left out of a full pool, for rows as recent.
PassedOver(r) ==
  /\ r \notin DOMAIN pool /\ Cardinality(DOMAIN pool) = PoolSize
  /\ \A q \in DOMAIN pool : At(q) >= At(r)

\* A candidate that has been there since is in the pool as it is.
Pooled ==
  /\ doing \in {"scoring", "ranking"} => size = AnswerSize
  /\ doing = "ranking" =>
       \A r \in steady \cap Active :
         (r \in DOMAIN pool /\ pool[r] = Is(r)) \/ PassedOver(r)

Sum == counts.types["hackathon"] + counts.types["competition"]
       + counts.types["internship"] + counts.types["full_time_job"]
       + counts.types["research_program"]

Covered == doing = "totalling" => Sum <= Cardinality(There)

IInv ==
  /\ TypeOK
  /\ Paged /\ NoRowTwice /\ StillFound /\ NothingOldIsSkipped
  /\ Pooled /\ RecommendsTheBest
  /\ Covered /\ TotalsCoverTypes

-----------------------------------------------------------------------------
USE CatalogAssumption, NoneAssumption

(* The operators of the model                                              *)

\* What is there has a time and a content.
LEMMA ThereType ==
  ASSUME TypeOK, NEW r \in There
  PROVE  /\ r \in Rows /\ r \in Nat /\ table[r] \in Versions
         /\ At(r) \in Nat /\ At(r) \in 0 .. MaxTime /\ Is(r) \in Contents
<1>1. r \in Rows /\ table[r] \in Versions
  BY DEF There, TypeOK
<1>2. QED
  BY <1>1 DEF Versions, At, Is

\* Sets of rows can be counted.
LEMMA CountRows ==
  ASSUME NEW S \in SUBSET Rows
  PROVE  /\ IsFiniteSet(S) /\ Cardinality(S) \in Nat
         /\ \A T \in SUBSET S : /\ Cardinality(T) <= Cardinality(S)
                               /\ Cardinality(T) = Cardinality(S) => T = S
  BY FS_Subset, FS_CardinalityType

\* order by ... limit n gives all there is, or n of it.
LEMMA AllOrMany ==
  ASSUME NEW S \in SUBSET Rows, NEW T \in SUBSET S, NEW n \in Nat,
         Cardinality(T) = Least(n, Cardinality(S))
  PROVE  T = S \/ (Cardinality(T) = n /\ Cardinality(S) > n)
  BY CountRows DEF Least

\* Newer orders rows.
LEMMA NewerOrders ==
  ASSUME TypeOK
  PROVE  /\ \A r \in There : ~Newer(r, r)
         /\ \A r, q \in There : r # q => Newer(r, q) \/ Newer(q, r)
         /\ \A r, q, s \in There : Newer(r, q) /\ Newer(q, s) => Newer(r, s)
<1>1. \A r \in There : r \in Nat /\ At(r) \in Nat
  BY ThereType
<1>2. QED
  BY <1>1 DEF Newer

\* A cursor taken from a row cuts the order at that row.
LEMMA CursorCuts ==
  ASSUME TypeOK, NEW last \in There, NEW r \in There
  PROVE  Beyond([at |-> At(last), id |-> last], r) <=> Newer(last, r)
<1>1. /\ r \in Nat /\ At(r) \in Nat /\ last \in Nat /\ At(last) \in Nat
  BY ThereType
<1>2. QED
  BY <1>1 DEF Beyond, Newer

\* A score is a number of at most 100 points.
LEMMA ScoreType ==
  ASSUME NEW p, NEW c, NEW tags, IsFiniteSet(tags)
  PROVE  Score(p, c, tags) \in 0 .. 100
<1>1. Cardinality(Matched(p, tags)) \in Nat
  BY FS_Subset, FS_CardinalityType DEF Matched
<1>2. PICK n \in 0 .. SKILL_CAP : n = Least(Cardinality(Matched(p, tags)), SKILL_CAP)
  BY <1>1 DEF Least
<1>3. (n * SKILL_WEIGHT) \div SKILL_CAP \in 0 .. 60
  <2>1. n * 60 <= SKILL_CAP * 60 /\ n * 60 \in Nat
    BY <1>2
  <2>2. QED
    BY <2>1 DEF SKILL_WEIGHT
<1>4. QED
  BY <1>2, <1>3 DEF Score, COUNTRY_WEIGHT, REMOTE_WEIGHT

\* What a commit of a run may do to what readers see: rows stay, and so do
\* their times; the steady ones still fit.
LEMMA CommitFacts ==
  ASSUME TypeOK, NEW t \in 0 .. MaxTime, Commit(t)
  PROVE  /\ table' \in [Rows -> Versions \cup {None}]
         /\ There \subseteq There'
         /\ \A r \in There : At(r)' = At(r)
         /\ steady' \subseteq steady
         /\ \A r \in steady' :
              IF doing = "listing"
              THEN Is(r)' = Is(r) \/ Matches(query, Is(r)')
              ELSE Is(r)' = Is(r)
<1>1. PICK S \in SUBSET Rows : \E w \in [S -> Contents] :
        /\ table' = After(w, t)
        /\ steady' = {r \in steady : r \in S => Fits(r, w[r])}
  BY DEF Commit
<1>2. PICK w \in [S -> Contents] :
        /\ table' = After(w, t)
        /\ steady' = {r \in steady : r \in S => Fits(r, w[r])}
  BY <1>1
<1>3. ASSUME NEW r \in Rows
      PROVE  table'[r] = IF r \notin S THEN table[r]
                         ELSE [at |-> IF r \in There THEN At(r) ELSE t, is |-> w[r]]
  BY <1>2 DEF After
<1>4. ASSUME NEW r \in S
      PROVE  /\ table'[r] \in Versions
             /\ table'[r].is = w[r]
             /\ r \in There => table'[r].at = At(r)
  <2>1. /\ w[r] \in Contents
        /\ table'[r] = [at |-> IF r \in There THEN At(r) ELSE t, is |-> w[r]]
    BY <1>3
  <2>2. (IF r \in There THEN At(r) ELSE t) \in 0 .. MaxTime
    BY ThereType
  <2>3. QED
    BY <2>1, <2>2 DEF Versions
<1>5. table' \in [Rows -> Versions \cup {None}]
  BY <1>2, <1>3, <1>4 DEF After, TypeOK
<1>6. There \subseteq There' /\ \A r \in There : At(r)' = At(r)
  BY <1>3, <1>4 DEF There, At
<1>7. ASSUME NEW r \in steady'
      PROVE  IF doing = "listing" THEN Is(r)' = Is(r) \/ Matches(query, Is(r)')
             ELSE Is(r)' = Is(r)
  <2>1. r \in steady /\ r \in Rows /\ (r \in S => Fits(r, w[r]))
    BY <1>2 DEF TypeOK, There
  <2>2. CASE r \in S
    BY <1>4, <2>1, <2>2 DEF Fits, Is
  <2>3. CASE r \notin S
    BY <1>3, <2>1, <2>3 DEF Is
  <2>4. QED
    BY <2>2, <2>3
<1>8. QED
  BY <1>2, <1>5, <1>6, <1>7

\* The five types share no row.
LEMMA TypesAddUp ==
  ASSUME TypeOK
  PROVE  Cardinality(OfType("hackathon")) + Cardinality(OfType("competition"))
         + Cardinality(OfType("internship")) + Cardinality(OfType("full_time_job"))
         + Cardinality(OfType("research_program")) <= Cardinality(There)
<1>1. ASSUME NEW S \in SUBSET Rows, NEW T \in SUBSET Rows, S \cap T = {}
      PROVE  Cardinality(S \cup T) = Cardinality(S) + Cardinality(T)
  <2>1. IsFiniteSet(S) /\ IsFiniteSet(T)
    BY CountRows
  <2>2. Cardinality(S) \in Nat /\ Cardinality(T) \in Nat
    BY CountRows
  <2>3. Cardinality(S \cup T) = Cardinality(S) + Cardinality(T) - Cardinality({})
    BY <1>1, <2>1, FS_Union
  <2>4. QED
    BY <2>2, <2>3, FS_EmptySet
<1>2. \A t \in Types : OfType(t) \in SUBSET Rows
  BY DEF OfType, There
<1>3. \A t, u \in Types : t # u => OfType(t) \cap OfType(u) = {}
  BY DEF OfType
<1>4. PICK a \in SUBSET Rows, b \in SUBSET Rows, c \in SUBSET Rows,
           d \in SUBSET Rows, e \in SUBSET Rows :
        /\ a = OfType("hackathon") /\ b = OfType("competition")
        /\ c = OfType("internship") /\ d = OfType("full_time_job")
        /\ e = OfType("research_program")
  BY <1>2 DEF Types
<1>5. /\ a \cap b = {} /\ (a \cup b) \cap c = {} /\ (a \cup b \cup c) \cap d = {}
      /\ (a \cup b \cup c \cup d) \cap e = {}
  BY <1>3, <1>4 DEF Types
<1>6. Cardinality(a \cup b \cup c \cup d \cup e)
      = Cardinality(a) + Cardinality(b) + Cardinality(c) + Cardinality(d) + Cardinality(e)
  <2>1. Cardinality(a \cup b) = Cardinality(a) + Cardinality(b)
    BY <1>1, <1>5
  <2>2. Cardinality(a \cup b \cup c) = Cardinality(a \cup b) + Cardinality(c)
    BY <1>1, <1>5
  <2>3. Cardinality(a \cup b \cup c \cup d) = Cardinality(a \cup b \cup c) + Cardinality(d)
    BY <1>1, <1>5
  <2>4. Cardinality(a \cup b \cup c \cup d \cup e)
        = Cardinality(a \cup b \cup c \cup d) + Cardinality(e)
    BY <1>1, <1>5
  <2>5. QED
    BY <2>1, <2>2, <2>3, <2>4
<1>7. a \cup b \cup c \cup d \cup e \subseteq There /\ There \in SUBSET Rows
  BY <1>4 DEF OfType, There
<1>8. Cardinality(a \cup b \cup c \cup d \cup e) <= Cardinality(There)
  <2>1. IsFiniteSet(There)
    BY <1>7, CountRows
  <2>2. QED
    BY <1>7, <2>1, FS_Subset
<1>9. QED
  BY <1>4, <1>6, <1>8

\* A page is the rest, or the cursor after it separates it from the rest.
LEMMA PageFacts ==
  ASSUME TypeOK, ListPage
  PROVE  /\ page' \subseteq Found
         /\ \/ doing' = "listed" /\ cursor' = None /\ page' = Found
            \/ /\ doing' = "listing"
               /\ \E last \in page' :
                    /\ cursor' = [at |-> At(last), id |-> last]
                    /\ \A r \in page' \ {last} : Newer(r, last)
                    /\ \A r \in Found \ page' : Newer(last, r)
<1>1. Found \in SUBSET Rows /\ Found \subseteq There
  BY DEF Found, There
<1>2. PICK rows \in First(Found, size + 1, Newer) :
      \E data \in First(rows, size, Newer) :
        /\ page' = data
        /\ IF Cardinality(rows) > size
           THEN /\ \E last \in data :
                     /\ \A r \in data \ {last} : Newer(r, last)
                     /\ cursor' = [at |-> At(last), id |-> last]
                /\ UNCHANGED doing
           ELSE cursor' = None /\ doing' = "listed"
  BY DEF ListPage, Fetched
<1>3. PICK data \in First(rows, size, Newer) :
        /\ page' = data
        /\ IF Cardinality(rows) > size
           THEN /\ \E last \in data :
                     /\ \A r \in data \ {last} : Newer(r, last)
                     /\ cursor' = [at |-> At(last), id |-> last]
                /\ UNCHANGED doing
           ELSE cursor' = None /\ doing' = "listed"
  BY <1>2
<1>4. /\ rows \in SUBSET Found /\ Cardinality(rows) = Least(size + 1, Cardinality(Found))
      /\ \A t \in rows, s \in Found \ rows : ~Newer(s, t)
  BY <1>2 DEF First
<1>5. /\ data \in SUBSET rows /\ Cardinality(data) = Least(size, Cardinality(rows))
      /\ \A t \in data, s \in rows \ data : ~Newer(s, t)
  BY <1>3 DEF First
<1>6. size \in Nat /\ Cardinality(rows) \in Nat
  BY <1>1, <1>4, CountRows DEF TypeOK
<1>7. CASE Cardinality(rows) > size
  <2>1. PICK last \in data :
          /\ \A r \in data \ {last} : Newer(r, last)
          /\ cursor' = [at |-> At(last), id |-> last]
    BY <1>3, <1>7
  <2>2. ASSUME NEW r \in Found \ data PROVE Newer(last, r)
    <3>1. ~Newer(r, last)
      BY <1>4, <1>5
    <3>2. QED
      BY <1>1, <1>4, <1>5, <3>1, NewerOrders
  <2>3. QED
    BY <1>3, <1>4, <1>5, <1>7, <2>1, <2>2 DEF ListPage
<1>8. CASE ~(Cardinality(rows) > size)
  <2>1. rows = Found
    BY <1>1, <1>4, <1>6, <1>8, AllOrMany
  <2>2. data = rows
    BY <1>1, <1>4, <1>5, <1>6, <1>8, AllOrMany
  <2>3. QED
    BY <1>3, <1>8, <2>1, <2>2
<1>9. QED
  BY <1>7, <1>8

\* What a cursor is beyond none of is newer than what it is beyond.
LEMMA CursorSplits ==
  ASSUME TypeOK, cursor # None, NEW r \in There, NEW q \in There,
         ~Beyond(cursor, r), Beyond(cursor, q)
  PROVE  Newer(r, q)
<1>1. /\ r \in Nat /\ At(r) \in Nat /\ q \in Nat /\ At(q) \in Nat
  BY ThereType
<1>2. cursor \in Cursors
  BY DEF TypeOK
<1>3. cursor.at \in Nat /\ cursor.id \in Nat
  <2>1. cursor.at \in 0 .. MaxTime /\ cursor.id \in Rows
    BY <1>2 DEF Cursors
  <2>2. MaxTime \in Nat /\ Rows \subseteq Nat
    OBVIOUS
  <2>3. \A n \in 0 .. MaxTime : n \in Nat
    BY <2>2
  <2>4. QED
    BY <2>1, <2>2, <2>3
<1>4. QED
  BY <1>1, <1>3 DEF Beyond, Newer

-----------------------------------------------------------------------------
(* The steps                                                               *)

LEMMA InitHolds == Init => IInv
<1> SUFFICES ASSUME Init PROVE IInv
  OBVIOUS
<1>1. There = {}
  BY DEF Init, There
<1>2. TypeOK
  BY <1>1 DEF Init, TypeOK
<1>3. Paged /\ NoRowTwice /\ StillFound /\ NothingOldIsSkipped
  BY DEF Init, Paged, NoRowTwice, StillFound, NothingOldIsSkipped
<1>4. Pooled /\ RecommendsTheBest /\ Covered /\ TotalsCoverTypes
  BY DEF Init, Pooled, RecommendsTheBest, Covered, TotalsCoverTypes
<1>5. QED
  BY <1>2, <1>3, <1>4 DEF IInv

LEMMA NextType ==
  ASSUME TypeOK, [Next]_vars
  PROVE  TypeOK'
<1> USE DEF base, reader, vars
<1>1. CASE Begin
  BY <1>1 DEF Begin, TypeOK, There
<1>2. CASE \E t \in 0 .. MaxTime : Commit(t)
  <2>1. PICK t \in 0 .. MaxTime : Commit(t)
    BY <1>2
  <2>2. /\ table' \in [Rows -> Versions \cup {None}]
        /\ There \subseteq There' /\ steady' \subseteq steady
    BY <2>1, CommitFacts
  <2>3. /\ open' = [open EXCEPT ![t] = @ - 1] /\ open[t] > 0
        /\ UNCHANGED <<now, runs, reader>>
    BY <2>1 DEF Commit
  <2>4. open' \in [0 .. MaxTime -> Nat]
    BY <2>3 DEF TypeOK
  <2>5. seen' \subseteq There' /\ page' \subseteq There' /\ steady' \subseteq There'
        /\ DOMAIN pool' \subseteq There' /\ DOMAIN answer' \subseteq There'
    BY <2>2, <2>3 DEF TypeOK
  <2>6. QED
    BY <2>2, <2>3, <2>4, <2>5 DEF TypeOK
<1>3. CASE Tick
  BY <1>3 DEF Tick, TypeOK, There
<1>4. CASE AskListing
  BY <1>4 DEF AskListing, Ask, TypeOK, There
<1>5. CASE ListPage
  <2>1. /\ seen' = seen \cup page
        /\ UNCHANGED <<base, query, size, pool, answer, counts, steady>>
    BY <1>5 DEF ListPage
  <2>2. page' \subseteq There /\ There' = There
    BY <1>5, <2>1, PageFacts DEF Found, There
  <2>3. doing' \in {"listed", "listing"} /\ cursor' \in Cursors \cup {None}
    <3>1. CASE doing' = "listed" /\ cursor' = None
      BY <3>1
    <3>2. CASE doing' = "listing" /\ \E last \in page' : cursor' = [at |-> At(last), id |-> last]
      <4>1. PICK last \in page' : cursor' = [at |-> At(last), id |-> last]
        BY <3>2
      <4>2. At(last) \in 0 .. MaxTime /\ last \in Rows
        BY <2>2, ThereType
      <4>3. QED
        BY <3>2, <4>1, <4>2 DEF Cursors
    <3>3. QED
      BY <1>5, <3>1, <3>2, PageFacts
  <2>4. QED
    BY <2>1, <2>2, <2>3 DEF TypeOK
<1>6. CASE Search
  <2>1. PICK rows \in SUBSET There : answer' = [r \in rows |-> Is(r).rank]
    BY <1>6 DEF Search, First
  <2>2. \A r \in rows : Is(r).rank \in 0 .. 100
    BY <2>1, ThereType, ContentsAssumption
  <2>3. /\ There' = There /\ doing' = "searched" /\ steady' = There
        /\ size' = AnswerSize
        /\ UNCHANGED <<base, cursor, seen, page, pool, counts>>
    BY <1>6 DEF Search, There
  <2>4. DOMAIN answer' \subseteq There /\ \A r \in DOMAIN answer' : answer'[r] \in 0 .. 100
    BY <2>1, <2>2
  <2>5. QED
    BY <2>3, <2>4 DEF TypeOK
<1>7. CASE AskRecommendations
  BY <1>7 DEF AskRecommendations, Ask, TypeOK, There
<1>8. CASE FetchForScoring
  <2>1. PICK rows \in SUBSET Active : pool' = [r \in rows |-> Is(r)]
    BY <1>8 DEF FetchForScoring, First
  <2>2. DOMAIN pool' \subseteq There /\ There' = There
    BY <1>8, <2>1 DEF FetchForScoring, Active, There
  <2>3. QED
    BY <1>8, <2>2 DEF FetchForScoring, TypeOK
<1>9. CASE Recommend
  <2>1. PICK rows \in SUBSET DOMAIN pool : answer' = [r \in rows |-> Scored(r)]
    BY <1>9 DEF Recommend, First
  <2>2. \A r \in rows : Scored(r) \in 0 .. 100
    BY <2>1, ThereType, ContentsAssumption, ScoreType DEF Scored, TypeOK
  <2>3. There' = There
    BY <1>9 DEF Recommend, There
  <2>4. DOMAIN answer' \subseteq There /\ \A r \in DOMAIN answer' : answer'[r] \in 0 .. 100
    BY <2>1, <2>2 DEF TypeOK
  <2>5. QED
    BY <1>9, <2>3, <2>4 DEF Recommend, TypeOK
<1>10. CASE AskAnalytics
  BY <1>10 DEF AskAnalytics, Ask, TypeOK, There
<1>11. CASE CountFirst \/ CountSecond
  <2>1. PICK step \in {1, 2}, next \in {"totalling", "counted"} : Count(step, next)
    BY <1>11 DEF CountFirst, CountSecond
  <2>2. \A t \in Types : OfType(t) \in SUBSET Rows
    BY DEF OfType, There
  <2>3. Cardinality(There) \in Nat /\ \A t \in Types : Cardinality(OfType(t)) \in Nat
    BY <2>2, CountRows DEF There
  <2>4. counts'.types \in [Types -> Nat] /\ counts'.total \in Nat
    BY <2>1, <2>3 DEF Count, TypeOK
  <2>5. QED
    BY <2>1, <2>4 DEF Count, TypeOK, There
<1>12. CASE Leave
  BY <1>12 DEF Leave, TypeOK, There
<1>13. CASE UNCHANGED vars
  BY <1>13 DEF TypeOK, There
<1>14. QED
  BY <1>1, <1>2, <1>3, <1>4, <1>5, <1>6, <1>7, <1>8, <1>9, <1>10, <1>11,
     <1>12, <1>13 DEF Next

\* The actions that read no page.
Elsewhere ==
  \/ Search \/ AskRecommendations \/ FetchForScoring \/ Recommend
  \/ AskAnalytics \/ CountFirst \/ CountSecond

Pages == Paged /\ NoRowTwice /\ StillFound /\ NothingOldIsSkipped

LEMMA ListPageKeepsPages ==
  ASSUME TypeOK, Pages, ListPage
  PROVE  Pages'
<1>1. /\ doing = "listing" /\ seen' = seen \cup page
      /\ UNCHANGED <<table, query, steady>>
  BY DEF ListPage, base
<1>2. page' \subseteq Found /\ Found \subseteq There /\ seen' \subseteq There
  BY <1>1, PageFacts DEF Found, TypeOK
<1>3. ASSUME NEW r \in seen', NEW q \in Found PROVE Newer(r, q)
  <2>1. cursor # None
    BY <1>1 DEF Pages, Paged
  <2>2. ~Beyond(cursor, r) /\ Beyond(cursor, q)
    BY <1>1, <2>1 DEF Pages, Paged, Found
  <2>3. QED
    BY <1>2, <2>1, <2>2, CursorSplits
<1>4. NoRowTwice'
  BY <1>1, <1>2, <1>3 DEF NoRowTwice, Newer, At
<1>5. steady \subseteq seen' \cup Found
  BY <1>1 DEF Pages, StillFound
<1>6. CASE doing' = "listed" /\ cursor' = None /\ page' = Found
  BY <1>1, <1>4, <1>5, <1>6 DEF Pages, Paged, StillFound, NothingOldIsSkipped
<1>7. CASE /\ doing' = "listing"
           /\ \E last \in page' :
                /\ cursor' = [at |-> At(last), id |-> last]
                /\ \A r \in page' \ {last} : Newer(r, last)
                /\ \A r \in Found \ page' : Newer(last, r)
  <2>1. PICK last \in page' :
          /\ cursor' = [at |-> At(last), id |-> last]
          /\ \A r \in page' \ {last} : Newer(r, last)
          /\ \A r \in Found \ page' : Newer(last, r)
    BY <1>7
  <2>2. \A r \in There : Beyond(cursor', r) <=> Newer(last, r)
    BY <1>2, <2>1, CursorCuts
  <2>3. ASSUME NEW r \in seen' \cup page' PROVE ~Beyond(cursor', r)
    <3>1. r = last \/ Newer(r, last)
      BY <1>2, <1>3, <2>1
    <3>2. ~Newer(last, r)
      BY <1>2, <3>1, NewerOrders
    <3>3. QED
      BY <1>2, <2>2, <3>2
  <2>4. cursor' # None
    <3>1. At(last) \in 0 .. MaxTime /\ last \in Rows
      BY <1>2, ThereType
    <3>2. QED
      BY <2>1, <3>1 DEF Cursors
  <2>5. Paged'
    BY <1>7, <2>3, <2>4, <1>1 DEF Paged, Beyond, At
  <2>6. ASSUME NEW r \in Found \ page' PROVE r \in Found'
    <3>1. Beyond(cursor', r)
      BY <1>2, <2>1, <2>2
    <3>2. r \in There /\ Matches(query, Is(r))
      BY DEF Found
    <3>3. r \in There' /\ Matches(query, Is(r))'
      BY <1>1, <3>2 DEF There, Is, Matches, TypesOf
    <3>4. Beyond(cursor, r)'
      BY <1>1, <3>1 DEF Beyond, At
    <3>5. QED
      BY <3>3, <3>4 DEF Found
  <2>7. StillFound' /\ NothingOldIsSkipped'
    BY <1>1, <1>5, <1>7, <2>6 DEF StillFound, NothingOldIsSkipped
  <2>8. QED
    BY <1>4, <2>5, <2>7 DEF Pages
<1>8. QED
  BY <1>6, <1>7, PageFacts

LEMMA CommitKeepsPages ==
  ASSUME TypeOK, Pages, NEW t \in 0 .. MaxTime, Commit(t)
  PROVE  Pages'
<1>1. UNCHANGED <<doing, query, cursor, seen, page>>
  BY DEF Commit, reader
<1>2. /\ There \subseteq There' /\ \A r \in There : At(r)' = At(r)
      /\ steady' \subseteq steady
      /\ doing = "listing" => \A r \in steady' : Is(r)' = Is(r) \/ Matches(query, Is(r)')
  BY CommitFacts
<1>3. seen \subseteq There /\ page \subseteq There /\ steady \subseteq There
  BY DEF TypeOK
<1>4. Paged'
  <2>1. ASSUME NEW r \in seen \cup page PROVE Beyond(cursor, r)' <=> Beyond(cursor, r)
    BY <1>1, <1>2, <1>3 DEF Beyond
  <2>2. QED
    BY <1>1, <2>1 DEF Pages, Paged
<1>5. NoRowTwice'
  BY <1>1, <1>2, <1>3 DEF Pages, NoRowTwice, Newer
<1>6. StillFound'
  <2>1. ASSUME doing = "listing", NEW r \in steady', r \notin seen \cup page
        PROVE  r \in Found'
    <3>1. r \in Found /\ r \in There
      BY <1>2, <1>3, <2>1 DEF Pages, StillFound
    <3>2. Matches(query, Is(r)')
      BY <1>2, <2>1, <3>1 DEF Found
    <3>3. cursor = None \/ Beyond(cursor, r)'
      BY <1>1, <1>2, <3>1 DEF Found, Beyond
    <3>4. QED
      BY <1>1, <1>2, <3>1, <3>2, <3>3 DEF Found
  <2>2. QED
    BY <1>1, <2>1 DEF StillFound
<1>7. NothingOldIsSkipped'
  BY <1>1, <1>2 DEF Pages, NothingOldIsSkipped
<1>8. QED
  BY <1>4, <1>5, <1>6, <1>7 DEF Pages

LEMMA NextPages ==
  ASSUME TypeOK, Pages, [Next]_vars
  PROVE  Pages'
<1> USE DEF base, reader, vars, Pages
<1>1. CASE \E t \in 0 .. MaxTime : Commit(t)
  BY <1>1, CommitKeepsPages
<1>2. CASE ListPage
  BY <1>2, ListPageKeepsPages
<1>3. CASE AskListing
  <2>1. PICK f \in Filters : steady' = {r \in There : Matches(f, Is(r))} /\ query' = f
    BY <1>3 DEF AskListing, Ask
  <2>2. /\ doing = "nothing" /\ doing' = "listing"
        /\ UNCHANGED <<table, cursor, seen, page>>
    BY <1>3 DEF AskListing, Ask
  <2>3. cursor = None /\ seen = {} /\ page = {}
    BY <2>2 DEF Paged
  <2>4. steady' \subseteq Found'
    BY <2>1, <2>2, <2>3 DEF Found, There, Is
  <2>5. QED
    BY <2>2, <2>3, <2>4 DEF Paged, NoRowTwice, StillFound, NothingOldIsSkipped
<1>4. CASE Elsewhere
  <2>1. /\ doing \notin {"listing", "listed"} /\ doing' \notin {"listing", "listed"}
        /\ UNCHANGED <<cursor, seen, page>>
    BY <1>4 DEF Elsewhere, Search, AskRecommendations, Ask, FetchForScoring,
         Recommend, AskAnalytics, CountFirst, CountSecond, Count
  <2>2. QED
    BY <2>1 DEF Paged, NoRowTwice, StillFound, NothingOldIsSkipped
<1>5. CASE Leave
  BY <1>5 DEF Leave, Paged, NoRowTwice, StillFound, NothingOldIsSkipped
<1>6. CASE Begin \/ Tick \/ UNCHANGED vars
  <2>1. UNCHANGED <<table, reader, steady>>
    BY <1>6 DEF Begin, Tick
  <2>2. QED
    BY <2>1 DEF Paged, NoRowTwice, StillFound, NothingOldIsSkipped, Found,
         Newer, Beyond, There, At, Is
<1>7. QED
  BY <1>1, <1>2, <1>3, <1>4, <1>5, <1>6 DEF Next, Elsewhere

LEMMA CommitKeepsBest ==
  ASSUME TypeOK, Pooled, RecommendsTheBest, NEW t \in 0 .. MaxTime, Commit(t)
  PROVE  (Pooled /\ RecommendsTheBest)'
<1>1. UNCHANGED <<doing, query, size, pool, answer>>
  BY DEF Commit, reader
<1>2. /\ \A r \in There : At(r)' = At(r)
      /\ doing # "listing" => \A r \in steady' : Is(r)' = Is(r)
      /\ steady' \subseteq steady /\ steady \subseteq There
      /\ DOMAIN pool \subseteq There
  BY CommitFacts DEF TypeOK
<1>3. ASSUME doing # "listing", NEW r \in steady', r \in Active'
      PROVE  r \in steady /\ r \in Active /\ r \in There /\ Is(r)' = Is(r)
  BY <1>2, <1>3 DEF Active
<1>4. ASSUME NEW r \in There, PassedOver(r) PROVE PassedOver(r)'
  BY <1>1, <1>2, <1>4 DEF PassedOver
<1>5. Pooled'
  <2>1. ASSUME doing = "ranking", NEW r \in steady', r \in Active'
        PROVE  (r \in DOMAIN pool /\ pool[r] = Is(r))' \/ PassedOver(r)'
    <3>1. (r \in DOMAIN pool /\ pool[r] = Is(r)) \/ PassedOver(r)
      BY <1>3, <2>1 DEF Pooled
    <3>2. QED
      BY <1>1, <1>3, <1>4, <2>1, <3>1
  <2>2. QED
    BY <1>1, <2>1 DEF Pooled
<1>6. RecommendsTheBest'
  <2>1. ASSUME doing = "recommended", NEW r \in steady', r \in Active', r \notin DOMAIN answer
        PROVE  \/ /\ Full'
                  /\ \A q \in DOMAIN answer' :
                       answer'[q] >= Score(query, Is(r), Is(r).tags)'
               \/ PassedOver(r)'
    <3>1. \/ /\ Full
             /\ \A q \in DOMAIN answer : answer[q] >= Score(query, Is(r), Is(r).tags)
          \/ PassedOver(r)
      BY <1>3, <2>1 DEF RecommendsTheBest, PassedOver
    <3>2. Score(query, Is(r), Is(r).tags)' = Score(query, Is(r), Is(r).tags)
      <4>1. Is(r)' = Is(r)
        BY <1>3, <2>1
      <4>2. QED
        BY <1>1, <4>1 DEF Score, Matched, CountryMatches, RemoteMatches
    <3>3. QED
      BY <1>1, <1>3, <1>4, <2>1, <3>1, <3>2 DEF Full
  <2>2. QED
    BY <1>1, <2>1 DEF RecommendsTheBest, PassedOver
<1>7. QED
  BY <1>5, <1>6

\* Only as recent rows fill the pool in place of one that is left out.
LEMMA FetchPools ==
  ASSUME TypeOK, Pooled, FetchForScoring
  PROVE  Pooled'
<1>1. PICK rows \in First(Active, PoolSize, Later) : pool' = [r \in rows |-> Is(r)]
  BY DEF FetchForScoring
<1>2. /\ rows \in SUBSET Active /\ Active \in SUBSET Rows /\ Active \subseteq There
      /\ Cardinality(rows) = Least(PoolSize, Cardinality(Active))
      /\ \A q \in rows, r \in Active \ rows : ~Later(r, q)
  BY <1>1 DEF First, Active, There
<1>3. doing = "scoring" /\ doing' = "ranking" /\ UNCHANGED <<table, size>>
  BY DEF FetchForScoring, base
<1>4. ASSUME NEW r \in Active \ rows PROVE PassedOver(r)'
  <2>1. Cardinality(rows) = PoolSize
    BY <1>2, AllOrMany
  <2>2. \A q \in There : At(q) \in Nat
    BY ThereType
  <2>3. \A q \in rows : At(q) >= At(r)
    <3>1. \A q \in rows : ~(At(r) > At(q))
      BY <1>2 DEF Later
    <3>2. rows \subseteq There /\ r \in There
      BY <1>2
    <3>3. QED
      BY <2>2, <3>1, <3>2
  <2>4. QED
    BY <1>1, <1>3, <2>1, <2>3 DEF PassedOver, At
<1>5. Active' = Active /\ \A r \in rows : (pool[r] = Is(r))'
  BY <1>1, <1>3 DEF Active, There, Is
<1>6. QED
  BY <1>1, <1>3, <1>4, <1>5 DEF Pooled

LEMMA RecommendTakesTheBest ==
  ASSUME TypeOK, Pooled, Recommend
  PROVE  RecommendsTheBest'
<1>1. PICK rows \in First(DOMAIN pool, size, Better) : answer' = [r \in rows |-> Scored(r)]
  BY DEF Recommend
<1>2. /\ rows \in SUBSET DOMAIN pool /\ DOMAIN pool \in SUBSET Rows
      /\ Cardinality(rows) = Least(size, Cardinality(DOMAIN pool))
      /\ \A q \in rows, r \in DOMAIN pool \ rows : ~Better(r, q)
  BY <1>1 DEF First, TypeOK, There
<1>3. /\ doing = "ranking" /\ size = AnswerSize
      /\ UNCHANGED <<table, query, size, pool, steady>>
  BY DEF Recommend, Pooled, base
<1>4. \A r \in DOMAIN pool : Scored(r) \in 0 .. 100
  BY ThereType, ContentsAssumption, ScoreType DEF Scored, TypeOK
<1>5. ASSUME NEW r \in steady \cap Active, r \notin rows
      PROVE  \/ /\ Full'
                /\ \A q \in rows : Scored(q) >= Score(query, Is(r), Is(r).tags)
             \/ PassedOver(r)
  <2>1. CASE PassedOver(r)
    BY <2>1
  <2>2. CASE r \in DOMAIN pool /\ pool[r] = Is(r)
    <3>1. Cardinality(rows) = AnswerSize
      BY <1>2, <1>3, <1>5, <2>2, AllOrMany
    <3>2. \A q \in rows : Scored(q) >= Scored(r)
      <4>1. \A q \in rows : ~(Scored(r) > Scored(q))
        BY <1>2, <1>5, <2>2 DEF Better
      <4>2. QED
        BY <1>2, <1>4, <2>2, <4>1
    <3>3. Scored(r) = Score(query, Is(r), Is(r).tags)
      BY <2>2 DEF Scored
    <3>4. QED
      BY <1>1, <3>1, <3>2, <3>3 DEF Full
  <2>3. QED
    BY <1>3, <2>1, <2>2 DEF Pooled
<1>6. Active' = Active /\ \A r \in Active : Is(r)' = Is(r)
  BY <1>3 DEF Active, There, Is
<1>7. ASSUME NEW r \in (steady \cap Active)', r \notin DOMAIN answer'
      PROVE  \/ /\ Full'
                /\ \A q \in DOMAIN answer' :
                     answer'[q] >= Score(query', Is(r)', Is(r)'.tags)
             \/ PassedOver(r)'
  <2>1. r \in steady \cap Active /\ r \notin rows /\ Is(r)' = Is(r)
    BY <1>1, <1>3, <1>6, <1>7
  <2>2. PassedOver(r) => PassedOver(r)'
    BY <1>3 DEF PassedOver, At
  <2>3. QED
    BY <1>1, <1>3, <1>5, <2>1, <2>2
<1>8. QED
  BY <1>7 DEF RecommendsTheBest, PassedOver

LEMMA NextBest ==
  ASSUME TypeOK, Pooled, RecommendsTheBest, [Next]_vars
  PROVE  (Pooled /\ RecommendsTheBest)'
<1> USE DEF base, reader, vars
<1>1. CASE \E t \in 0 .. MaxTime : Commit(t)
  BY <1>1, CommitKeepsBest
<1>2. CASE FetchForScoring
  <2>1. doing' = "ranking"
    BY <1>2 DEF FetchForScoring
  <2>2. QED
    BY <1>2, <2>1, FetchPools DEF RecommendsTheBest
<1>3. CASE Recommend
  <2>1. doing' = "recommended"
    BY <1>3 DEF Recommend
  <2>2. QED
    BY <1>3, <2>1, RecommendTakesTheBest DEF Pooled
<1>4. CASE AskRecommendations
  BY <1>4 DEF AskRecommendations, Ask, Pooled, RecommendsTheBest
<1>5. CASE AskListing \/ ListPage \/ Search \/ AskAnalytics \/ CountFirst
           \/ CountSecond \/ Leave
  <2>1. doing' \notin {"scoring", "ranking", "recommended"}
    BY <1>5 DEF AskListing, ListPage, Search, AskAnalytics, Ask, CountFirst,
         CountSecond, Count, Leave
  <2>2. QED
    BY <2>1 DEF Pooled, RecommendsTheBest
<1>6. CASE Begin \/ Tick \/ UNCHANGED vars
  <2>1. UNCHANGED <<table, reader, steady>>
    BY <1>6 DEF Begin, Tick
  <2>2. Active' = Active /\ \A r \in Rows : Is(r)' = Is(r) /\ At(r)' = At(r)
    BY <2>1 DEF Active, There, Is, At
  <2>3. QED
    BY <2>1, <2>2 DEF Pooled, RecommendsTheBest, PassedOver, Full, Score,
         Matched, CountryMatches, RemoteMatches, Is, At
<1>7. QED
  BY <1>1, <1>2, <1>3, <1>4, <1>5, <1>6 DEF Next

LEMMA NextCovered ==
  ASSUME TypeOK, Covered, TotalsCoverTypes, [Next]_vars
  PROVE  (Covered /\ TotalsCoverTypes)'
<1> USE DEF base, reader, vars
<1>1. There \in SUBSET Rows
  BY DEF There
<1>2. CASE \E t \in 0 .. MaxTime : Commit(t)
  <2>1. PICK t \in 0 .. MaxTime : Commit(t)
    BY <1>2
  <2>2. There \subseteq There' /\ There' \in SUBSET Rows /\ UNCHANGED <<doing, counts>>
    BY <2>1, CommitFacts DEF Commit, There
  <2>3. /\ Cardinality(There) <= Cardinality(There')
        /\ Cardinality(There) \in Nat /\ Cardinality(There') \in Nat
    <3>1. IsFiniteSet(There') /\ IsFiniteSet(There)
      BY <1>1, <2>2, CountRows
    <3>2. QED
      BY <2>2, <3>1, FS_Subset, FS_CardinalityType
  <2>4. Sum' = Sum /\ Sum \in Nat
    <3>1. \A y \in Types : counts.types[y] \in Nat
      BY DEF TypeOK
    <3>2. Sum \in Nat
      BY <3>1 DEF Sum, Types
    <3>3. QED
      BY <2>2, <3>2 DEF Sum
  <2>5. Covered'
    BY <2>2, <2>3, <2>4 DEF Covered
  <2>6. QED
    BY <2>2, <2>5 DEF TotalsCoverTypes
<1>3. CASE CountFirst
  <2>1. /\ doing' = "totalling" /\ There' = There
        /\ counts' = [counts EXCEPT !.types = [t \in Types |-> Cardinality(OfType(t))]]
    BY <1>3 DEF CountFirst, Count, Order, There
  <2>2. counts'.types = [t \in Types |-> Cardinality(OfType(t))]
    BY <2>1 DEF TypeOK
  <2>3. Sum' <= Cardinality(There)
    BY <2>2, TypesAddUp DEF Sum, Types
  <2>4. QED
    BY <2>1, <2>3 DEF Covered, TotalsCoverTypes
<1>4. CASE CountSecond
  <2>1. /\ doing = "totalling" /\ doing' = "counted"
        /\ counts' = [counts EXCEPT !.total = Cardinality(There)]
    BY <1>4 DEF CountSecond, Count, Order
  <2>2. counts'.types = counts.types /\ counts'.total = Cardinality(There)
    BY <2>1 DEF TypeOK
  <2>3. QED
    BY <2>1, <2>2 DEF Covered, TotalsCoverTypes, Sum
<1>5. CASE AskListing \/ ListPage \/ Search \/ AskRecommendations
           \/ FetchForScoring \/ Recommend \/ AskAnalytics \/ Leave
  <2>1. doing' \notin {"totalling", "counted"}
    <3>1. CASE ListPage
      BY <3>1 DEF ListPage
    <3>2. QED
      BY <1>5, <3>1 DEF AskListing, Search, AskRecommendations, FetchForScoring,
           Recommend, AskAnalytics, Ask, Leave
  <2>2. QED
    BY <2>1 DEF Covered, TotalsCoverTypes
<1>6. CASE Begin \/ Tick \/ UNCHANGED vars
  BY <1>6 DEF Begin, Tick, Covered, TotalsCoverTypes, Sum, There
<1>7. QED
  BY <1>2, <1>3, <1>4, <1>5, <1>6 DEF Next

-----------------------------------------------------------------------------
(* The theorems                                                            *)

\* Everything above holds together in every state of the catalogue.
THEOREM Invariance == Spec => []IInv
<1>1. IInv /\ [Next]_vars => IInv'
  BY NextType, NextPages, NextBest, NextCovered DEF IInv, Pages
<1>2. QED
  BY InitHolds, <1>1, PTL DEF Spec

\* Runs commit rows of the declared kind, and the reader is only ever told of
\* rows that are there, with scores of at most 100 points.
THEOREM TypeCorrect == Spec => []TypeOK
<1>1. IInv => TypeOK
  BY DEF IInv
<1>2. QED
  BY Invariance, <1>1, PTL

\* No page repeats a row of an earlier one, or goes back before it, whatever
\* runs commit between the pages (opportunity_repository.py 65-78).
THEOREM PagesNeverRepeat == Spec => []NoRowTwice
<1>1. IInv => NoRowTwice
  BY DEF IInv
<1>2. QED
  BY Invariance, <1>1, PTL

\* Who reads to the last page has seen every row that was there from the start
\* and fitted all along (opportunity_repository.py 65-82).
THEOREM PagesNeverSkip == Spec => []NothingOldIsSkipped
<1>1. IInv => NothingOldIsSkipped
  BY DEF IInv
<1>2. QED
  BY Invariance, <1>1, PTL

\* Nothing that stayed as it was is passed over for a lower score, but by the
\* limit on the pool (recommendation_service.py 64-87).
THEOREM BestAreRecommended == Spec => []RecommendsTheBest
<1>1. IInv => RecommendsTheBest
  BY DEF IInv
<1>2. QED
  BY Invariance, <1>1, PTL

\* The dashboard's types never add up to more than its total
\* (admin_service.py 28-38).
THEOREM TotalsAreEnough == Spec => []TotalsCoverTypes
<1>1. IInv => TotalsCoverTypes
  BY DEF IInv
<1>2. QED
  BY Invariance, <1>1, PTL
=============================================================================
