-------------------------- MODULE ConnectorsProofs --------------------------
(***************************************************************************)
(* For any postings, boards, pages and changes of the listings: a fetch    *)
(* asks every group, its items are consistent, nothing that stays listed   *)
(* is missed, and only a change makes it take an item twice.               *)
(*                                                                         *)
(* The last two are about what one answer adds.  They follow from what the *)
(* pages before it held: OnPages says that the items of the group stand on *)
(* those pages as long as nothing changed, NoneMissed that what stayed on  *)
(* them was taken as long as nothing was withdrawn.                        *)
(***************************************************************************)
EXTENDS Connectors, FiniteSetTheorems, TLAPS

\* How far down the listing the pages before the n-th reach.
Above(n) == (n - 1) * PageSize

Taken(p) == \E i \in batch : i.in = group /\ i.key = p.key

Asking ==
  /\ state = "idle" => source = None /\ batch = {}
  /\ state = "fetching" => source \in Boards \cup Paged /\ 1 .. group - 1 \subseteq asked
  /\ removals <= changes

InGroups == state = "fetching" => \A i \in batch : i.in \in 1 .. group

OnPages ==
  state = "fetching" /\ changes = 0 =>
    \A i \in batch : i.in = group =>
      \E k \in DOMAIN listing : k <= Above(next) /\ listing[k].key = i.key

NoneMissed ==
  state = "fetching" /\ removals = 0 =>
    \A k \in DOMAIN listing :
      listing[k] \in steady /\ k <= Above(next) =>
        Passed(listing[k]) \/ Taken(listing[k])

IInv ==
  /\ TypeOK
  /\ Asking /\ InGroups /\ OnPages /\ NoneMissed
  /\ EveryGroupIsAsked
  /\ ItemsAreConsistent

-----------------------------------------------------------------------------
(* Listings and pages                                                      *)

LEMMA Numbers ==
  /\ PageSize \in Nat \ {0} /\ Groups \in Nat \ {0}
  /\ MaxListed \in Nat /\ MaxChanges \in Nat
<1>1. Len(Kinds) = 3
  BY DEF Kinds
<1>2. QED
  BY <1>1, ConnectorsAssumption DEF Groups

\* Each kind has pages.
LEMMA PagesType ==
  ASSUME group \in 1 .. Groups
  PROVE  Pages \in Nat \ {0}
<1>1. Len(Kinds) = 3
  BY DEF Kinds
<1>2. CASE source = "unstop"
  <2>1. Groups = 3
    BY <1>1, <1>2 DEF Groups, Boards
  <2>2. group \in 1 .. 3
    BY <2>1
  <2>3. QED
    BY <1>2, <2>2, ConnectorsAssumption DEF Pages
<1>3. CASE source # "unstop"
  BY <1>3, ConnectorsAssumption DEF Pages
<1>4. QED
  BY <1>2, <1>3

\* So has the next state's.
LEMMA PagesNextType ==
  ASSUME group' \in 1 .. Groups'
  PROVE  Pages' \in Nat \ {0}
<1>1. Len(Kinds) = 3
  BY DEF Kinds
<1>2. CASE source' = "unstop"
  <2>1. Groups' = 3
    BY <1>1, <1>2 DEF Groups, Boards
  <2>2. group' \in 1 .. 3
    BY <2>1
  <2>3. QED
    BY <1>2, <2>2, ConnectorsAssumption DEF Pages
<1>3. CASE source' # "unstop"
  BY <1>3, ConnectorsAssumption DEF Pages
<1>4. QED
  BY <1>2, <1>3

LEMMA AboveNext ==
  ASSUME NEW n \in Nat \ {0}
  PROVE  /\ Above(n) \in Nat /\ Above(1) = 0
         /\ Above(n + 1) = Above(n) + PageSize
         /\ Above(n + 1) = n * PageSize
<1>1. PageSize \in Nat \ {0}
  BY Numbers
<1>2. QED
  BY <1>1 DEF Above

\* A listing is a sequence of different postings.
LEMMA ListingType ==
  ASSUME NEW s
  PROVE  s \in Listings <=>
           /\ s \in Seq(Postings) /\ Len(s) <= MaxListed
           /\ \A j, k \in 1 .. Len(s) : s[j] = s[k] => j = k
<1>1. ASSUME s \in Listings
      PROVE  /\ s \in Seq(Postings) /\ Len(s) <= MaxListed
             /\ \A j, k \in 1 .. Len(s) : s[j] = s[k] => j = k
  <2>1. PICK n \in 0 .. MaxListed :
          s \in [1 .. n -> Postings] /\ \A j, k \in 1 .. n : s[j] = s[k] => j = k
    BY <1>1 DEF Listings
  <2>2. n \in Nat /\ s \in Seq(Postings) /\ Len(s) = n
    BY <2>1, Numbers
  <2>3. QED
    BY <2>1, <2>2, Numbers
<1>2. ASSUME s \in Seq(Postings), Len(s) <= MaxListed,
             \A j, k \in 1 .. Len(s) : s[j] = s[k] => j = k
      PROVE  s \in Listings
  <2>1. Len(s) \in 0 .. MaxListed /\ s \in [1 .. Len(s) -> Postings]
    BY <1>2, Numbers
  <2>2. QED
    BY <1>2, <2>1 DEF Listings
<1>3. QED
  BY <1>1, <1>2

\* A posting comes in anywhere: what is below it moves down.
LEMMA WithType ==
  ASSUME NEW s \in Seq(Postings), NEW p \in Postings, NEW k \in 0 .. Len(s)
  PROVE  With(s, k, p) \in Seq(Postings) /\ Len(With(s, k, p)) = Len(s) + 1
<1>1. ASSUME NEW j \in 1 .. Len(s) + 1
      PROVE  (IF j <= k THEN s[j] ELSE IF j = k + 1 THEN p ELSE s[j - 1]) \in Postings
  OBVIOUS
<1>2. With(s, k, p) \in [1 .. Len(s) + 1 -> Postings]
  BY <1>1 DEF With
<1>3. QED
  BY <1>2

\* A posting goes: what is below it moves up.
LEMMA WithoutType ==
  ASSUME NEW s \in Seq(Postings), NEW k \in 1 .. Len(s)
  PROVE  Without(s, k) \in Seq(Postings) /\ Len(Without(s, k)) = Len(s) - 1
<1>1. ASSUME NEW j \in 1 .. Len(s) - 1
      PROVE  (IF j < k THEN s[j] ELSE s[j + 1]) \in Postings
  OBVIOUS
<1>2. Without(s, k) \in [1 .. Len(s) - 1 -> Postings] /\ Len(s) - 1 \in Nat
  BY <1>1 DEF Without
<1>3. QED
  BY <1>2

LEMMA KeptOnPage ==
  ASSUME NEW page
  PROVE  \A p \in Kept(page) : ~Passed(p) /\ \E k \in page : p = listing[k]
  BY DEF Kept

\* The paged connectors keep all they do not pass over.
LEMMA KeptOfPage ==
  ASSUME source \notin Boards, NEW page, NEW k \in page, ~Passed(listing[k])
  PROVE  listing[k] \in Kept(page)
  BY DEF Kept

\* A page is what stands between two bounds; a board has one, from the top.
LEMMA PageBounds ==
  ASSUME TypeOK, Asking, state = "fetching"
  PROVE  /\ group \in Nat \ {0} /\ next \in Nat \ {0} /\ Above(next) \in Nat
         /\ source \notin Boards =>
              PageOf(next) = {k \in DOMAIN listing : Above(next) < k /\ k <= Above(next + 1)}
         /\ source \in Boards =>
              next = 1 /\ Pages = 1 /\ Above(next) = 0 /\ PageOf(next) = DOMAIN listing
         /\ \A k \in PageOf(next) : k \in DOMAIN listing /\ Above(next) < k
         /\ listing \in Seq(Postings)
<1>1. listing \in Seq(Postings) /\ DOMAIN listing = 1 .. Len(listing)
  BY ListingType DEF TypeOK
<1>2. group \in Nat \ {0} /\ next \in Nat \ {0} /\ next <= Pages
  BY Numbers DEF TypeOK
<1>3. Above(next) \in Nat /\ Above(next + 1) = next * PageSize /\ Above(1) = 0
  BY <1>2, AboveNext
<1>4. CASE source \in Boards
  <2>1. Pages = 1 /\ next = 1
    BY <1>2, <1>4 DEF Pages, Boards
  <2>2. PageOf(next) = DOMAIN listing
    BY <1>4 DEF PageOf
  <2>3. QED
    BY <1>1, <1>2, <1>3, <1>4, <2>1, <2>2
<1>5. CASE source \notin Boards
  <2>1. PageOf(next) = {k \in DOMAIN listing : Above(next) < k /\ k <= Above(next + 1)}
    BY <1>3, <1>5 DEF PageOf, Above
  <2>2. QED
    BY <1>1, <1>2, <1>3, <1>5, <2>1
<1>6. QED
  BY <1>4, <1>5

-----------------------------------------------------------------------------
(* Items                                                                   *)

Countries == {"India", "Global", None} \cup {p.country : p \in Postings}

LEMMA WordTypes ==
  ASSUME NEW words
  PROVE  /\ classify_experience(words) \in {"intern", "senior", "fresher", "mid"}
         /\ infer_country(words) \in Countries
  BY DEF classify_experience, infer_country, Countries

\* Consistent as ItemsAreConsistent says, for one item.
Consistent(item) ==
  /\ source \in Boards => (item.type = "internship" <=> item.experience_level = "intern")
  /\ item.remote_type = "remote" => item.country # None

LEMMA ItemFields ==
  ASSUME NEW t, NEW e, NEW r, NEW c
  PROVE  /\ Item(t, e, r, c).type = t /\ Item(t, e, r, c).experience_level = e
         /\ Item(t, e, r, c).remote_type = r /\ Item(t, e, r, c).country = c
         /\ /\ t \in {"hackathon", "internship", "full_time_job"}
            /\ e \in {"intern", "fresher", "mid", "senior", "unspecified"}
            /\ r \in {"remote", "hybrid", "onsite", "unspecified"}
            /\ c \in Countries
            => Item(t, e, r, c) \in Items
  BY DEF Item, Items, Countries

LEMMA NormalizedType ==
  ASSUME NEW p \in Postings, source \in Boards \cup Paged, group \in 1 .. Groups
  PROVE  Normalized(p) \in Items /\ Consistent(Normalized(p))
<1> USE NoneAssumption
<1>1. /\ p.workplace \in {"remote", "hybrid", "onsite", "unspecified"}
      /\ p.country \in Countries /\ "Global" \in Countries /\ "India" \in Countries
      /\ None \in Countries
  BY PostingsAssumption DEF Countries
<1>2. CASE source = "greenhouse"
  <2>1. Normalized(p) = Greenhouse(p)
    BY <1>2 DEF Normalized
  <2>2. PICK e \in {"intern", "senior", "fresher", "mid"}, c \in Countries :
          e = classify_experience(p.title) /\ c = infer_country(p.place)
    BY WordTypes
  <2>3. PICK r \in {"remote", "onsite"}, d \in Countries :
          Normalized(p) = Item(TypeFor(e), e, r, d) /\ (r = "remote" => d # None)
    <3>1. CASE p.place \cap {"remote", "remotely"} # {}
      BY <1>1, <2>1, <2>2, <3>1 DEF Greenhouse, Or
    <3>2. CASE p.place \cap {"remote", "remotely"} = {}
      BY <1>1, <2>1, <2>2, <3>2 DEF Greenhouse, Or
    <3>3. QED
      BY <3>1, <3>2
  <2>4. QED
    BY <2>3, ItemFields DEF TypeFor, Consistent
<1>3. CASE source = "lever"
  <2>1. Normalized(p) = Lever(p)
    BY <1>3 DEF Normalized
  <2>2. PICK c \in Countries : c = infer_country(p.place)
    BY WordTypes
  <2>3. PICK e \in {"intern", "senior", "fresher", "mid"} :
          e = IF p.internship THEN "intern" ELSE classify_experience(p.title)
    BY WordTypes
  <2>4. PICK d \in Countries :
          /\ Normalized(p) = Item(TypeFor(e), e, p.workplace, d)
          /\ p.workplace = "remote" => d # None
    BY <1>1, <2>1, <2>2, <2>3 DEF Lever, Or
  <2>5. QED
    BY <1>1, <2>4, ItemFields DEF TypeFor, Consistent
<1>4. CASE source = "unstop"
  <2>1. Normalized(p) = Unstop(Kinds[group], p)
    BY <1>4 DEF Normalized
  <2>2. group \in {1, 2, 3}
    BY <1>4 DEF Groups, Kinds, Boards
  <2>3. /\ Kinds[group].type \in {"hackathon", "internship", "full_time_job"}
        /\ Kinds[group].experience \in {"unspecified", "intern", None}
    BY <2>2 DEF Kinds
  <2>4. PICK e \in {"intern", "fresher", "mid", "senior", "unspecified"} :
          e = Or(Kinds[group].experience, classify_experience(p.title))
    BY <2>3, WordTypes DEF Or
  <2>5. PICK r \in {"remote", "onsite"} : r = IF Online(p) THEN "remote" ELSE "onsite"
    OBVIOUS
  <2>6. Normalized(p) = Item(Kinds[group].type, e, r, "India")
    BY <2>1, <2>4, <2>5 DEF Unstop
  <2>7. source \notin Boards
    BY <1>4 DEF Boards
  <2>8. QED
    BY <1>1, <2>3, <2>6, <2>7, ItemFields DEF Consistent
<1>5. CASE source = "devpost"
  <2>1. Normalized(p) = Devpost(p)
    BY <1>5 DEF Normalized
  <2>2. PICK r \in {"remote", "onsite"}, c \in Countries :
          /\ Normalized(p) = Item("hackathon", "unspecified", r, c)
          /\ r = "remote" => c # None
    <3>1. CASE Online(p)
      BY <1>1, <2>1, <3>1 DEF Devpost
    <3>2. CASE ~Online(p)
      BY <1>1, <2>1, <3>2 DEF Devpost
    <3>3. QED
      BY <3>1, <3>2
  <2>3. source \notin Boards
    BY <1>5 DEF Boards
  <2>4. QED
    BY <2>2, <2>3, ItemFields DEF Consistent
<1>6. QED
  BY <1>2, <1>3, <1>4, <1>5 DEF Boards, Paged

-----------------------------------------------------------------------------
(* Answers                                                                 *)

\* The items of a page.
New(page) == {[in |-> group, key |-> p.key, is |-> Normalized(p)] : p \in Kept(page)}

LEMMA NewItems ==
  ASSUME TypeOK, Asking, state = "fetching", NEW i \in New(PageOf(next))
  PROVE  /\ i.in = group /\ i.is \in Items /\ Consistent(i.is)
         /\ \E k \in PageOf(next) : i.key = listing[k].key
<1>1. PICK k \in PageOf(next) :
        i = [in |-> group, key |-> listing[k].key, is |-> Normalized(listing[k])]
  BY KeptOnPage DEF New
<1>2. listing[k] \in Postings
  BY PageBounds
<1>3. source \in Boards \cup Paged /\ group \in 1 .. Groups
  BY DEF TypeOK, Asking
<1>4. QED
  BY <1>1, <1>2, <1>3, NormalizedType

Repeats == \E i \in New(PageOf(next)), j \in batch : <<i.in, i.key>> = <<j.in, j.key>>

LEMMA AnswerCases ==
  ASSUME Answer
  PROVE  /\ state = "fetching" /\ source' = source /\ asked' = asked \cup {group}
         /\ \/ Raise /\ UNCHANGED <<batch, repeated>>
            \/ /\ batch' = batch \cup New(PageOf(next))
               /\ repeated' = (repeated \/ Repeats)
               /\ IF PageOf(next) = {} THEN NextGroup ELSE NextPage
  BY DEF Answer, New, Repeats

\* A fetch goes on to a page, to a group, or ends.
TurnsPage  == next < Pages /\ next' = next + 1 /\ UNCHANGED <<state, group, outside>>
TurnsGroup == group < Groups /\ group' = group + 1 /\ next' = 1 /\ Encounter
              /\ UNCHANGED state
Ends       == group = Groups /\ state' = "done" /\ UNCHANGED <<group, next>> /\ Forget

LEMMA Turns ==
  ASSUME TypeOK, state = "fetching"
  PROVE  /\ NextGroup => TurnsGroup \/ Ends
         /\ NextPage => TurnsPage \/ (next = Pages /\ (TurnsGroup \/ Ends))
<1>1. group \in 1 .. Groups /\ next \in 1 .. Pages /\ Groups \in Nat /\ Pages \in Nat
  BY Numbers, PagesType DEF TypeOK
<1>2. NextGroup => TurnsGroup \/ Ends
  BY <1>1 DEF NextGroup, TurnsGroup, Ends
<1>3. QED
  BY <1>1, <1>2 DEF NextPage, TurnsPage

LEMMA TurnType ==
  ASSUME TypeOK, state = "fetching", TurnsPage \/ TurnsGroup \/ Ends \/ Raise,
         source' = source, asked' = asked \cup {group},
         \A i \in batch' : i.is \in Items, repeated' \in BOOLEAN
  PROVE  TypeOK'
<1>1. group \in 1 .. Groups /\ next \in 1 .. Pages /\ Groups \in Nat \ {0} /\ Pages \in Nat \ {0}
  BY Numbers, PagesType DEF TypeOK
<1>2. Groups' = Groups /\ (group' = group => Pages' = Pages)
  BY DEF Groups, Pages
<1>3. <<>> \in Listings /\ {} \subseteq Members(<<>>) /\ 0 \in 0 .. MaxChanges
  <2>1. <<>> \in Seq(Postings) /\ Len(<<>>) = 0 /\ 0 <= MaxListed
    BY Numbers
  <2>2. \A j, k \in 1 .. Len(<<>>) : <<>>[j] = <<>>[k] => j = k
    BY <2>1
  <2>3. <<>> \in Listings
    BY <2>1, <2>2, ListingType
  <2>4. QED
    BY <2>3, Numbers
<1>4. /\ listing' \in Listings /\ steady' \subseteq Members(listing')
      /\ changes' \in 0 .. MaxChanges /\ removals' \in 0 .. MaxChanges
  BY <1>3 DEF TypeOK, TurnsPage, TurnsGroup, Ends, Raise, Encounter, Forget, outside
<1>5. /\ state' \in {"fetching", "done", "raised"}
      /\ state' = "fetching" => group' \in 1 .. Groups /\ next' \in 1 .. Pages'
      /\ asked' \subseteq 1 .. group' \cup {1}
  <2>1. asked' \subseteq 1 .. group \cup {1}
    <3>1. asked \subseteq 1 .. group \cup {1} /\ group \in 1 .. Groups
      BY DEF TypeOK
    <3>2. group \in 1 .. group
      BY <3>1, Numbers
    <3>3. QED
      BY <1>1, <3>1, <3>2
  <2>2. CASE TurnsPage
    BY <1>1, <1>2, <2>1, <2>2 DEF TurnsPage
  <2>3. CASE TurnsGroup
    <3>1. group' \in 1 .. Groups'
      BY <1>1, <1>2, <2>3 DEF TurnsGroup
    <3>2. Pages' \in Nat \ {0}
      BY <3>1, PagesNextType
    <3>3. QED
      BY <1>1, <1>2, <2>1, <2>3, <3>1, <3>2 DEF TurnsGroup
  <2>4. CASE Ends \/ Raise
    BY <1>1, <2>1, <2>4 DEF Ends, Raise
  <2>5. QED
    BY <2>2, <2>3, <2>4
<1>6. source \in CONNECTOR_REGISTRY \cup {None}
  BY DEF TypeOK
<1>7. QED
  BY <1>2, <1>4, <1>5, <1>6 DEF TypeOK

\* The next group, and the end, know nothing of the pages before.
LEMMA TurnHolds ==
  ASSUME IInv, state = "fetching", TurnsGroup \/ Ends \/ Raise,
         source' = source, asked' = asked \cup {group},
         \A i \in batch' : i \in batch \/ i.in = group
  PROVE  Asking' /\ InGroups' /\ OnPages' /\ NoneMissed' /\ EveryGroupIsAsked'
<1>1. TypeOK /\ Asking /\ InGroups
  BY DEF IInv
<1>2. group \in 1 .. Groups /\ Groups \in Nat \ {0} /\ Groups' = Groups
  BY <1>1, Numbers DEF TypeOK, Groups
<1>3. \A i \in batch' : i.in \in 1 .. group
  BY <1>1, <1>2 DEF InGroups
<1>4. 1 .. group \subseteq asked'
  BY <1>1, <1>2 DEF Asking
<1>5. removals' <= changes'
  BY DEF TurnsGroup, Ends, Raise, Encounter, Forget
<1>6. CASE TurnsGroup
  <2>1. state' = "fetching" /\ group' = group + 1 /\ next' = 1 /\ listing' \in Listings
    BY <1>6 DEF TurnsGroup, Encounter
  <2>2. Above(1) = 0 /\ Above(next)' = 0
    BY <2>1, AboveNext DEF Above
  <2>3. DOMAIN listing' = 1 .. Len(listing')
    BY <2>1, ListingType
  <2>4. Asking'
    BY <1>1, <1>2, <1>4, <1>5, <2>1 DEF Asking
  <2>5. InGroups' /\ OnPages'
    BY <1>2, <1>3, <2>1 DEF InGroups, OnPages
  <2>6. NoneMissed'
    BY <2>2, <2>3 DEF NoneMissed
  <2>7. QED
    BY <2>1, <2>4, <2>5, <2>6 DEF EveryGroupIsAsked
<1>7. CASE Ends
  <2>1. state' = "done" /\ group = Groups
    BY <1>7 DEF Ends
  <2>2. asked' = 1 .. Groups
    <3>1. asked \subseteq 1 .. group \cup {1} /\ 1 \in 1 .. group
      BY <1>1, <1>2 DEF TypeOK
    <3>2. asked' \subseteq 1 .. group
      BY <1>2, <3>1
    <3>3. QED
      BY <1>4, <2>1, <3>2
  <2>3. QED
    BY <1>2, <1>5, <2>1, <2>2
       DEF Asking, InGroups, OnPages, NoneMissed, EveryGroupIsAsked
<1>8. CASE Raise
  BY <1>5, <1>8 DEF Raise, Asking, InGroups, OnPages, NoneMissed, EveryGroupIsAsked
<1>9. QED
  BY <1>6, <1>7, <1>8

\* On the next page, what was on this one is taken.
LEMMA PageHolds ==
  ASSUME IInv, state = "fetching", TurnsPage, source' = source,
         asked' = asked \cup {group}, batch' = batch \cup New(PageOf(next))
  PROVE  Asking' /\ InGroups' /\ OnPages' /\ NoneMissed' /\ EveryGroupIsAsked'
<1>1. TypeOK /\ Asking /\ InGroups /\ OnPages /\ NoneMissed
  BY DEF IInv
<1>2. /\ state' = "fetching" /\ group' = group /\ next' = next + 1 /\ listing' = listing
      /\ steady' = steady /\ changes' = changes /\ removals' = removals
  BY DEF TurnsPage, outside
<1>3. source \notin Boards
  BY <1>1, PageBounds DEF TurnsPage
<1>4. /\ next \in Nat \ {0} /\ Above(next) \in Nat /\ Above(next + 1) = Above(next) + PageSize
      /\ Above(next)' = Above(next + 1) /\ Above(next) <= Above(next + 1)
      /\ PageOf(next) = {k \in DOMAIN listing : Above(next) < k /\ k <= Above(next + 1)}
      /\ group \in Nat \ {0} /\ DOMAIN listing \subseteq Nat
  <2>1. next \in Nat \ {0} /\ PageSize \in Nat \ {0}
    BY <1>1, PageBounds, Numbers
  <2>2. Above(next)' = Above(next + 1)
    BY <1>2 DEF Above
  <2>3. /\ Above(next) \in Nat /\ Above(next + 1) = Above(next) + PageSize
        /\ Above(next) <= Above(next + 1)
    BY <2>1, AboveNext
  <2>4. PageOf(next) = {k \in DOMAIN listing : Above(next) < k /\ k <= Above(next + 1)}
        /\ group \in Nat \ {0} /\ listing \in Seq(Postings)
    BY <1>1, <1>3, PageBounds
  <2>5. DOMAIN listing \subseteq Nat
    BY <2>4
  <2>6. QED
    BY <2>1, <2>2, <2>3, <2>4, <2>5
<1>5. Asking' /\ EveryGroupIsAsked'
  BY <1>1, <1>2 DEF Asking, EveryGroupIsAsked
<1>6. InGroups'
  BY <1>1, <1>2, <1>4, NewItems DEF InGroups
<1>7. OnPages'
  <2>1. SUFFICES ASSUME changes = 0, NEW i \in batch', i.in = group
                 PROVE  \E k \in DOMAIN listing : k <= Above(next + 1) /\ listing[k].key = i.key
    BY <1>2, <1>4 DEF OnPages
  <2>2. CASE i \in batch
    <3>1. PICK k \in DOMAIN listing : k <= Above(next) /\ listing[k].key = i.key
      BY <1>1, <2>1, <2>2 DEF OnPages
    <3>2. k <= Above(next + 1)
      BY <1>4, <3>1, Numbers
    <3>3. QED
      BY <3>1, <3>2
  <2>3. CASE i \in New(PageOf(next))
    BY <1>1, <1>4, <2>3, NewItems
  <2>4. QED
    BY <2>1, <2>2, <2>3
<1>8. NoneMissed'
  <2>1. SUFFICES ASSUME removals = 0, NEW k \in DOMAIN listing, listing[k] \in steady,
                        k <= Above(next + 1), ~Passed(listing[k])
                 PROVE  \E i \in batch' : i.in = group /\ i.key = listing[k].key
    BY <1>2, <1>4 DEF NoneMissed, Taken, Passed
  <2>2. CASE k <= Above(next)
    BY <1>1, <2>1, <2>2 DEF NoneMissed, Taken
  <2>3. CASE ~(k <= Above(next))
    <3>1. k \in PageOf(next)
      BY <1>4, <2>1, <2>3
    <3>2. [in |-> group, key |-> listing[k].key, is |-> Normalized(listing[k])] \in batch'
      BY <1>3, <2>1, <3>1, KeptOfPage DEF New
    <3>3. QED
      BY <3>2
  <2>4. QED
    BY <2>2, <2>3
<1>9. QED
  BY <1>5, <1>6, <1>7, <1>8

LEMMA RequestHolds ==
  ASSUME IInv, RequestFails \/ OddAnswer \/ Answer
  PROVE  IInv'
<1>1. TypeOK /\ Asking /\ ItemsAreConsistent /\ state = "fetching"
  BY DEF IInv, RequestFails, OddAnswer, Answer
<1>2. source' = source /\ asked' = asked \cup {group} /\ group \in 1 .. Groups
  BY <1>1 DEF RequestFails, OddAnswer, Answer, TypeOK
<1>3. \/ batch' = batch \/ batch' = batch \cup New(PageOf(next))
  BY AnswerCases DEF RequestFails, OddAnswer
<1>4. \A i \in batch' : i \in batch \/ (i.in = group /\ i.is \in Items /\ Consistent(i.is))
  BY <1>1, <1>3, NewItems
<1>5. repeated' \in BOOLEAN
  <2>1. repeated \in BOOLEAN /\ Repeats \in BOOLEAN
    BY <1>1 DEF TypeOK, Repeats
  <2>2. CASE RequestFails \/ OddAnswer
    BY <2>1, <2>2 DEF RequestFails, OddAnswer
  <2>3. CASE Answer
    BY <2>1, <2>3, AnswerCases
  <2>4. QED
    BY <2>2, <2>3
<1>6. TurnsGroup \/ Ends \/ Raise
      \/ (TurnsPage /\ batch' = batch \cup New(PageOf(next)))
  <2>1. CASE RequestFails \/ OddAnswer
    BY <1>1, <2>1, Turns DEF RequestFails, OddAnswer
  <2>2. CASE Answer
    BY <1>1, <2>2, Turns, AnswerCases
  <2>3. QED
    BY <2>1, <2>2
<1>7. TypeOK'
  <2>1. \A i \in batch' : i.is \in Items
    BY <1>1, <1>4 DEF TypeOK
  <2>2. QED
    BY <1>1, <1>2, <1>5, <1>6, <2>1, TurnType
<1>8. Asking' /\ InGroups' /\ OnPages' /\ NoneMissed' /\ EveryGroupIsAsked'
  <2>1. CASE TurnsGroup \/ Ends \/ Raise
    BY <1>1, <1>2, <1>4, <2>1, TurnHolds
  <2>2. CASE TurnsPage /\ batch' = batch \cup New(PageOf(next))
    BY <1>1, <1>2, <2>2, PageHolds
  <2>3. QED
    BY <1>6, <2>1, <2>2
<1>9. ItemsAreConsistent'
  BY <1>1, <1>2, <1>4 DEF ItemsAreConsistent, Consistent
<1>10. QED
  BY <1>7, <1>8, <1>9 DEF IInv

LEMMA BeginHolds ==
  ASSUME IInv, NEW c \in CONNECTOR_REGISTRY,
         \/ c \notin DOMAIN Curated /\ Start(c)
         \/ c \in DOMAIN Curated /\ FetchCurated(c)
  PROVE  IInv'
<1>1. TypeOK
  BY DEF IInv
<1>2. CASE c \notin DOMAIN Curated /\ Start(c)
  <2>1. /\ state' = "fetching" /\ group' = 1 /\ next' = 1 /\ batch' = {} /\ asked' = {}
        /\ source' = c /\ c \in Boards \cup Paged /\ repeated' = FALSE
        /\ listing' \in Listings /\ steady' = Members(listing')
        /\ changes' = 0 /\ removals' = 0
    BY <1>2 DEF Start, Encounter, CONNECTOR_REGISTRY
  <2>2. Groups' \in Nat \ {0} /\ Pages' \in Nat \ {0} /\ 0 \in 0 .. MaxChanges
    <3>1. Len(Kinds) = 3
      BY DEF Kinds
    <3>2. QED
      BY <2>1, <3>1, ConnectorsAssumption DEF Groups, Pages
  <2>3. Above(next)' = 0 /\ DOMAIN listing' = 1 .. Len(listing')
    BY <2>1, AboveNext, ListingType DEF Above
  <2>4. TypeOK'
    <3>1. state' = "fetching" => group' \in 1 .. Groups' /\ next' \in 1 .. Pages'
      BY <2>1, <2>2
    <3>2. source' \in CONNECTOR_REGISTRY \cup {None} /\ state' \in {"idle", "fetching", "done", "raised"}
      BY <2>1
    <3>3. asked' \subseteq 1 .. group' \cup {1} /\ repeated' \in BOOLEAN
          /\ \A i \in batch' : i.is \in Items
      BY <2>1
    <3>4. changes' \in 0 .. MaxChanges /\ removals' \in 0 .. MaxChanges
          /\ steady' \subseteq Members(listing')
      BY <2>1, <2>2
    <3>5. QED
      BY <2>1, <3>1, <3>2, <3>3, <3>4 DEF TypeOK
  <2>5. NoneMissed'
    BY <2>3 DEF NoneMissed
  <2>6. QED
    BY <2>1, <2>4, <2>5 DEF IInv, Asking, InGroups, OnPages, EveryGroupIsAsked,
                            ItemsAreConsistent
<1>3. CASE c \in DOMAIN Curated /\ FetchCurated(c)
  <2>1. /\ state' = "done" /\ batch' = Curated[c] /\ asked' = {1} /\ source' = c
        /\ repeated' = FALSE
        /\ UNCHANGED <<group, next, listing, steady, changes, removals>>
    BY <1>3 DEF FetchCurated, outside
  <2>2. \A i \in batch' : i.is \in Items /\ i.is.country = "Global"
    BY <1>3, <2>1, CuratedAssumption
  <2>3. TypeOK'
    BY <1>1, <2>1, <2>2 DEF TypeOK
  <2>4. ItemsAreConsistent'
    BY <1>3, <2>1, <2>2, CuratedAssumption, NoneAssumption DEF ItemsAreConsistent
  <2>5. QED
    BY <1>3, <2>1, <2>3, <2>4 DEF IInv, Asking, InGroups, OnPages, NoneMissed,
                                  EveryGroupIsAsked
<1>4. QED
  BY <1>2, <1>3

LEMMA ReturnHolds ==
  ASSUME IInv, Return
  PROVE  IInv'
  BY DEF IInv, Return, TypeOK, Asking, InGroups, OnPages, NoneMissed,
         EveryGroupIsAsked, ItemsAreConsistent, outside

\* A posting that comes in moves others down, and is not one that stayed.
LEMMA PostHolds ==
  ASSUME IInv, Post
  PROVE  IInv'
<1>1. /\ TypeOK /\ Asking /\ InGroups /\ OnPages /\ NoneMissed /\ EveryGroupIsAsked
      /\ ItemsAreConsistent
  BY DEF IInv
<1>2. PICK p \in Postings \ Members(listing), k \in 0 .. Len(listing) :
        listing' = With(listing, k, p)
  BY DEF Post
<1>3. /\ state = "fetching" /\ changes < MaxChanges /\ changes' = changes + 1
      /\ Len(listing) < MaxListed
      /\ UNCHANGED <<source, state, group, next, batch, repeated, asked, steady, removals>>
  BY DEF Post, Changes, loop
<1>4. listing \in Seq(Postings)
      /\ \A i, j \in 1 .. Len(listing) : listing[i] = listing[j] => i = j
  BY <1>1, ListingType DEF TypeOK
<1>5. /\ listing' \in Seq(Postings) /\ Len(listing') = Len(listing) + 1
      /\ \A j \in 1 .. Len(listing) + 1 :
           listing'[j] = IF j <= k THEN listing[j]
                         ELSE IF j = k + 1 THEN p ELSE listing[j - 1]
  BY <1>2, <1>4, WithType DEF With
<1>6. ASSUME NEW j \in 1 .. Len(listing) + 1
      PROVE  \/ j = k + 1 /\ listing'[j] = p
             \/ \E i \in 1 .. Len(listing) :
                  /\ i <= j /\ listing'[j] = listing[i]
                  /\ \/ j <= k /\ i = j
                     \/ j > k + 1 /\ i = j - 1
  <2>1. CASE j <= k
    <3>1. j \in 1 .. Len(listing) /\ j <= j /\ listing'[j] = listing[j]
      BY <1>4, <1>5, <2>1
    <3>2. QED
      BY <2>1, <3>1
  <2>2. CASE j = k + 1
    BY <1>5, <2>2
  <2>3. CASE j > k + 1
    <3>1. j - 1 \in 1 .. Len(listing) /\ j - 1 <= j /\ listing'[j] = listing[j - 1]
      BY <1>4, <1>5, <2>3
    <3>2. QED
      BY <2>3, <3>1
  <2>4. QED
    BY <1>4, <2>1, <2>2, <2>3
<1>7. \A i \in 1 .. Len(listing) : listing[i] # p
  BY <1>2, <1>4 DEF Members
<1>8. ASSUME NEW i \in 1 .. Len(listing) + 1, NEW j \in 1 .. Len(listing) + 1,
             listing'[i] = listing'[j]
      PROVE  i = j
  <2>1. CASE i = k + 1 \/ j = k + 1
    BY <1>6, <1>7, <1>8, <2>1
  <2>2. CASE i # k + 1 /\ j # k + 1
    <3> DEFINE Before(m) == IF m <= k THEN m ELSE m - 1
    <3>1. Len(listing) \in Nat /\ k \in 0 .. Len(listing)
      BY <1>4
    <3>2. Before(i) \in 1 .. Len(listing) /\ Before(j) \in 1 .. Len(listing)
      BY <2>2, <3>1
    <3>3. listing'[i] = listing[Before(i)] /\ listing'[j] = listing[Before(j)]
      BY <1>5, <2>2, <3>1
    <3>4. Before(i) = Before(j)
      <4> HIDE DEF Before
      <4> QED
        BY <1>4, <1>8, <3>2, <3>3
    <3>5. QED
      BY <2>2, <3>1, <3>4
  <2>3. QED
    BY <2>1, <2>2
<1>9. Members(listing) \subseteq Members(listing')
  <2>1. SUFFICES ASSUME NEW i \in 1 .. Len(listing)
                 PROVE  \E j \in 1 .. Len(listing) + 1 : listing'[j] = listing[i]
    <3>1. DOMAIN listing = 1 .. Len(listing) /\ DOMAIN listing' = 1 .. Len(listing) + 1
      BY <1>4, <1>5
    <3>2. QED
      BY <2>1, <3>1 DEF Members
  <2>2. CASE i <= k
    <3>1. i \in 1 .. Len(listing) + 1 /\ listing'[i] = listing[i]
      BY <1>4, <1>5, <2>2
    <3>2. QED
      BY <3>1
  <2>3. CASE i > k
    <3>1. i + 1 \in 1 .. Len(listing) + 1 /\ ~(i + 1 <= k) /\ i + 1 # k + 1
          /\ (i + 1) - 1 = i
      BY <1>4, <2>3
    <3>2. listing'[i + 1] = listing[i]
      BY <1>5, <3>1
    <3>3. QED
      BY <3>1, <3>2
  <2>4. QED
    BY <1>4, <2>2, <2>3
<1>10. TypeOK'
  <2>1. listing' \in Listings
    <3>1. Len(listing') <= MaxListed
      BY <1>3, <1>4, <1>5, Numbers
    <3>2. \A i, j \in 1 .. Len(listing') : listing'[i] = listing'[j] => i = j
      BY <1>5, <1>8
    <3>3. QED
      BY <1>5, <3>1, <3>2, ListingType
  <2>2. changes' \in 0 .. MaxChanges
    BY <1>1, <1>3, Numbers DEF TypeOK
  <2>3. Groups' = Groups /\ Pages' = Pages
    BY <1>3 DEF Groups, Pages
  <2>4. QED
    BY <1>1, <1>3, <1>9, <2>1, <2>2, <2>3 DEF TypeOK
<1>11. NoneMissed'
  <2>1. SUFFICES ASSUME removals = 0, NEW j \in 1 .. Len(listing) + 1,
                        listing'[j] \in steady, j <= Above(next)
                 PROVE  Passed(listing'[j]) \/ Taken(listing'[j])
    BY <1>3, <1>5 DEF NoneMissed, Above, Passed, Taken
  <2>2. p \notin steady
    BY <1>1, <1>2 DEF TypeOK
  <2>3. PICK i \in 1 .. Len(listing) : i <= j /\ listing'[j] = listing[i]
    BY <1>6, <2>1, <2>2
  <2>4. Above(next) \in Nat /\ i <= Above(next)
    BY <1>1, <1>3, <1>4, <2>1, <2>3, PageBounds
  <2>5. QED
    BY <1>1, <1>3, <1>4, <2>1, <2>3, <2>4 DEF NoneMissed
<1>12. changes' # 0 /\ removals' <= changes'
  BY <1>1, <1>3, Numbers DEF TypeOK, Asking
<1>13. Groups' = Groups
  BY <1>3 DEF Groups
<1>14. QED
  BY <1>1, <1>3, <1>10, <1>11, <1>12, <1>13
     DEF IInv, Asking, InGroups, OnPages, EveryGroupIsAsked, ItemsAreConsistent

LEMMA WithdrawHolds ==
  ASSUME IInv, Withdraw
  PROVE  IInv'
<1>1. /\ TypeOK /\ Asking /\ InGroups /\ OnPages /\ NoneMissed /\ EveryGroupIsAsked
      /\ ItemsAreConsistent
  BY DEF IInv
<1>2. PICK k \in DOMAIN listing :
        listing' = Without(listing, k) /\ steady' = steady \ {listing[k]}
  BY DEF Withdraw
<1>3. /\ state = "fetching" /\ changes < MaxChanges /\ changes' = changes + 1
      /\ removals' = removals + 1
      /\ UNCHANGED <<source, state, group, next, batch, repeated, asked>>
  BY DEF Withdraw, Changes, loop
<1>4. listing \in Seq(Postings) /\ Len(listing) <= MaxListed /\ k \in 1 .. Len(listing)
      /\ \A i, j \in 1 .. Len(listing) : listing[i] = listing[j] => i = j
  BY <1>1, ListingType DEF TypeOK
<1>5. /\ listing' \in Seq(Postings) /\ Len(listing') = Len(listing) - 1
      /\ \A j \in 1 .. Len(listing) - 1 :
           listing'[j] = IF j < k THEN listing[j] ELSE listing[j + 1]
  BY <1>2, <1>4, WithoutType DEF Without
<1>6. ASSUME NEW j \in 1 .. Len(listing) - 1
      PROVE  \E i \in 1 .. Len(listing) :
               /\ listing'[j] = listing[i]
               /\ (j < k /\ i = j) \/ (j >= k /\ i = j + 1)
  <2>1. CASE j < k
    <3>1. /\ j \in 1 .. Len(listing) /\ listing'[j] = listing[j]
          /\ (j < k /\ j = j) \/ (j >= k /\ j = j + 1)
      BY <1>4, <1>5, <2>1
    <3>2. QED
      BY <3>1
  <2>2. CASE j >= k
    <3>1. j + 1 \in 1 .. Len(listing) /\ listing'[j] = listing[j + 1]
      BY <1>4, <1>5, <2>2
    <3>2. QED
      BY <2>2, <3>1
  <2>3. QED
    BY <1>4, <2>1, <2>2
<1>7. \A i, j \in 1 .. Len(listing') : listing'[i] = listing'[j] => i = j
  BY <1>4, <1>5, <1>6
<1>8. steady' \subseteq Members(listing')
  <2>1. SUFFICES ASSUME NEW i \in 1 .. Len(listing), i # k
                 PROVE  \E j \in 1 .. Len(listing) - 1 : listing'[j] = listing[i]
    BY <1>1, <1>2, <1>4, <1>5 DEF Members, TypeOK
  <2>2. CASE i < k
    BY <1>4, <1>5, <2>2
  <2>3. CASE i > k
    <3>1. i - 1 \in 1 .. Len(listing) - 1 /\ ~(i - 1 < k) /\ (i - 1) + 1 = i
      BY <1>4, <2>3
    <3>2. listing'[i - 1] = listing[i]
      BY <1>5, <3>1
    <3>3. QED
      BY <3>1, <3>2
  <2>4. QED
    BY <1>4, <2>1, <2>2, <2>3
<1>9. TypeOK'
  <2>1. listing' \in Listings
    <3>1. Len(listing') <= MaxListed
      BY <1>4, <1>5, Numbers
    <3>2. QED
      BY <1>5, <1>7, <3>1, ListingType
  <2>2. changes' \in 0 .. MaxChanges /\ removals' \in 0 .. MaxChanges
    BY <1>1, <1>3, Numbers DEF TypeOK, Asking
  <2>3. Groups' = Groups /\ Pages' = Pages
    BY <1>3 DEF Groups, Pages
  <2>4. QED
    BY <1>1, <1>3, <1>8, <2>1, <2>2, <2>3 DEF TypeOK
<1>10. changes' # 0 /\ removals' # 0 /\ removals' <= changes'
  BY <1>1, <1>3, Numbers DEF TypeOK, Asking
<1>11. Groups' = Groups
  BY <1>3 DEF Groups
<1>12. QED
  BY <1>1, <1>3, <1>9, <1>10, <1>11
     DEF IInv, Asking, InGroups, OnPages, NoneMissed, EveryGroupIsAsked, ItemsAreConsistent

-----------------------------------------------------------------------------
(* What holds of every fetch                                               *)

LEMMA InitHolds == Init => IInv
<1> SUFFICES ASSUME Init PROVE IInv
  OBVIOUS
<1>1. <<>> \in Listings
  <2>1. <<>> \in Seq(Postings) /\ Len(<<>>) = 0 /\ 0 <= MaxListed
    BY Numbers
  <2>2. \A j, k \in 1 .. Len(<<>>) : <<>>[j] = <<>>[k] => j = k
    BY <2>1
  <2>3. QED
    BY <2>1, <2>2, ListingType
<1>2. TypeOK
  <2>1. 0 \in 0 .. MaxChanges
    BY Numbers
  <2>2. source \in CONNECTOR_REGISTRY \cup {None} /\ state \in {"idle", "fetching", "done", "raised"}
    BY DEF Init
  <2>3. steady \subseteq Members(listing) /\ asked \subseteq 1 .. group \cup {1}
        /\ \A i \in batch : i.is \in Items
    BY DEF Init
  <2>4. QED
    BY <1>1, <2>1, <2>2, <2>3 DEF Init, TypeOK
<1>3. QED
  BY <1>2 DEF Init, IInv, Asking, InGroups, OnPages, NoneMissed, EveryGroupIsAsked,
              ItemsAreConsistent

LEMMA NextHolds == IInv /\ [Next]_vars => IInv'
<1> SUFFICES ASSUME IInv, [Next]_vars PROVE IInv'
  OBVIOUS
<1>1. CASE UNCHANGED vars
  <2>1. Groups' = Groups /\ Pages' = Pages
    BY <1>1 DEF vars, loop, Groups, Pages
  <2>2. TypeOK' /\ EveryGroupIsAsked'
    BY <1>1, <2>1 DEF IInv, vars, loop, outside, TypeOK, EveryGroupIsAsked
  <2>3. NoneMissed'
    BY <1>1 DEF IInv, vars, loop, outside, NoneMissed, Above, Passed, Taken
  <2>4. QED
    BY <1>1, <2>2, <2>3 DEF IInv, vars, loop, outside, Asking, InGroups, OnPages,
         Above, ItemsAreConsistent
<1>2. CASE \/ \E c \in CONNECTOR_REGISTRY \ DOMAIN Curated : Start(c)
           \/ \E c \in DOMAIN Curated : FetchCurated(c)
  BY <1>2, BeginHolds DEF CONNECTOR_REGISTRY
<1>3. QED
  BY <1>1, <1>2, RequestHolds, ReturnHolds, PostHolds, WithdrawHolds DEF Next

\* What the lemmas above maintain holds in every reachable state.
THEOREM Invariance == Spec => []IInv
  BY InitHolds, NextHolds, PTL DEF Spec

\* Whatever the sources list and answer, a fetch's loop variables stay in
\* range and every item has the fields and values pipeline.py writes.
THEOREM TypeCorrect == Spec => []TypeOK
<1>1. IInv => TypeOK
  BY DEF IInv
<1>2. QED
  BY <1>1, Invariance, PTL

\* A fetch that returns has asked every board or kind, whichever requests
\* failed on the way (greenhouse.py 74-97, lever.py 45-64, unstop.py 52-77).
THEOREM AllAreAsked == Spec => []EveryGroupIsAsked
<1>1. IInv => EveryGroupIsAsked
  BY DEF IInv
<1>2. QED
  BY <1>1, Invariance, PTL

\* Internships of a job board are its postings for interns, and what is remote
\* has a country (greenhouse.py 99-124, lever.py 69-100).
THEOREM Consistency == Spec => []ItemsAreConsistent
<1>1. IInv => ItemsAreConsistent
  BY DEF IInv
<1>2. QED
  BY <1>1, Invariance, PTL

\* What a source listed all the time its pages were fetched, within reach, is
\* in the batch, if nothing was withdrawn (unstop.py 54-76, devpost.py 47-64).
THEOREM StayersAreFetched == Spec => WhatStaysIsFetched
<1>1. ASSUME IInv, Answer, Leaves, removals = 0,
             NEW p \in steady \cap Reach, ~Passed(p)
      PROVE  \E i \in batch' : i.in = group /\ i.key = p.key
  <2>1. TypeOK /\ Asking /\ NoneMissed /\ state = "fetching"
    BY <1>1 DEF IInv, Answer
  <2>2. group \in Nat \ {0} /\ next \in Nat \ {0}
    BY <2>1, PageBounds
  <2>3. /\ batch' = batch \cup New(PageOf(next))
        /\ PageOf(next) = {} \/ next = Pages
    <3>1. ~Raise /\ ~TurnsPage
      BY <1>1, <2>1 DEF Leaves, Raise, TurnsPage
    <3>2. QED
      BY <1>1, <2>1, <3>1, AnswerCases, Turns
  <2>4. ASSUME p \in Kept(PageOf(next))
        PROVE  \E i \in batch' : i.in = group /\ i.key = p.key
    <3>1. [in |-> group, key |-> p.key, is |-> Normalized(p)] \in batch'
      BY <2>3, <2>4 DEF New
    <3>2. QED
      BY <3>1
  <2>5. CASE source \in Boards
    <3>1. p \in Kept(PageOf(next))
      BY <1>1, <2>1, <2>5, PageBounds DEF Reach
    <3>2. QED
      BY <2>4, <3>1
  <2>6. CASE source \notin Boards
    <3>1. PICK k \in DOMAIN listing : p = listing[k] /\ k <= Pages * PageSize
      BY <1>1, <2>6 DEF Reach
    <3>2. /\ PageOf(next) = {j \in DOMAIN listing : Above(next) < j /\ j <= Above(next + 1)}
          /\ listing \in Seq(Postings) /\ Above(next) \in Nat
      BY <2>1, <2>6, PageBounds
    <3>3. /\ Above(next + 1) = Above(next) + PageSize /\ PageSize \in Nat \ {0}
          /\ Above(next + 1) = next * PageSize
      BY <2>2, AboveNext, Numbers
    <3>4. CASE k <= Above(next)
      BY <1>1, <2>1, <2>3, <3>1, <3>4 DEF NoneMissed, Taken
    <3>5. CASE Above(next) < k
      <4>1. PageOf(next) # {}
        <5>1. Above(next) + 1 \in DOMAIN listing
          BY <3>1, <3>2, <3>5
        <5>2. Above(next) < Above(next) + 1 /\ Above(next) + 1 <= Above(next + 1)
          BY <3>2, <3>3
        <5>3. QED
          BY <3>2, <5>1, <5>2
      <4>2. k \in PageOf(next)
        BY <2>3, <3>1, <3>2, <3>3, <3>5, <4>1
      <4>3. p \in Kept(PageOf(next))
        BY <1>1, <2>6, <3>1, <4>2, KeptOfPage
      <4>4. QED
        BY <2>4, <4>3
    <3>6. QED
      BY <3>1, <3>2, <3>4, <3>5
  <2>7. QED
    BY <2>5, <2>6
<1>2. IInv /\ [Next]_vars =>
        [Answer /\ Leaves /\ removals = 0 =>
           \A p \in (steady \cap Reach) :
             Passed(p) \/ \E i \in batch' : i.in = group /\ i.key = p.key]_vars
  BY <1>1
<1>3. QED
  BY Invariance, <1>2, PTL DEF Spec, WhatStaysIsFetched

\* A batch holds an item twice only if the listing changed between two of its
\* pages (unstop.py 54-76, devpost.py 47-64).
THEOREM OnlyChangesDuplicate == Spec => OnlyChangesRepeat
<1>1. ASSUME IInv, Next, ~repeated, repeated'
      PROVE  changes > 0
  <2>1. Answer
    BY <1>1 DEF Next, Start, FetchCurated, RequestFails, OddAnswer, Return, Post,
                Withdraw, loop
  <2>2. TypeOK /\ Asking /\ OnPages /\ state = "fetching" /\ Repeats
    BY <1>1, <2>1, AnswerCases DEF IInv
  <2>3. PICK i \in New(PageOf(next)), j \in batch : i.in = j.in /\ i.key = j.key
    BY <2>2 DEF Repeats
  <2>4. PICK k \in PageOf(next) : i.key = listing[k].key
    BY <2>2, NewItems
  <2>5. i.in = group /\ k \in DOMAIN listing /\ Above(next) < k
    BY <2>2, NewItems, PageBounds
  <2>6. ASSUME changes = 0
        PROVE  FALSE
    <3>1. PICK l \in DOMAIN listing : l <= Above(next) /\ listing[l].key = j.key
      BY <2>2, <2>3, <2>5, <2>6 DEF OnPages
    <3>2. listing \in Seq(Postings) /\ Above(next) \in Nat
      BY <2>2, PageBounds
    <3>3. listing[l] = listing[k]
      BY <2>3, <2>4, <2>5, <3>1, <3>2, PostingsAssumption
    <3>4. l = k
      BY <2>2, <2>5, <3>1, <3>2, <3>3, ListingType DEF TypeOK
    <3>5. QED
      BY <2>5, <3>1, <3>2, <3>4
  <2>7. QED
    BY <2>2, <2>6, Numbers DEF TypeOK
<1>2. IInv /\ [Next]_vars => [~repeated /\ repeated' => changes > 0]_vars
  BY <1>1 DEF vars, loop
<1>3. QED
  BY Invariance, <1>2, PTL DEF Spec, OnlyChangesRepeat
=============================================================================
