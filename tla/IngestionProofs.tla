--------------------------- MODULE IngestionProofs ---------------------------
(***************************************************************************)
(* For any number of requests, connectors, items and tags: the state of    *)
(* ingestion stays well typed, its tags and the links to them stay sound,  *)
(* hashes name what they were computed from, and connector_runs tells what *)
(* happened, whatever transactions overlap, clash, deadlock or crash.      *)
(*                                                                         *)
(* None of it is inductive.  Typed adds to TypeOK where a request can be:  *)
(* inside its plan, its batch and its item's tag list, and with an UPDATE  *)
(* only of rows that exist.  Sound and Spelled add to the properties of    *)
(* committed tags what every open transaction keeps of its own.  Exact     *)
(* says, of requests that do not overlap, that the loaded copy is the row  *)
(* that a commit would leave.  Told says that a transaction has counted    *)
(* the rows it is about to add, and that no other has a write of the same. *)
(***************************************************************************)
EXTENDS Ingestion, FiniteSetTheorems, TLAPS

InRun(r)  == pc[r] \in {"newSource", "fetch", "load", "item", "tag", "newTag"}
Tagging(r) == pc[r] \in {"tag", "newTag"}

\* A request in run_connector is at a known key of its plan.
AtKey ==
  \A r \in Requests : InRun(r) => at[r] \in DOMAIN plan[r] /\ Key(r) \in Connectors

\* A request in _sync_tags is at a tag of an item whose row it wrote.
AtTag ==
  \A r \in Requests : Tagging(r) =>
    /\ pos[r] \in DOMAIN batch[r]
    /\ ti[r] \in DOMAIN Item(r).tags
    /\ wopps[r][Slot(r)] # NoWrite

\* A loaded row is still there: opportunities are never deleted.
Loaded ==
  \A r \in Requests : pc[r] \in {"item", "tag", "newTag"} =>
    \A i \in ExternalIds : view[r][i] # NoRow => opps[<<Key(r), i>>] # NoRow

\* A write that keeps a column has a committed row to keep it of.
Founded ==
  \A r \in Requests, k \in RowKeys :
    wopps[r][k] # NoWrite =>
      opps[k] # NoRow \/ \A f \in Fields : wopps[r][k].set[f] # Keep

Typed == TypeOK /\ AtKey /\ AtTag /\ Loaded /\ Founded

-----------------------------------------------------------------------------
(* What the helpers return                                                 *)

LEMMA ItemType ==
  ASSUME TypeOK, NEW r \in Requests, pos[r] \in DOMAIN batch[r]
  PROVE  /\ Item(r) \in Items
         /\ Item(r).id \in ExternalIds
         /\ Item(r).content \in [Fields -> Values]
         /\ Item(r).tags \in Seq(TagNames)
<1>1. batch[r] \in Seq(Items)
  BY DEF TypeOK
<1>2. Item(r) \in Items
  BY <1>1 DEF Item
<1>3. QED
  BY <1>2 DEF Items

LEMMA HashType ==
  ASSUME NEW item \in Items
  PROVE  Hash(item) \in Hashes
<1>1. item.content \in [Fields -> Values] /\ item.tags \in Seq(TagNames)
  BY DEF Items
<1>2. ASSUME NEW t \in TagNames
      PROVE  Cardinality({i \in DOMAIN item.tags : item.tags[i] = t}) \in Nat
  <2>1. IsFiniteSet(1 .. Len(item.tags))
    BY <1>1, FS_Interval
  <2>2. IsFiniteSet({i \in DOMAIN item.tags : item.tags[i] = t})
    BY <1>1, <2>1, FS_Subset
  <2>3. QED
    BY <2>2, FS_CardinalityType
<1>3. QED
  BY <1>1, <1>2, IngestionAssumption DEF Hash, Hashes

LEMMA SlotType ==
  ASSUME TypeOK, AtKey, NEW r \in Requests, InRun(r), pos[r] \in DOMAIN batch[r]
  PROVE  Slot(r) \in RowKeys
  BY ItemType DEF Slot, RowKeys, AtKey

LEMMA NameType ==
  ASSUME TypeOK, AtTag, NEW r \in Requests, Tagging(r)
  PROVE  Name(r) \in TagNames
<1>1. Item(r).tags \in Seq(TagNames) /\ ti[r] \in DOMAIN Item(r).tags
  BY ItemType DEF AtTag
<1>2. QED
  BY <1>1 DEF Name

\* Applying a transaction's writes gives every slot a row or leaves it empty,
\* and empties none.
LEMMA AfterType ==
  ASSUME Typed, NEW r \in Requests, NEW k \in RowKeys
  PROVE  /\ After(r, k) \in Rows \cup {NoRow}
         /\ opps[k] # NoRow => After(r, k) # NoRow
<1>1. opps[k] \in Rows \cup {NoRow} /\ wopps[r][k] \in Writes \cup {NoWrite}
  BY DEF Typed, TypeOK
<1>2. CASE wopps[r][k] = NoWrite
  BY <1>1, <1>2 DEF After
<1>3. CASE wopps[r][k] # NoWrite
  <2>1. wopps[r][k] \in Writes
    BY <1>1, <1>3
  <2>2. wopps[r][k].set \in [Fields -> Values \cup {Keep}]
        /\ wopps[r][k].hash \in Hashes /\ wopps[r][k].tags \in SUBSET TagNames
    BY <2>1 DEF Writes
  <2>3. opps[k] \in Rows \/ \A f \in Fields : wopps[r][k].set[f] # Keep
    BY <1>1, <1>3 DEF Typed, Founded
  <2>4. opps[k] \in Rows => opps[k].content \in [Fields -> Values]
    BY DEF Rows
  <2>5. [f \in Fields |-> IF wopps[r][k].set[f] = Keep
                          THEN opps[k].content[f]
                          ELSE wopps[r][k].set[f]] \in [Fields -> Values]
    BY <2>2, <2>3, <2>4
  <2>6. After(r, k) \in Rows
    BY <1>3, <2>2, <2>5 DEF After, Rows
  <2>7. QED
    BY <2>6, SentinelAssumption
<1>4. QED
  BY <1>2, <1>3

-----------------------------------------------------------------------------
(* Typed is an invariant.                                                  *)

\* What the end of a transaction leaves a request with.
LEMMA EndTxType ==
  ASSUME TypeOK, NEW r \in Requests, EndTx(r)
  PROVE  /\ batch' \in [Requests -> Seq(Items)]
         /\ pos' \in [Requests -> Nat \ {0}]
         /\ ti' \in [Requests -> Nat \ {0}]
         /\ view' \in [Requests -> [ExternalIds -> Rows \cup {NoRow}]]
         /\ cache' \in [Requests -> SUBSET TagNames]
         /\ stats' \in [Requests -> [created: Nat, updated: Nat, failed: Nat]]
         /\ wsources' \in [Requests -> SUBSET Connectors]
         /\ wopps' \in [Requests -> [RowKeys -> Writes \cup {NoWrite}]]
         /\ wtags' \in [Requests -> SUBSET TagNames]
<1>1. /\ batch' \in [Requests -> Seq(Items)]
      /\ pos' \in [Requests -> Nat \ {0}]
      /\ ti' \in [Requests -> Nat \ {0}]
  BY DEF TypeOK, EndTx
<1>2. view' \in [Requests -> [ExternalIds -> Rows \cup {NoRow}]]
  BY DEF TypeOK, EndTx, NoView
<1>3. stats' \in [Requests -> [created: Nat, updated: Nat, failed: Nat]]
  BY DEF TypeOK, EndTx, NoStats
<1>4. wopps' \in [Requests -> [RowKeys -> Writes \cup {NoWrite}]]
  BY DEF TypeOK, EndTx
<1>5. /\ cache' \in [Requests -> SUBSET TagNames]
      /\ wsources' \in [Requests -> SUBSET Connectors]
      /\ wtags' \in [Requests -> SUBSET TagNames]
  BY DEF TypeOK, EndTx
<1>6. QED
  BY <1>1, <1>2, <1>3, <1>4, <1>5

\* The end of a transaction concerns no other request.
LEMMA EndTxElsewhere ==
  ASSUME TypeOK, NEW r \in Requests, EndTx(r)
  PROVE  /\ \A k \in RowKeys : wopps'[r][k] = NoWrite
         /\ \A q \in Requests \ {r} :
              /\ batch'[q] = batch[q] /\ pos'[q] = pos[q] /\ ti'[q] = ti[q]
              /\ view'[q] = view[q] /\ wopps'[q] = wopps[q]
  BY DEF TypeOK, EndTx

LEMMA AbortTyped ==
  ASSUME Typed, NEW r \in Requests, Abort(r)
  PROVE  Typed'
<1>1. TypeOK /\ EndTx(r) /\ UNCHANGED <<sources, opps, tags, runs, plan, at>>
  BY DEF Typed, Abort, tables
<1>2. TypeOK'
  <2>1. pc' \in [Requests -> Steps] /\ reply' \in [Requests -> {"pending", "ok", "error"}]
    BY <1>1 DEF TypeOK, Abort, Goto, Steps
  <2>2. QED
    BY <1>1, <2>1, EndTxType DEF TypeOK
<1>3. pc'[r] = "done" /\ \A q \in Requests \ {r} : pc'[q] = pc[q]
  BY <1>1 DEF TypeOK, Abort, Goto
<1>4. /\ \A k \in RowKeys : wopps'[r][k] = NoWrite
      /\ \A q \in Requests \ {r} :
           /\ batch'[q] = batch[q] /\ pos'[q] = pos[q] /\ ti'[q] = ti[q]
           /\ view'[q] = view[q] /\ wopps'[q] = wopps[q]
  BY <1>1, EndTxElsewhere
<1>5. AtKey'
  BY <1>1, <1>3 DEF Typed, AtKey, InRun, Key
<1>6. AtTag'
  BY <1>1, <1>3, <1>4 DEF Typed, AtTag, Tagging, Item, Slot, Key
<1>7. Loaded'
  BY <1>1, <1>3, <1>4 DEF Typed, Loaded, Key
<1>8. Founded'
  BY <1>1, <1>4 DEF Typed, Founded
<1>9. QED
  BY <1>2, <1>5, <1>6, <1>7, <1>8 DEF Typed

LEMMA CommitTyped ==
  ASSUME Typed, NEW r \in Requests, InRun(r),
         NEW status \in {"success", "partial", "failed"}, NEW found \in Nat,
         Commit(r, status, found), UNCHANGED <<plan, reply>>
  PROVE  Typed'
<1>1. \A k \in RowKeys : /\ opps'[k] \in Rows \cup {NoRow}
                         /\ opps[k] # NoRow => opps'[k] # NoRow
  BY AfterType DEF Commit
<1>2. TypeOK /\ EndTx(r)
  BY DEF Typed, Commit
<1>3. TypeOK'
  <2>1. opps' \in [RowKeys -> Rows \cup {NoRow}]
    BY <1>1 DEF Commit
  <2>2. RunRow(r, status, found) \in RunRows
    <3>1. stats[r] \in [created: Nat, updated: Nat, failed: Nat]
      BY DEF Typed, TypeOK
    <3>2. Key(r) \in Connectors
      BY DEF Typed, AtKey
    <3>3. QED
      BY <3>1, <3>2 DEF RunRow, RunRows
  <2>3. /\ sources' \subseteq Connectors /\ tags' \subseteq TagNames
        /\ runs' \subseteq RunRows
    BY <2>2 DEF Typed, TypeOK, Commit
  <2>4. pc' \in [Requests -> Steps] /\ at' \in [Requests -> Nat \ {0}]
    BY DEF Typed, TypeOK, Commit, Goto, Steps
  <2>5. QED
    BY <1>2, <2>1, <2>3, <2>4, EndTxType DEF TypeOK
<1>4. /\ pc'[r] = "next"
      /\ \A q \in Requests \ {r} : pc'[q] = pc[q] /\ at'[q] = at[q]
  BY <1>2 DEF TypeOK, Commit, Goto
<1>5. /\ \A k \in RowKeys : wopps'[r][k] = NoWrite
      /\ \A q \in Requests \ {r} :
           /\ batch'[q] = batch[q] /\ pos'[q] = pos[q] /\ ti'[q] = ti[q]
           /\ view'[q] = view[q] /\ wopps'[q] = wopps[q]
  BY <1>2, EndTxElsewhere
<1>6. AtKey'
  BY <1>4 DEF Typed, AtKey, InRun, Key
<1>7. AtTag'
  BY <1>4, <1>5 DEF Typed, AtTag, Tagging, Item, Slot, Key
<1>8. Loaded'
  <2>1. SUFFICES ASSUME NEW q \in Requests \ {r},
                        pc[q] \in {"item", "tag", "newTag"},
                        NEW i \in ExternalIds, view[q][i] # NoRow
                 PROVE  opps'[<<Key(q), i>>] # NoRow
    BY <1>4, <1>5 DEF Loaded, Key
  <2>2. <<Key(q), i>> \in RowKeys
    BY <2>1 DEF Typed, AtKey, InRun, RowKeys
  <2>3. QED
    BY <1>1, <2>1, <2>2 DEF Typed, Loaded
<1>9. Founded'
  BY <1>1, <1>5 DEF Typed, Founded
<1>10. QED
  BY <1>3, <1>6, <1>7, <1>8, <1>9 DEF Typed

\* The initial state is typed.
LEMMA InitTyped == Init => Typed
<1> SUFFICES ASSUME Init PROVE Typed
  OBVIOUS
<1>1. TypeOK
  BY DEF Init, TypeOK, NoView, NoStats, Steps
<1>2. QED
  BY <1>1 DEF Init, Typed, AtKey, AtTag, Loaded, Founded, InRun, Tagging

\* run_all, up to the fetch
LEMMA RunAllTyped ==
  ASSUME Typed, NEW r \in Requests,
         Start(r) \/ Answer(r) \/ SkipUnknown(r) \/ SelectSource(r)
  PROVE  Typed'
<1>1. TypeOK'
  <2>1. CASE Start(r)
    BY <2>1 DEF Start, Goto, tables, place, written, Typed, TypeOK, Steps
  <2>2. CASE Answer(r)
    BY <2>2 DEF Answer, Goto, tables, written, Typed, TypeOK, Steps
  <2>3. CASE SkipUnknown(r)
    BY <2>3 DEF SkipUnknown, tables, written, Typed, TypeOK
  <2>4. CASE SelectSource(r)
    BY <2>4 DEF SelectSource, Goto, tables, place, written, Typed, TypeOK, Steps
  <2>5. QED
    BY <2>1, <2>2, <2>3, <2>4
<1>2. /\ UNCHANGED <<opps, plan, batch, pos, ti, view, wopps>>
      /\ pc'[r] \in {"next", "done", "fetch", "newSource"}
      /\ \A q \in Requests \ {r} : pc'[q] = pc[q] /\ at'[q] = at[q]
  BY DEF Start, Answer, SkipUnknown, SelectSource, Goto, tables, place, written,
         Typed, TypeOK
<1>3. InRun(r)' => at'[r] \in DOMAIN plan'[r] /\ Key(r)' \in Connectors
  <2>1. SUFFICES ASSUME InRun(r)'
                 PROVE  at'[r] \in DOMAIN plan'[r] /\ Key(r)' \in Connectors
    OBVIOUS
  <2>2. SelectSource(r)
    BY <2>1 DEF Start, Answer, SkipUnknown, Goto, InRun, Typed, TypeOK
  <2>3. plan[r] \in Seq(Connectors \cup {"unknown"})
    BY PlansAssumption DEF Typed, TypeOK
  <2>4. at[r] \in DOMAIN plan[r] /\ Key(r) \in Connectors
    BY <2>2, <2>3 DEF SelectSource, Over, Typed, TypeOK
  <2>5. QED
    BY <2>2, <2>4 DEF SelectSource, place, Key
<1>4. AtKey'
  BY <1>2, <1>3 DEF Typed, AtKey, InRun, Key
<1>5. AtTag' /\ Loaded' /\ Founded'
  BY <1>2 DEF Typed, AtTag, Loaded, Founded, Tagging, Item, Slot, Key
<1>6. QED
  BY <1>1, <1>4, <1>5 DEF Typed

\* run_connector, up to the loop
LEMMA LoadTyped ==
  ASSUME Typed, NEW r \in Requests, InsertSource(r) \/ Fetch(r) \/ Load(r)
  PROVE  Typed'
<1>1. Key(r) \in Connectors /\ at[r] \in DOMAIN plan[r]
  BY DEF InsertSource, Fetch, Load, Typed, AtKey, InRun
<1>2. TypeOK'
  <2>1. CASE InsertSource(r)
    BY <1>1, <2>1 DEF InsertSource, Goto, tables, place, Typed, TypeOK, Steps
  <2>2. CASE Fetch(r)
    <3>1. batch' \in [Requests -> Seq(Items)]
      BY <1>1, <2>2, BatchesAssumption DEF Fetch, Typed, TypeOK
    <3>2. QED
      BY <2>2, <3>1 DEF Fetch, Goto, tables, written, Typed, TypeOK, Steps
  <2>3. CASE Load(r)
    <3>1. view' \in [Requests -> [ExternalIds -> Rows \cup {NoRow}]]
      <4>1. \A i \in ExternalIds : opps[<<Key(r), i>>] \in Rows \cup {NoRow}
        BY <1>1 DEF Typed, TypeOK, RowKeys
      <4>2. QED
        BY <2>3, <4>1 DEF Load, Typed, TypeOK
    <3>2. QED
      BY <2>3, <3>1 DEF Load, Goto, tables, written, Typed, TypeOK, Steps
  <2>4. QED
    BY <2>1, <2>2, <2>3
<1>3. /\ UNCHANGED <<opps, plan, at, pos, ti, wopps>>
      /\ pc'[r] \in {"fetch", "load", "item"}
      /\ \A q \in Requests \ {r} :
           pc'[q] = pc[q] /\ batch'[q] = batch[q] /\ view'[q] = view[q]
  BY DEF InsertSource, Fetch, Load, Goto, tables, place, written, Typed, TypeOK
<1>4. AtKey'
  BY <1>1, <1>3 DEF Typed, AtKey, InRun, Key
<1>5. AtTag' /\ Founded'
  BY <1>3 DEF Typed, AtTag, Founded, Tagging, Item, Slot, Key
<1>6. Loaded'
  <2>1. pc'[r] = "item" => Load(r)
    BY DEF InsertSource, Fetch, Goto, Typed, TypeOK
  <2>2. Load(r) => \A i \in ExternalIds : view'[r][i] = opps[<<Key(r), i>>]
    BY DEF Load, Typed, TypeOK
  <2>3. QED
    BY <1>3, <2>1, <2>2 DEF Typed, Loaded, Key
<1>7. QED
  BY <1>2, <1>4, <1>5, <1>6 DEF Typed

\* Going to the next item, or to the tags of the one just written.
LEMMA ToTagsType ==
  ASSUME TypeOK, NEW r \in Requests, pc[r] = "item", pos[r] \in DOMAIN batch[r],
         ToTags(r)
  PROVE  /\ pc' \in [Requests -> Steps]
         /\ pos' \in [Requests -> Nat \ {0}]
         /\ ti' \in [Requests -> Nat \ {0}]
         /\ pc'[r] \in {"item", "tag"}
         /\ pc'[r] = "tag" => /\ pos'[r] = pos[r]
                              /\ ti'[r] \in DOMAIN Item(r).tags
         /\ \A q \in Requests \ {r} :
              pc'[q] = pc[q] /\ pos'[q] = pos[q] /\ ti'[q] = ti[q]
<1>1. Item(r).tags \in Seq(TagNames)
  BY ItemType
<1>2. /\ pc \in [Requests -> Steps]
      /\ pos \in [Requests -> Nat \ {0}]
      /\ ti \in [Requests -> Nat \ {0}]
  BY DEF TypeOK
<1>3. CASE Item(r).tags = <<>>
  <2>1. pos' = [pos EXCEPT ![r] = pos[r] + 1] /\ pc' = pc /\ ti' = ti
    BY <1>3 DEF ToTags, NextItem
  <2>2. pos[r] + 1 \in Nat \ {0}
    BY <1>2
  <2>3. QED
    BY <1>2, <2>1, <2>2 DEF Steps
<1>4. CASE Item(r).tags # <<>>
  <2>1. 1 \in DOMAIN Item(r).tags
    BY <1>1, <1>4
  <2>2. /\ pos' = pos
        /\ pc' = [pc EXCEPT ![r] = "tag"]
        /\ ti' = [ti EXCEPT ![r] = 1]
    BY <1>4 DEF ToTags, Goto
  <2>3. QED
    BY <1>2, <2>1, <2>2 DEF Steps
<1>5. QED
  BY <1>3, <1>4

\* Going to the next tag, or to the next item after the last one.
LEMMA AfterTagType ==
  ASSUME TypeOK, AtTag, NEW r \in Requests, Tagging(r), AfterTag(r)
  PROVE  /\ pc' \in [Requests -> Steps]
         /\ pos' \in [Requests -> Nat \ {0}]
         /\ ti' \in [Requests -> Nat \ {0}]
         /\ pc'[r] \in {"item", "tag"}
         /\ pc'[r] = "tag" => /\ pos'[r] = pos[r]
                              /\ ti'[r] \in DOMAIN Item(r).tags
         /\ \A q \in Requests \ {r} :
              pc'[q] = pc[q] /\ pos'[q] = pos[q] /\ ti'[q] = ti[q]
<1>1. Item(r).tags \in Seq(TagNames) /\ ti[r] \in DOMAIN Item(r).tags
  BY ItemType DEF AtTag
<1>2. /\ pc \in [Requests -> Steps]
      /\ pos \in [Requests -> Nat \ {0}]
      /\ ti \in [Requests -> Nat \ {0}]
  BY DEF TypeOK
<1>3. CASE ti[r] < Len(Item(r).tags)
  <2>1. ti[r] + 1 \in DOMAIN Item(r).tags /\ ti[r] + 1 \in Nat \ {0}
    BY <1>1, <1>3
  <2>2. /\ pos' = pos
        /\ pc' = [pc EXCEPT ![r] = "tag"]
        /\ ti' = [ti EXCEPT ![r] = ti[r] + 1]
    BY <1>3 DEF AfterTag, Goto
  <2>3. QED
    BY <1>2, <2>1, <2>2 DEF Steps
<1>4. CASE ~(ti[r] < Len(Item(r).tags))
  <2>1. /\ pos' = [pos EXCEPT ![r] = pos[r] + 1]
        /\ pc' = [pc EXCEPT ![r] = "item"]
        /\ ti' = ti
    BY <1>4 DEF AfterTag, NextItem, Goto
  <2>2. pos[r] + 1 \in Nat \ {0}
    BY <1>2
  <2>3. QED
    BY <1>2, <2>1, <2>2 DEF Steps
<1>5. QED
  BY <1>3, <1>4

\* Writing an item's row.
LEMMA WriteType ==
  ASSUME Typed, NEW r \in Requests, Valid(r),
         NEW set \in [Fields -> Values \cup {Keep}],
         opps[Slot(r)] # NoRow \/ \A f \in Fields : set[f] # Keep,
         wopps' = [wopps EXCEPT ![r][Slot(r)] = ItemWrite(r, set)],
         opps' = opps
  PROVE  /\ wopps' \in [Requests -> [RowKeys -> Writes \cup {NoWrite}]]
         /\ wopps'[r][Slot(r)] # NoWrite
         /\ \A q \in Requests \ {r} : wopps'[q] = wopps[q]
         /\ Founded'
<1>1. TypeOK /\ pos[r] \in DOMAIN batch[r] /\ Slot(r) \in RowKeys
  <2>1. TypeOK /\ pos[r] \in Nat \ {0} /\ batch[r] \in Seq(Items)
    BY DEF Typed, TypeOK
  <2>2. pc[r] = "item" /\ pos[r] <= Len(batch[r])
    BY DEF Valid
  <2>3. InRun(r) /\ pos[r] \in DOMAIN batch[r]
    BY <2>1, <2>2 DEF InRun
  <2>4. QED
    BY <2>1, <2>3, SlotType DEF Typed
<1>2. ItemWrite(r, set) \in Writes /\ ItemWrite(r, set) # NoWrite
  BY <1>1, ItemType, HashType, SentinelAssumption DEF ItemWrite, Writes
<1>3. ItemWrite(r, set).set = set
  BY DEF ItemWrite
<1>4. wopps \in [Requests -> [RowKeys -> Writes \cup {NoWrite}]]
  BY <1>1 DEF TypeOK
<1>5. /\ wopps' \in [Requests -> [RowKeys -> Writes \cup {NoWrite}]]
      /\ wopps'[r][Slot(r)] = ItemWrite(r, set)
      /\ \A k \in RowKeys \ {Slot(r)} : wopps'[r][k] = wopps[r][k]
      /\ \A q \in Requests \ {r} : wopps'[q] = wopps[q]
  BY <1>1, <1>2, <1>4
<1>6. Founded'
  BY <1>1, <1>3, <1>5 DEF Typed, Founded
<1>7. QED
  BY <1>2, <1>5, <1>6

\* Linking a tag to the item's row.
LEMMA LinkType ==
  ASSUME Typed, NEW r \in Requests, Tagging(r), NEW s \in TagNames,
         wopps' = Link(r, s), opps' = opps
  PROVE  /\ wopps' \in [Requests -> [RowKeys -> Writes \cup {NoWrite}]]
         /\ wopps'[r][Slot(r)] = [wopps[r][Slot(r)] EXCEPT !.tags = @ \cup {s}]
         /\ wopps[r][Slot(r)] \in Writes
         /\ wopps'[r][Slot(r)] \in Writes
         /\ \A k \in RowKeys \ {Slot(r)} : wopps'[r][k] = wopps[r][k]
         /\ \A q \in Requests \ {r} : wopps'[q] = wopps[q]
         /\ Slot(r) \in RowKeys
         /\ Founded'
<1>1. Slot(r) \in RowKeys /\ wopps[r][Slot(r)] # NoWrite
  BY SlotType DEF Typed, AtTag, Tagging, InRun
<1>2. wopps \in [Requests -> [RowKeys -> Writes \cup {NoWrite}]]
  BY DEF Typed, TypeOK
<1>3. wopps[r][Slot(r)] \in Writes
  BY <1>1, <1>2
<1> DEFINE w == [wopps[r][Slot(r)] EXCEPT !.tags = @ \cup {s}]
<1>4. w \in Writes /\ w.set = wopps[r][Slot(r)].set
  BY <1>3 DEF Writes
<1>5. wopps' = [wopps EXCEPT ![r] = [wopps[r] EXCEPT ![Slot(r)] = w]]
  BY DEF Link
<1> HIDE DEF w
<1>6. /\ wopps' \in [Requests -> [RowKeys -> Writes \cup {NoWrite}]]
      /\ wopps'[r][Slot(r)] = w
      /\ \A k \in RowKeys \ {Slot(r)} : wopps'[r][k] = wopps[r][k]
      /\ \A q \in Requests \ {r} : wopps'[q] = wopps[q]
  BY <1>1, <1>2, <1>4, <1>5
<1>7. Founded'
  BY <1>1, <1>4, <1>6 DEF Typed, Founded
<1>8. QED
  BY <1>1, <1>3, <1>4, <1>6, <1>7 DEF w

LEMMA CountType ==
  ASSUME TypeOK, NEW r \in Requests,
         NEW what \in {"created", "updated", "failed"}, Count(r, what)
  PROVE  stats' \in [Requests -> [created: Nat, updated: Nat, failed: Nat]]
<1>1. stats \in [Requests -> [created: Nat, updated: Nat, failed: Nat]]
  BY DEF TypeOK
<1> DEFINE row == [stats[r] EXCEPT ![what] = @ + 1]
<1>2. row \in [created: Nat, updated: Nat, failed: Nat]
  <2>1. CASE what = "created"
    BY <1>1, <2>1
  <2>2. CASE what = "updated"
    BY <1>1, <2>2
  <2>3. CASE what = "failed"
    BY <1>1, <2>3
  <2>4. QED
    BY <2>1, <2>2, <2>3
<1>3. stats' = [stats EXCEPT ![r] = row]
  BY DEF Count
<1> HIDE DEF row
<1>4. QED
  BY <1>1, <1>2, <1>3

LEMMA SkipItemTyped ==
  ASSUME Typed, NEW r \in Requests, SkipInvalid(r) \/ SkipUnchanged(r)
  PROVE  Typed'
<1>1. /\ pc[r] = "item" /\ pos' = [pos EXCEPT ![r] = pos[r] + 1]
      /\ UNCHANGED <<sources, opps, tags, runs, pc, plan, at, batch, ti, view,
                     cache, reply, wsources, wopps, wtags>>
  BY DEF SkipInvalid, SkipUnchanged, Valid, NextItem, tables, written
<1>2. stats' \in [Requests -> [created: Nat, updated: Nat, failed: Nat]]
  <2>1. CASE SkipInvalid(r)
    BY <2>1, CountType DEF SkipInvalid, Typed
  <2>2. CASE SkipUnchanged(r)
    BY <2>2 DEF SkipUnchanged, Typed, TypeOK
  <2>3. QED
    BY <2>1, <2>2
<1>3. TypeOK'
  <2>1. pos' \in [Requests -> Nat \ {0}]
    BY <1>1 DEF Typed, TypeOK
  <2>2. QED
    BY <1>1, <1>2, <2>1 DEF Typed, TypeOK
<1>4. AtTag'
  BY <1>1 DEF Typed, TypeOK, AtTag, Tagging, Item, Slot, Key
<1>5. AtKey' /\ Loaded' /\ Founded'
  BY <1>1 DEF Typed, AtKey, Loaded, Founded, InRun, Key
<1>6. QED
  BY <1>3, <1>4, <1>5 DEF Typed

\* Writing an item's row moves on to its tags.
LEMMA WriteTyped ==
  ASSUME Typed, NEW r \in Requests, InsertOpp(r) \/ UpdateOpp(r)
  PROVE  Typed'
<1>1. TypeOK /\ Valid(r) /\ pc[r] = "item" /\ pos[r] \in DOMAIN batch[r]
  BY DEF Typed, TypeOK, InsertOpp, UpdateOpp, IsNew, Differs, Valid
<1>2. /\ Item(r) \in Items /\ Item(r).id \in ExternalIds
      /\ Item(r).content \in [Fields -> Values]
  BY <1>1, ItemType
<1>3. ToTags(r)
  BY DEF InsertOpp, UpdateOpp
<1>4. /\ UNCHANGED <<sources, opps, tags, runs, plan, at, batch, cache, reply,
                     wsources, wtags>>
  BY DEF InsertOpp, UpdateOpp, tables
<1>5. /\ wopps' \in [Requests -> [RowKeys -> Writes \cup {NoWrite}]]
      /\ wopps'[r][Slot(r)] # NoWrite
      /\ \A q \in Requests \ {r} : wopps'[q] = wopps[q]
      /\ Founded'
  <2>1. CASE InsertOpp(r)
    <3>1. /\ Item(r).content \in [Fields -> Values \cup {Keep}]
          /\ \A f \in Fields : Item(r).content[f] # Keep
      BY <1>2, IngestionAssumption
    <3>2. wopps' = [wopps EXCEPT ![r][Slot(r)] = ItemWrite(r, Item(r).content)]
      BY <2>1 DEF InsertOpp
    <3>3. QED
      BY <1>1, <1>4, <3>1, <3>2, WriteType
  <2>2. CASE UpdateOpp(r)
    <3>1. opps[Slot(r)] # NoRow
      BY <1>1, <1>2, <2>2 DEF UpdateOpp, Differs, Typed, Loaded, Slot
    <3>2. wopps[r][Slot(r)] \in Writes \cup {NoWrite}
      BY <1>1, SlotType DEF Typed, TypeOK, InRun
    <3>3. SetClause(r) \in [Fields -> Values \cup {Keep}]
      BY <1>2, <3>2 DEF SetClause, SetBefore, Writes
    <3>4. wopps' = [wopps EXCEPT ![r][Slot(r)] = ItemWrite(r, SetClause(r))]
      BY <2>2 DEF UpdateOpp
    <3>5. QED
      BY <1>1, <1>4, <3>1, <3>3, <3>4, WriteType
  <2>3. QED
    BY <2>1, <2>2
<1>6. /\ view' \in [Requests -> [ExternalIds -> Rows \cup {NoRow}]]
      /\ \A q \in Requests \ {r} : view'[q] = view[q]
      /\ \A i \in ExternalIds : view'[r][i] # NoRow => view[r][i] # NoRow
  <2>1. view \in [Requests -> [ExternalIds -> Rows \cup {NoRow}]]
    BY <1>1 DEF TypeOK
  <2>2. CASE InsertOpp(r)
    BY <2>1, <2>2 DEF InsertOpp
  <2>3. CASE UpdateOpp(r)
    <3>1. [content |-> Item(r).content, hash |-> Hash(Item(r)), tags |-> {}]
            \in Rows
      BY <1>2, HashType DEF Rows
    <3>2. view[r][Item(r).id] # NoRow
      BY <2>3 DEF UpdateOpp, Differs
    <3>3. PICK row \in Rows : view' = [view EXCEPT ![r][Item(r).id] = row]
      BY <2>3, <3>1 DEF UpdateOpp
    <3>4. QED
      BY <1>2, <2>1, <3>2, <3>3
  <2>4. QED
    BY <2>2, <2>3
<1>7. stats' \in [Requests -> [created: Nat, updated: Nat, failed: Nat]]
  BY <1>1, CountType DEF InsertOpp, UpdateOpp
<1>8. /\ pc' \in [Requests -> Steps]
      /\ pos' \in [Requests -> Nat \ {0}]
      /\ ti' \in [Requests -> Nat \ {0}]
      /\ pc'[r] \in {"item", "tag"}
      /\ pc'[r] = "tag" => pos'[r] = pos[r] /\ ti'[r] \in DOMAIN Item(r).tags
      /\ \A q \in Requests \ {r} :
           pc'[q] = pc[q] /\ pos'[q] = pos[q] /\ ti'[q] = ti[q]
  BY <1>1, <1>3, ToTagsType
<1>9. TypeOK'
  BY <1>1, <1>4, <1>5, <1>6, <1>7, <1>8 DEF TypeOK
<1>10. AtKey'
  BY <1>1, <1>4, <1>8 DEF Typed, AtKey, InRun, Key
<1>11. AtTag'
  BY <1>1, <1>4, <1>5, <1>8 DEF Typed, AtTag, Tagging, Item, Slot, Key
<1>12. Loaded'
  BY <1>1, <1>4, <1>6, <1>8 DEF Typed, Loaded, Key
<1>13. QED
  BY <1>5, <1>9, <1>10, <1>11, <1>12 DEF Typed

\* _sync_tags
LEMMA TagTyped ==
  ASSUME Typed, NEW r \in Requests,
         SkipRepeated(r) \/ LinkTag(r) \/ MissTag(r) \/ InsertTag(r)
  PROVE  Typed'
<1>1. TypeOK /\ Tagging(r) /\ Name(r) \in TagNames
  BY NameType DEF Typed, Tagging, SkipRepeated, LinkTag, MissTag, InsertTag
<1>2. UNCHANGED <<sources, opps, tags, runs, plan, at, batch, view, stats,
                  reply, wsources>>
  BY DEF SkipRepeated, LinkTag, MissTag, InsertTag, tables, place, written
<1>3. /\ pc' \in [Requests -> Steps]
      /\ pos' \in [Requests -> Nat \ {0}]
      /\ ti' \in [Requests -> Nat \ {0}]
      /\ pc'[r] \in {"item", "tag", "newTag"}
      /\ pc'[r] # "item" => pos'[r] = pos[r] /\ ti'[r] \in DOMAIN Item(r).tags
      /\ \A q \in Requests \ {r} :
           pc'[q] = pc[q] /\ pos'[q] = pos[q] /\ ti'[q] = ti[q]
  <2>1. CASE MissTag(r)
    <3>1. /\ pc \in [Requests -> Steps]
          /\ pos \in [Requests -> Nat \ {0}]
          /\ ti \in [Requests -> Nat \ {0}]
      BY <1>1 DEF TypeOK
    <3>2. pc' = [pc EXCEPT ![r] = "newTag"] /\ pos' = pos /\ ti' = ti
      BY <2>1 DEF MissTag, Goto, place
    <3>3. ti[r] \in DOMAIN Item(r).tags
      BY <1>1 DEF Typed, AtTag
    <3>4. QED
      BY <3>1, <3>2, <3>3 DEF Steps
  <2>2. CASE AfterTag(r)
    BY <1>1, <2>2, AfterTagType DEF Typed
  <2>3. QED
    BY <2>1, <2>2 DEF SkipRepeated, LinkTag, InsertTag
<1>4. /\ wopps' \in [Requests -> [RowKeys -> Writes \cup {NoWrite}]]
      /\ wopps'[r][Slot(r)] # NoWrite
      /\ \A q \in Requests \ {r} : wopps'[q] = wopps[q]
      /\ Founded'
      /\ cache' \in [Requests -> SUBSET TagNames]
      /\ wtags' \in [Requests -> SUBSET TagNames]
  <2>1. CASE SkipRepeated(r) \/ MissTag(r)
    <3>1. UNCHANGED <<opps, wopps, cache, wtags>>
      BY <2>1 DEF SkipRepeated, MissTag, tables, place, written
    <3>2. QED
      BY <1>1, <3>1 DEF Typed, TypeOK, AtTag, Founded
  <2>2. CASE LinkTag(r)
    <3>1. PICK s \in Found(r) : wopps' = Link(r, s) /\ cache' = Cached(r, s)
      BY <2>2 DEF LinkTag
    <3>2. s \in TagNames
      BY <1>1 DEF Found, Visible, TypeOK
    <3>3. wtags' = wtags
      BY <2>2 DEF LinkTag
    <3>4. cache' \in [Requests -> SUBSET TagNames] /\ wtags' \in [Requests -> SUBSET TagNames]
      BY <1>1, <3>1, <3>2, <3>3 DEF Cached, TypeOK
    <3>5. QED
      BY <1>1, <1>2, <3>1, <3>2, <3>4, LinkType, SentinelAssumption
  <2>3. CASE InsertTag(r)
    <3>1. wopps' = Link(r, Name(r))
      BY <2>3 DEF InsertTag
    <3>2. cache' \in [Requests -> SUBSET TagNames] /\ wtags' \in [Requests -> SUBSET TagNames]
      BY <1>1, <2>3 DEF InsertTag, Cached, TypeOK
    <3>3. QED
      BY <1>1, <1>2, <3>1, <3>2, LinkType, SentinelAssumption
  <2>4. QED
    BY <2>1, <2>2, <2>3
<1>5. TypeOK'
  BY <1>1, <1>2, <1>3, <1>4 DEF TypeOK
<1>6. AtKey'
  BY <1>1, <1>2, <1>3 DEF Typed, AtKey, InRun, Tagging, Key
<1>7. AtTag'
  <2>1. pos[r] \in DOMAIN batch[r]
    BY <1>1 DEF Typed, AtTag
  <2>2. QED
    BY <1>2, <1>3, <1>4, <2>1 DEF Typed, AtTag, Tagging, Item, Slot, Key
<1>8. Loaded'
  BY <1>1, <1>2, <1>3 DEF Typed, Loaded, Tagging, Key
<1>9. QED
  BY <1>4, <1>5, <1>6, <1>7, <1>8 DEF Typed

\* Every step of a request, of the deadlock detector and of a crash keeps the
\* state typed.
LEMMA NextTyped ==
  ASSUME Typed, [Next]_vars
  PROVE  Typed'
<1>1. ASSUME NEW r \in Requests, FetchFails(r)
      PROVE  Typed'
  <2>1. InRun(r) /\ Commit(r, "failed", 0) /\ UNCHANGED <<plan, reply>>
    BY <1>1 DEF FetchFails, InRun
  <2>2. QED
    BY <2>1, CommitTyped
<1>2. ASSUME NEW r \in Requests, Finish(r)
      PROVE  Typed'
  <2> DEFINE status == IF stats[r].failed = 0 THEN "success" ELSE "partial"
  <2>1. /\ InRun(r) /\ Commit(r, status, Len(batch[r]))
        /\ UNCHANGED <<plan, reply>>
    BY <1>2 DEF Finish, InRun
  <2>2. Len(batch[r]) \in Nat
    BY DEF Typed, TypeOK
  <2>3. status \in {"success", "partial", "failed"}
    OBVIOUS
  <2> HIDE DEF status
  <2>4. QED
    BY <2>1, <2>2, <2>3, CommitTyped
<1>3. ASSUME NEW r \in Requests,
             \/ SourceClash(r) \/ InsertClash(r) \/ TagClash(r)
             \/ DeadlockVictim(r) \/ Crash(r)
      PROVE  Typed'
  BY <1>3, AbortTyped
     DEF SourceClash, InsertClash, TagClash, DeadlockVictim, Crash
<1>4. CASE AllDone \/ UNCHANGED vars
  <2>1. UNCHANGED <<sources, opps, tags, runs, pc, plan, at, batch, pos, ti,
                    view, cache, stats, reply, wsources, wopps, wtags>>
    BY <1>4 DEF AllDone, vars, tables, place, written
  <2>2. TypeOK'
    BY <2>1 DEF Typed, TypeOK
  <2>3. AtKey' /\ AtTag'
    BY <2>1 DEF Typed, AtKey, AtTag, InRun, Tagging, Item, Slot, Key
  <2>4. Loaded' /\ Founded'
    BY <2>1 DEF Typed, Loaded, Founded, Key
  <2>5. QED
    BY <2>2, <2>3, <2>4 DEF Typed
<1>5. QED
  BY <1>1, <1>2, <1>3, <1>4, RunAllTyped, LoadTyped, SkipItemTyped, WriteTyped,
     TagTyped
     DEF Next, Step

\* Every variable of ingestion keeps its type, for any requests, connectors,
\* plans and batches.
THEOREM TypeCorrect == Spec => []TypeOK
<1>1. Spec => []Typed
  BY InitTyped, NextTyped, PTL DEF Spec
<1>2. Typed => TypeOK
  BY DEF Typed
<1>3. QED
  BY <1>1, <1>2, PTL

-----------------------------------------------------------------------------
(* Sound: the tags table and the links to it.                              *)

\* What an open transaction knows of tags it sees, and no name it inserted
\* equals another one it sees.
OwnTags(r) ==
  /\ cache[r] \subseteq Visible(r)
  /\ \A k \in RowKeys : wopps[r][k] # NoWrite => wopps[r][k].tags \subseteq Visible(r)
  /\ \A s \in wtags[r], t \in Visible(r) : SameTag(s, t) => s = t

\* Two open transactions never hold the same name: the later INSERT waits.
Apart ==
  \A r, q \in Requests : r # q =>
    \A s \in wtags[r], t \in wtags[q] : ~SameTag(s, t)

Sound ==
  /\ TagLinksResolve
  /\ OneSpellingPerTag
  /\ \A r \in Requests : OwnTags(r)
  /\ Apart

LEMMA InitSound == Init => Sound
  BY DEF Init, Sound, TagLinksResolve, OneSpellingPerTag, OwnTags, Apart, Visible

\* A step that touches no tag.
LEMMA QuietSound ==
  ASSUME Sound, UNCHANGED <<opps, tags, cache, wopps, wtags>>
  PROVE  Sound'
  BY DEF Sound, TagLinksResolve, OneSpellingPerTag, OwnTags, Apart, Visible

LEMMA AbortSound ==
  ASSUME Typed, Sound, NEW r \in Requests, Abort(r)
  PROVE  Sound'
<1>1. UNCHANGED <<opps, tags>>
  BY DEF Abort, tables
<1>2. /\ cache'[r] = {} /\ wtags'[r] = {}
      /\ \A k \in RowKeys : wopps'[r][k] = NoWrite
      /\ \A q \in Requests \ {r} :
           cache'[q] = cache[q] /\ wtags'[q] = wtags[q] /\ wopps'[q] = wopps[q]
  BY DEF Abort, EndTx, Typed, TypeOK
<1>3. ASSUME NEW q \in Requests
      PROVE  OwnTags(q)'
  BY <1>1, <1>2, <1>3 DEF Sound, OwnTags, Visible
<1>4. Apart'
  BY <1>2 DEF Sound, Apart
<1>5. QED
  BY <1>1, <1>3, <1>4 DEF Sound, TagLinksResolve, OneSpellingPerTag

\* A commit makes the names the transaction inserted visible to everyone.
LEMMA CommitSound ==
  ASSUME Typed, Sound, NEW r \in Requests, NEW status, NEW found,
         Commit(r, status, found)
  PROVE  Sound'
<1>1. /\ tags' = tags \cup wtags[r]
      /\ \A k \in RowKeys : opps'[k] = After(r, k)
      /\ cache'[r] = {} /\ wtags'[r] = {}
      /\ \A k \in RowKeys : wopps'[r][k] = NoWrite
      /\ \A q \in Requests \ {r} :
           cache'[q] = cache[q] /\ wtags'[q] = wtags[q] /\ wopps'[q] = wopps[q]
  BY DEF Commit, EndTx, Typed, TypeOK
<1>2. tags' = Visible(r)
  BY <1>1 DEF Visible
<1>3. TagLinksResolve'
  <2>1. SUFFICES ASSUME NEW k \in RowKeys, After(r, k) # NoRow
                 PROVE  After(r, k).tags \subseteq tags'
    BY <1>1 DEF TagLinksResolve
  <2>2. CASE wopps[r][k] = NoWrite
    BY <1>1, <2>1, <2>2 DEF After, Sound, TagLinksResolve
  <2>3. CASE wopps[r][k] # NoWrite
    BY <1>2, <2>3 DEF After, Sound, OwnTags
  <2>4. QED
    BY <2>2, <2>3
<1>4. OneSpellingPerTag'
  BY <1>1, <1>2 DEF Sound, OneSpellingPerTag, OwnTags, Visible, SameTag
<1>5. ASSUME NEW q \in Requests
      PROVE  OwnTags(q)'
  <2>1. CASE q = r
    BY <1>1, <2>1 DEF OwnTags, Visible
  <2>2. CASE q # r
    <3>1. Visible(q)' = Visible(q) \cup wtags[r]
      BY <1>1, <2>2 DEF Visible
    <3>2. \A s \in wtags[q], t \in wtags[r] : ~SameTag(s, t)
      BY <2>2 DEF Sound, Apart
    <3>3. QED
      BY <1>1, <2>2, <3>1, <3>2 DEF Sound, OwnTags, SameTag
  <2>3. QED
    BY <2>1, <2>2
<1>6. Apart'
  BY <1>1 DEF Sound, Apart
<1>7. QED
  BY <1>3, <1>4, <1>5, <1>6 DEF Sound

\* Writing a row begins with no tags linked.
LEMMA WriteSound ==
  ASSUME Typed, Sound, NEW r \in Requests, InsertOpp(r) \/ UpdateOpp(r)
  PROVE  Sound'
<1>1. UNCHANGED <<opps, tags, cache, wtags>>
  BY DEF InsertOpp, UpdateOpp, tables
<1>2. PICK set : wopps' = [wopps EXCEPT ![r][Slot(r)] = ItemWrite(r, set)]
  BY DEF InsertOpp, UpdateOpp
<1>3. Slot(r) \in RowKeys
  <2>1. pc[r] = "item" /\ pos[r] <= Len(batch[r])
    BY DEF InsertOpp, UpdateOpp, IsNew, Differs, Valid
  <2>2. pos[r] \in Nat \ {0} /\ batch[r] \in Seq(Items)
    BY DEF Typed, TypeOK
  <2>3. InRun(r) /\ pos[r] \in DOMAIN batch[r]
    BY <2>1, <2>2 DEF InRun
  <2>4. QED
    BY <2>3, SlotType DEF Typed
<1>4. /\ wopps'[r][Slot(r)].tags = {}
      /\ \A k \in RowKeys \ {Slot(r)} : wopps'[r][k] = wopps[r][k]
      /\ \A q \in Requests \ {r} : wopps'[q] = wopps[q]
  BY <1>2, <1>3 DEF Typed, TypeOK, ItemWrite
<1>5. ASSUME NEW q \in Requests
      PROVE  OwnTags(q)'
  BY <1>1, <1>4 DEF Sound, OwnTags, Visible
<1>6. QED
  BY <1>1, <1>5 DEF Sound, TagLinksResolve, OneSpellingPerTag, Apart

\* Linking a tag that the transaction sees, be it found, cached or new.
LEMMA LinkSound ==
  ASSUME Typed, Sound, NEW r \in Requests, LinkTag(r) \/ InsertTag(r)
  PROVE  Sound'
<1>1. Typed /\ Tagging(r) /\ Name(r) \in TagNames /\ UNCHANGED <<opps, tags>>
  BY NameType DEF Typed, Tagging, LinkTag, InsertTag, tables
<1>2. PICK s \in TagNames :
        /\ wopps' = Link(r, s) /\ cache' = Cached(r, s)
        /\ \/ s \in Visible(r) /\ wtags' = wtags
           \/ /\ wtags' = [wtags EXCEPT ![r] = @ \cup {s}]
              /\ \A t \in Visible(r) : ~SameTag(t, s)
              /\ \A q \in Requests \ {r} : \A t \in wtags[q] : ~SameTag(t, s)
  <2>1. CASE LinkTag(r)
    <3>1. PICK s \in Found(r) : wopps' = Link(r, s) /\ cache' = Cached(r, s)
      BY <2>1 DEF LinkTag
    <3>2. s \in Visible(r)
      BY DEF Found, Sound, OwnTags
    <3>3. s \in TagNames
      BY <3>2 DEF Visible, Typed, TypeOK
    <3>4. QED
      BY <2>1, <3>1, <3>2, <3>3 DEF LinkTag
  <2>2. CASE InsertTag(r)
    <3>1. \A q \in Requests \ {r} : \A t \in wtags[q] : ~SameTag(t, Name(r))
      BY <2>2 DEF InsertTag, Blocked, WaitsFor
    <3>2. QED
      BY <1>1, <2>2, <3>1 DEF InsertTag, Unused
  <2>3. QED
    BY <2>1, <2>2
<1>3. /\ wopps'[r][Slot(r)].tags = wopps[r][Slot(r)].tags \cup {s}
      /\ wopps[r][Slot(r)] # NoWrite
      /\ \A k \in RowKeys \ {Slot(r)} : wopps'[r][k] = wopps[r][k]
      /\ \A q \in Requests \ {r} : wopps'[q] = wopps[q]
      /\ Slot(r) \in RowKeys
  <2>1. /\ wopps'[r][Slot(r)] = [wopps[r][Slot(r)] EXCEPT !.tags = @ \cup {s}]
        /\ wopps[r][Slot(r)] \in Writes
        /\ \A k \in RowKeys \ {Slot(r)} : wopps'[r][k] = wopps[r][k]
        /\ \A q \in Requests \ {r} : wopps'[q] = wopps[q]
        /\ Slot(r) \in RowKeys
    BY <1>1, <1>2, LinkType
  <2>2. wopps'[r][Slot(r)].tags = wopps[r][Slot(r)].tags \cup {s}
    BY <2>1 DEF Writes
  <2>3. QED
    BY <2>1, <2>2, SentinelAssumption
<1>4. /\ cache'[r] = cache[r] \cup {s}
      /\ \A q \in Requests \ {r} : cache'[q] = cache[q]
  BY <1>2 DEF Cached, Typed, TypeOK
<1>5. /\ wtags[r] \subseteq wtags'[r] /\ wtags'[r] \subseteq wtags[r] \cup {s}
      /\ s \in tags \/ s \in wtags'[r]
      /\ \A q \in Requests \ {r} : wtags'[q] = wtags[q]
  BY <1>2 DEF Visible, Typed, TypeOK
<1>6. OwnTags(r)'
  <2>1. Visible(r)' = Visible(r) \cup {s}
    BY <1>1, <1>5 DEF Visible
  <2>2. /\ cache'[r] \subseteq Visible(r)'
        /\ \A k \in RowKeys :
             wopps'[r][k] # NoWrite => wopps'[r][k].tags \subseteq Visible(r)'
    BY <1>3, <1>4, <2>1 DEF Sound, OwnTags
  <2>3. \A x \in wtags'[r], y \in Visible(r)' : SameTag(x, y) => x = y
    <3>1. CASE s \in Visible(r) /\ wtags' = wtags
      BY <2>1, <3>1 DEF Sound, OwnTags
    <3>2. CASE \A t \in Visible(r) : ~SameTag(t, s)
      BY <1>5, <2>1, <3>2 DEF Sound, OwnTags, SameTag, Visible
    <3>3. QED
      BY <1>2, <3>1, <3>2
  <2>4. QED
    BY <2>2, <2>3 DEF OwnTags
<1>7. ASSUME NEW q \in Requests \ {r}
      PROVE  OwnTags(q)'
  BY <1>1, <1>3, <1>4, <1>5 DEF Sound, OwnTags, Visible
<1>8. Apart'
  <2>1. ASSUME NEW p \in Requests, NEW q \in Requests, p # q
        PROVE  \A x \in wtags'[p], y \in wtags'[q] : ~SameTag(x, y)
    <3>1. CASE wtags' = wtags
      BY <2>1, <3>1 DEF Sound, Apart
    <3>2. CASE \A o \in Requests \ {r} : \A t \in wtags[o] : ~SameTag(t, s)
      BY <1>5, <2>1, <3>2 DEF Sound, Apart, SameTag
    <3>3. QED
      BY <1>2, <3>1, <3>2
  <2>2. QED
    BY <2>1 DEF Apart
<1>9. QED
  BY <1>1, <1>6, <1>7, <1>8 DEF Sound, TagLinksResolve, OneSpellingPerTag

LEMMA NextSound ==
  ASSUME Typed, Sound, [Next]_vars
  PROVE  Sound'
<1>1. ASSUME NEW r \in Requests, FetchFails(r) \/ Finish(r)
      PROVE  Sound'
  BY <1>1, CommitSound DEF FetchFails, Finish
<1>2. ASSUME NEW r \in Requests,
             \/ SourceClash(r) \/ InsertClash(r) \/ TagClash(r)
             \/ DeadlockVictim(r) \/ Crash(r)
      PROVE  Sound'
  BY <1>2, AbortSound
     DEF SourceClash, InsertClash, TagClash, DeadlockVictim, Crash
<1>3. ASSUME NEW r \in Requests,
             \/ Start(r) \/ Answer(r) \/ SkipUnknown(r) \/ SelectSource(r)
             \/ InsertSource(r) \/ Fetch(r) \/ Load(r)
             \/ SkipInvalid(r) \/ SkipUnchanged(r)
             \/ SkipRepeated(r) \/ MissTag(r)
      PROVE  Sound'
  BY <1>3, QuietSound
     DEF Start, Answer, SkipUnknown, SelectSource, InsertSource, Fetch, Load,
         SkipInvalid, SkipUnchanged, SkipRepeated, MissTag,
         tables, place, written
<1>4. CASE AllDone \/ UNCHANGED vars
  BY <1>4, QuietSound DEF AllDone, vars, tables, place, written
<1>5. QED
  BY <1>1, <1>2, <1>3, <1>4, WriteSound, LinkSound DEF Next, Step

LEMMA Soundness == Spec => [](Typed /\ Sound)
  BY InitTyped, InitSound, NextTyped, NextSound, PTL DEF Spec

\* The tags an opportunity is linked to are rows of the tags table, for any
\* requests and whatever of them is rolled back.
THEOREM TagsResolve == Spec => []TagLinksResolve
  BY Soundness, PTL DEF Sound

\* No two tags differ in case only, whatever transactions insert a name at
\* once and whatever case the lookup goes by.
THEOREM TagsAreSpelledOnce == Spec => []OneSpellingPerTag
  BY Soundness, PTL DEF Sound

-----------------------------------------------------------------------------
(* Spelled: what a hash says of a row's tags.                              *)

Folds(names) == {Fold[t] : t \in names}
Hashed(hash) == {n \in TagNames : hash.tags[n] > 0}

\* The names of the current item that _sync_tags is through with.
Synced(r) == {Item(r).tags[j] : j \in 1 .. ti[r] - 1}

\* A pending row has the tags of its hash, or those synced so far.
SpelledAt(r, k) ==
  wopps[r][k] # NoWrite =>
    IF Tagging(r) /\ k = Slot(r)
    THEN /\ wopps[r][k].hash = Hash(Item(r))
         /\ Folds(wopps[r][k].tags) = Folds(Synced(r))
    ELSE Folds(wopps[r][k].tags) = Folds(Hashed(wopps[r][k].hash))
Spelled == \A r \in Requests, k \in RowKeys : SpelledAt(r, k)

\* A hash counts the names its item lists.
LEMMA HashedNames ==
  ASSUME NEW item \in Items
  PROVE  Hashed(Hash(item)) = {item.tags[j] : j \in 1 .. Len(item.tags)}
<1>1. item.tags \in Seq(TagNames)
  BY DEF Items
<1>2. ASSUME NEW n \in TagNames
      PROVE  Hash(item).tags[n] > 0 <=> \E j \in DOMAIN item.tags : item.tags[j] = n
  <2> DEFINE S == {i \in DOMAIN item.tags : item.tags[i] = n}
  <2>1. IsFiniteSet(1 .. Len(item.tags))
    BY <1>1, FS_Interval
  <2>2. IsFiniteSet(S)
    BY <1>1, <2>1, FS_Subset
  <2>3. Cardinality(S) \in Nat /\ (Cardinality(S) = 0 <=> S = {})
    BY <2>2, FS_CardinalityType, FS_EmptySet
  <2>4. Hash(item).tags[n] = Cardinality(S)
    BY DEF Hash
  <2>5. QED
    BY <2>3, <2>4
<1>3. QED
  BY <1>1, <1>2 DEF Hashed

\* The end of _sync_tags: every name has been synced.
LEMMA AllSynced ==
  ASSUME TypeOK, NEW r \in Requests, pos[r] \in DOMAIN batch[r]
  PROVE  Hashed(Hash(Item(r))) =
           {Item(r).tags[j] : j \in 1 .. Len(Item(r).tags)}
  BY ItemType, HashedNames

LEMMA InitSpelled == Init => HashNamesTheTags /\ Spelled
  BY DEF Init, HashNamesTheTags, Spelled, SpelledAt

\* A step that leaves a request alone.
LEMMA SpelledElsewhere ==
  ASSUME Spelled, NEW q \in Requests,
         /\ pc'[q] = pc[q] /\ plan'[q] = plan[q] /\ at'[q] = at[q]
         /\ batch'[q] = batch[q] /\ pos'[q] = pos[q] /\ ti'[q] = ti[q]
         /\ wopps'[q] = wopps[q]
  PROVE  \A k \in RowKeys : SpelledAt(q, k)'
<1>1. Item(q)' = Item(q)
  BY DEF Item
<1>2. /\ Tagging(q)' = Tagging(q) /\ Slot(q)' = Slot(q)
      /\ Synced(q)' = Synced(q)
  BY <1>1 DEF Tagging, Slot, Key, Synced
<1>3. Hash(Item(q))' = Hash(Item(q))
  BY <1>1 DEF Hash
<1>4. ASSUME NEW k \in RowKeys
      PROVE  SpelledAt(q, k)'
  <2>1. SpelledAt(q, k)
    BY DEF Spelled
  <2>2. QED
    BY <1>2, <1>3, <2>1 DEF SpelledAt, Folds, Hashed
<1>5. QED
  BY <1>4

LEMMA AbortSpelled ==
  ASSUME Typed, HashNamesTheTags, Spelled, NEW r \in Requests, Abort(r)
  PROVE  (HashNamesTheTags /\ Spelled)'
<1>1. TypeOK /\ EndTx(r) /\ UNCHANGED <<opps, plan, at>>
  BY DEF Typed, Abort, tables
<1>2. \A q \in Requests \ {r} : pc'[q] = pc[q]
  BY <1>1 DEF TypeOK, Abort, Goto
<1>3. /\ \A k \in RowKeys : wopps'[r][k] = NoWrite
      /\ \A q \in Requests \ {r} :
           /\ batch'[q] = batch[q] /\ pos'[q] = pos[q] /\ ti'[q] = ti[q]
           /\ wopps'[q] = wopps[q]
  BY <1>1, EndTxElsewhere
<1>4. Spelled'
  <2>1. ASSUME NEW q \in Requests \ {r}
        PROVE  \A k \in RowKeys : SpelledAt(q, k)'
    BY <1>1, <1>2, <1>3, SpelledElsewhere
  <2>2. QED
    BY <1>3, <2>1 DEF Spelled, SpelledAt
<1>5. HashNamesTheTags'
  BY <1>1 DEF HashNamesTheTags
<1>6. QED
  BY <1>4, <1>5

LEMMA CommitSpelled ==
  ASSUME Typed, HashNamesTheTags, Spelled, NEW r \in Requests, ~Tagging(r),
         NEW status, NEW found, Commit(r, status, found), UNCHANGED plan
  PROVE  (HashNamesTheTags /\ Spelled)'
<1>1. TypeOK /\ EndTx(r) /\ \A k \in RowKeys : opps'[k] = After(r, k)
  BY DEF Typed, Commit
<1>2. \A q \in Requests \ {r} : pc'[q] = pc[q] /\ at'[q] = at[q]
  BY <1>1 DEF TypeOK, Commit, Goto
<1>3. /\ \A k \in RowKeys : wopps'[r][k] = NoWrite
      /\ \A q \in Requests \ {r} :
           /\ batch'[q] = batch[q] /\ pos'[q] = pos[q] /\ ti'[q] = ti[q]
           /\ wopps'[q] = wopps[q]
  BY <1>1, EndTxElsewhere
<1>4. Spelled'
  <2>1. ASSUME NEW q \in Requests \ {r}
        PROVE  \A k \in RowKeys : SpelledAt(q, k)'
    BY <1>2, <1>3, SpelledElsewhere
  <2>2. QED
    BY <1>3, <2>1 DEF Spelled, SpelledAt
<1>5. HashNamesTheTags'
  <2>1. SUFFICES ASSUME NEW k \in RowKeys, After(r, k) # NoRow
                 PROVE  Folds(After(r, k).tags) = Folds(Hashed(After(r, k).hash))
    BY <1>1 DEF HashNamesTheTags, Folds, Hashed
  <2>2. CASE wopps[r][k] = NoWrite
    BY <2>1, <2>2 DEF After, HashNamesTheTags, Folds, Hashed
  <2>3. CASE wopps[r][k] # NoWrite
    <3>1. After(r, k).tags = wopps[r][k].tags /\ After(r, k).hash = wopps[r][k].hash
      BY <2>3 DEF After
    <3>2. QED
      BY <2>3, <3>1 DEF Spelled, SpelledAt
  <2>4. QED
    BY <2>2, <2>3
<1>6. QED
  BY <1>4, <1>5

LEMMA WriteSpelled ==
  ASSUME Typed, Spelled, NEW r \in Requests, InsertOpp(r) \/ UpdateOpp(r)
  PROVE  Spelled'
<1>1. /\ TypeOK /\ pc[r] = "item" /\ pos[r] \in DOMAIN batch[r] /\ ToTags(r)
      /\ Slot(r) \in RowKeys /\ UNCHANGED <<plan, at, batch>>
  <2>1. TypeOK /\ Valid(r) /\ ToTags(r) /\ UNCHANGED <<plan, at, batch>>
    BY DEF Typed, InsertOpp, UpdateOpp, IsNew, Differs
  <2>2. pc[r] = "item" /\ pos[r] \in DOMAIN batch[r]
    BY <2>1 DEF Valid, TypeOK
  <2>3. QED
    BY <2>1, <2>2, SlotType DEF Typed, InRun
<1>2. PICK set : wopps' = [wopps EXCEPT ![r][Slot(r)] = ItemWrite(r, set)]
  BY DEF InsertOpp, UpdateOpp
<1>3. /\ wopps'[r][Slot(r)].tags = {}
      /\ wopps'[r][Slot(r)].hash = Hash(Item(r))
      /\ \A k \in RowKeys \ {Slot(r)} : wopps'[r][k] = wopps[r][k]
      /\ \A q \in Requests \ {r} : wopps'[q] = wopps[q]
  BY <1>1, <1>2 DEF TypeOK, ItemWrite
<1>4. /\ pc'[r] \in {"item", "tag"}
      /\ \A q \in Requests \ {r} :
           pc'[q] = pc[q] /\ pos'[q] = pos[q] /\ ti'[q] = ti[q]
  BY <1>1, ToTagsType
<1>5. \A k \in RowKeys \ {Slot(r)} : wopps'[r][k] # NoWrite =>
        Folds(wopps'[r][k].tags) = Folds(Hashed(wopps'[r][k].hash))
  BY <1>1, <1>3 DEF Spelled, SpelledAt, Tagging
<1>6. ASSUME NEW q \in Requests \ {r}
      PROVE  \A k \in RowKeys : SpelledAt(q, k)'
  BY <1>1, <1>3, <1>4, SpelledElsewhere
<1>7. ASSUME NEW k \in RowKeys
      PROVE  SpelledAt(r, k)'
  <2>1. CASE Item(r).tags = <<>>
    <3>1. ~Tagging(r)'
      BY <1>1, <2>1 DEF ToTags, Tagging
    <3>2. Hashed(Hash(Item(r))) = {}
      BY <1>1, <2>1, AllSynced
    <3>3. wopps'[r][k] # NoWrite =>
            Folds(wopps'[r][k].tags) = Folds(Hashed(wopps'[r][k].hash))
      BY <1>3, <1>5, <3>2
    <3>4. QED
      BY <3>1, <3>3 DEF SpelledAt, Folds, Hashed
  <2>2. CASE Item(r).tags # <<>>
    <3>1. pos' = pos /\ ti'[r] = 1
      BY <2>2, <1>1 DEF ToTags, TypeOK
    <3>2. Item(r)' = Item(r)
      BY <1>1, <3>1 DEF Item
    <3>3. Slot(r)' = Slot(r) /\ Synced(r)' = {}
      BY <1>1, <3>1, <3>2 DEF Slot, Key, Synced
    <3>4. Hash(Item(r))' = Hash(Item(r))
      BY <3>2 DEF Hash
    <3>5. CASE k = Slot(r)
      <4>1. Tagging(r)'
        BY <1>1, <2>2 DEF ToTags, Goto, TypeOK, Tagging
      <4>2. wopps'[r][k].hash = Hash(Item(r))' /\ wopps'[r][k].tags = {}
        BY <1>3, <3>4, <3>5
      <4>3. QED
        BY <3>3, <3>5, <4>1, <4>2 DEF SpelledAt, Folds
    <3>6. CASE k # Slot(r)
      BY <1>5, <3>3, <3>6 DEF SpelledAt, Folds, Hashed
    <3>7. QED
      BY <3>5, <3>6
  <2>3. QED
    BY <2>1, <2>2
<1>8. QED
  BY <1>6, <1>7 DEF Spelled

\* One more tag is synced, be it linked or a repetition of a linked one.
LEMMA AfterTagSpelled ==
  ASSUME Typed, Spelled, NEW r \in Requests, Tagging(r), AfterTag(r),
         UNCHANGED <<plan, at, batch>>,
         wopps'[r][Slot(r)].hash = wopps[r][Slot(r)].hash,
         Folds(wopps'[r][Slot(r)].tags)
           = Folds(wopps[r][Slot(r)].tags) \cup {Fold[Name(r)]},
         \A k \in RowKeys \ {Slot(r)} : wopps'[r][k] = wopps[r][k],
         \A q \in Requests \ {r} : wopps'[q] = wopps[q]
  PROVE  Spelled'
<1>1. /\ TypeOK /\ AtTag /\ pos[r] \in DOMAIN batch[r]
      /\ wopps[r][Slot(r)] # NoWrite /\ Slot(r) \in RowKeys
  BY SlotType DEF Typed, AtTag, Tagging, InRun
<1>2. /\ pc'[r] \in {"item", "tag"}
      /\ \A q \in Requests \ {r} :
           pc'[q] = pc[q] /\ pos'[q] = pos[q] /\ ti'[q] = ti[q]
  BY <1>1, AfterTagType
<1>3. ASSUME NEW q \in Requests \ {r}
      PROVE  \A k \in RowKeys : SpelledAt(q, k)'
  BY <1>2, SpelledElsewhere
<1>4. Item(r).tags \in Seq(TagNames) /\ ti[r] \in 1 .. Len(Item(r).tags)
  BY <1>1, ItemType DEF AtTag
<1>5. /\ wopps[r][Slot(r)].hash = Hash(Item(r))
      /\ Folds(wopps[r][Slot(r)].tags) = Folds(Synced(r))
  BY <1>1 DEF Spelled, SpelledAt
<1>6. Folds(wopps'[r][Slot(r)].tags)
        = Folds({Item(r).tags[j] : j \in 1 .. ti[r]})
  <2>1. 1 .. ti[r] = (1 .. ti[r] - 1) \cup {ti[r]}
    BY <1>4
  <2>2. {Item(r).tags[j] : j \in 1 .. ti[r]} = Synced(r) \cup {Name(r)}
    BY <2>1 DEF Synced, Name
  <2>3. QED
    BY <1>5, <2>2 DEF Folds
<1>7. \A k \in RowKeys \ {Slot(r)} : wopps'[r][k] # NoWrite =>
        Folds(wopps'[r][k].tags) = Folds(Hashed(wopps'[r][k].hash))
  BY DEF Spelled, SpelledAt
<1>8. ASSUME NEW k \in RowKeys
      PROVE  SpelledAt(r, k)'
  <2>1. CASE ti[r] < Len(Item(r).tags)
    <3>1. pos' = pos /\ ti'[r] = ti[r] + 1
      BY <1>1, <2>1 DEF AfterTag, TypeOK
    <3>2. Item(r)' = Item(r)
      BY <3>1 DEF Item
    <3>3. Slot(r)' = Slot(r) /\ Hash(Item(r))' = Hash(Item(r))
      BY <3>1, <3>2 DEF Slot, Key, Hash
    <3>4. ti'[r] - 1 = ti[r]
      BY <1>4, <3>1
    <3>5. Synced(r)' = {Item(r).tags[j] : j \in 1 .. ti[r]}
      BY <3>2, <3>4 DEF Synced
    <3>6. Tagging(r)'
      BY <1>1, <2>1 DEF AfterTag, Goto, Tagging, TypeOK
    <3>7. CASE k = Slot(r)
      BY <1>5, <1>6, <3>3, <3>5, <3>6, <3>7 DEF SpelledAt, Folds
    <3>8. CASE k # Slot(r)
      BY <1>7, <3>3, <3>8 DEF SpelledAt, Folds, Hashed
    <3>9. QED
      BY <3>7, <3>8
  <2>2. CASE ~(ti[r] < Len(Item(r).tags))
    <3>1. ~Tagging(r)'
      BY <1>1, <2>2 DEF AfterTag, Goto, Tagging, TypeOK
    <3>2. ti[r] = Len(Item(r).tags)
      BY <1>4, <2>2
    <3>3. Folds(wopps'[r][Slot(r)].tags)
            = Folds(Hashed(wopps'[r][Slot(r)].hash))
      BY <1>1, <1>5, <1>6, <3>2, AllSynced
    <3>4. wopps'[r][k] # NoWrite =>
            Folds(wopps'[r][k].tags) = Folds(Hashed(wopps'[r][k].hash))
      BY <1>7, <3>3
    <3>5. QED
      BY <3>1, <3>4 DEF SpelledAt, Folds, Hashed
  <2>3. QED
    BY <2>1, <2>2
<1>9. QED
  BY <1>3, <1>8 DEF Spelled

LEMMA TagSpelled ==
  ASSUME Typed, Spelled, NEW r \in Requests,
         SkipRepeated(r) \/ LinkTag(r) \/ InsertTag(r)
  PROVE  Spelled'
<1>1. /\ Tagging(r) /\ AfterTag(r) /\ UNCHANGED <<opps, plan, at, batch>>
      /\ Name(r) \in TagNames
  BY NameType DEF Typed, Tagging, SkipRepeated, LinkTag, InsertTag, tables
<1>2. /\ wopps[r][Slot(r)].hash = Hash(Item(r))
      /\ Folds(wopps[r][Slot(r)].tags) = Folds(Synced(r))
      /\ Slot(r) \in RowKeys
  <2>1. wopps[r][Slot(r)] # NoWrite /\ Slot(r) \in RowKeys
    BY <1>1, SlotType DEF Typed, AtTag, Tagging, InRun
  <2>2. QED
    BY <1>1, <2>1 DEF Spelled, SpelledAt
<1>3. CASE SkipRepeated(r)
  <2>1. wopps' = wopps
    BY <1>3 DEF SkipRepeated, written
  <2>2. PICK j \in 1 .. ti[r] - 1 : SameTag(Item(r).tags[j], Name(r))
    BY <1>3 DEF SkipRepeated, Repeated
  <2>3. Fold[Name(r)] \in Folds(Synced(r))
    BY <2>2 DEF SameTag, Folds, Synced
  <2>4. Folds(wopps'[r][Slot(r)].tags)
          = Folds(wopps[r][Slot(r)].tags) \cup {Fold[Name(r)]}
    BY <1>2, <2>1, <2>3
  <2>5. QED
    BY <1>1, <2>1, <2>4, AfterTagSpelled
<1>4. CASE LinkTag(r) \/ InsertTag(r)
  <2>1. PICK s \in TagNames : SameTag(s, Name(r)) /\ wopps' = Link(r, s)
    <3>1. CASE LinkTag(r)
      <4>1. PICK s \in Found(r) : wopps' = Link(r, s)
        BY <3>1 DEF LinkTag
      <4>2. SameTag(s, Name(r)) /\ s \in TagNames
        BY <1>1 DEF Found, Visible, SameTag, Typed, TypeOK
      <4>3. QED
        BY <4>1, <4>2
    <3>2. CASE InsertTag(r)
      BY <1>1, <3>2 DEF InsertTag, SameTag
    <3>3. QED
      BY <1>4, <3>1, <3>2
  <2>2. /\ wopps'[r][Slot(r)] = [wopps[r][Slot(r)] EXCEPT !.tags = @ \cup {s}]
        /\ wopps[r][Slot(r)] \in Writes
        /\ \A k \in RowKeys \ {Slot(r)} : wopps'[r][k] = wopps[r][k]
        /\ \A q \in Requests \ {r} : wopps'[q] = wopps[q]
    BY <1>1, <2>1, LinkType
  <2>3. /\ wopps'[r][Slot(r)].tags = wopps[r][Slot(r)].tags \cup {s}
        /\ wopps'[r][Slot(r)].hash = wopps[r][Slot(r)].hash
    BY <2>2 DEF Writes
  <2>4. Folds(wopps'[r][Slot(r)].tags)
          = Folds(wopps[r][Slot(r)].tags) \cup {Fold[Name(r)]}
    BY <2>1, <2>3 DEF Folds, SameTag
  <2>5. QED
    BY <1>1, <2>2, <2>3, <2>4, AfterTagSpelled
<1>5. QED
  BY <1>3, <1>4

\* Steps that neither write a row nor move in or into an item's tags.
LEMMA QuietSpelled ==
  ASSUME Typed, Spelled, NEW r \in Requests, wopps' = wopps, plan' = plan,
         ~Tagging(r), ~Tagging(r)',
         \A q \in Requests \ {r} :
           /\ pc'[q] = pc[q] /\ at'[q] = at[q]
           /\ batch'[q] = batch[q] /\ pos'[q] = pos[q] /\ ti'[q] = ti[q]
  PROVE  Spelled'
<1>1. ASSUME NEW q \in Requests \ {r}
      PROVE  \A k \in RowKeys : SpelledAt(q, k)'
  BY SpelledElsewhere
<1>2. ASSUME NEW k \in RowKeys
      PROVE  SpelledAt(r, k)'
  <2>1. SpelledAt(r, k)
    BY DEF Spelled
  <2>2. QED
    BY <2>1 DEF SpelledAt, Folds, Hashed
<1>3. QED
  BY <1>1, <1>2 DEF Spelled

LEMMA NextSpelled ==
  ASSUME Typed, HashNamesTheTags, Spelled, [Next]_vars
  PROVE  (HashNamesTheTags /\ Spelled)'
<1>1. ASSUME NEW r \in Requests, FetchFails(r) \/ Finish(r)
      PROVE  (HashNamesTheTags /\ Spelled)'
  <2>1. ~Tagging(r) /\ plan' = plan /\ \E status, found : Commit(r, status, found)
    BY <1>1 DEF FetchFails, Finish, Tagging
  <2>2. QED
    BY <2>1, CommitSpelled
<1>2. ASSUME NEW r \in Requests,
             \/ SourceClash(r) \/ InsertClash(r) \/ TagClash(r)
             \/ DeadlockVictim(r) \/ Crash(r)
      PROVE  (HashNamesTheTags /\ Spelled)'
  BY <1>2, AbortSpelled
     DEF SourceClash, InsertClash, TagClash, DeadlockVictim, Crash
<1>3. ASSUME NEW r \in Requests,
             \/ Start(r) \/ Answer(r) \/ SkipUnknown(r) \/ SelectSource(r)
             \/ InsertSource(r) \/ Fetch(r) \/ Load(r)
             \/ SkipInvalid(r) \/ SkipUnchanged(r)
      PROVE  (HashNamesTheTags /\ Spelled)'
  <2>1. opps' = opps /\ wopps' = wopps /\ plan' = plan
    BY <1>3 DEF Start, Answer, SkipUnknown, SelectSource, InsertSource, Fetch,
                Load, SkipInvalid, SkipUnchanged, tables, place, written
  <2>2. ~Tagging(r)
    BY <1>3 DEF Start, Answer, SkipUnknown, SelectSource, InsertSource, Fetch,
                Load, SkipInvalid, SkipUnchanged, Valid, Tagging
  <2>3. /\ ~Tagging(r)'
        /\ \A q \in Requests \ {r} :
             /\ pc'[q] = pc[q] /\ at'[q] = at[q]
             /\ batch'[q] = batch[q] /\ pos'[q] = pos[q] /\ ti'[q] = ti[q]
    <3>1. CASE Start(r) \/ Answer(r) \/ SelectSource(r) \/ InsertSource(r)
      BY <3>1 DEF Start, Answer, SelectSource, InsertSource, Goto, place,
                  Tagging, Typed, TypeOK
    <3>2. CASE SkipUnknown(r)
      BY <2>2, <3>2 DEF SkipUnknown, Tagging, Typed, TypeOK
    <3>3. CASE Fetch(r) \/ Load(r)
      BY <3>3 DEF Fetch, Load, Goto, Tagging, Typed, TypeOK
    <3>4. CASE SkipInvalid(r) \/ SkipUnchanged(r)
      BY <2>2, <3>4
         DEF SkipInvalid, SkipUnchanged, NextItem, Tagging, Typed, TypeOK
    <3>5. QED
      BY <1>3, <3>1, <3>2, <3>3, <3>4
  <2>4. Spelled'
    BY <2>1, <2>2, <2>3, QuietSpelled
  <2>5. QED
    BY <2>1, <2>4 DEF HashNamesTheTags
<1>4. ASSUME NEW r \in Requests, MissTag(r)
      PROVE  (HashNamesTheTags /\ Spelled)'
  <2>1. /\ UNCHANGED <<opps, wopps, plan, at, batch, pos, ti>>
        /\ \A q \in Requests : Tagging(q)' = Tagging(q)
    BY <1>4 DEF MissTag, Goto, tables, place, written, Tagging, Typed, TypeOK
  <2>2. \A q \in Requests : Item(q)' = Item(q)
    BY <2>1 DEF Item
  <2>3. \A q \in Requests : /\ Slot(q)' = Slot(q) /\ Synced(q)' = Synced(q)
                            /\ Hash(Item(q))' = Hash(Item(q))
    BY <2>1, <2>2 DEF Slot, Key, Synced, Hash
  <2>4. ASSUME NEW q \in Requests, NEW k \in RowKeys
        PROVE  SpelledAt(q, k)'
    <3>1. SpelledAt(q, k)
      BY DEF Spelled
    <3>2. QED
      BY <2>1, <2>3, <3>1 DEF SpelledAt, Folds, Hashed
  <2>5. QED
    BY <2>1, <2>4 DEF HashNamesTheTags, Spelled
<1>5. ASSUME NEW r \in Requests, InsertOpp(r) \/ UpdateOpp(r)
      PROVE  (HashNamesTheTags /\ Spelled)'
  <2>1. opps' = opps
    BY <1>5 DEF InsertOpp, UpdateOpp, tables
  <2>2. QED
    BY <1>5, <2>1, WriteSpelled DEF HashNamesTheTags
<1>6. ASSUME NEW r \in Requests, SkipRepeated(r) \/ LinkTag(r) \/ InsertTag(r)
      PROVE  (HashNamesTheTags /\ Spelled)'
  <2>1. opps' = opps
    BY <1>6 DEF SkipRepeated, LinkTag, InsertTag, tables
  <2>2. QED
    BY <1>6, <2>1, TagSpelled DEF HashNamesTheTags
<1>7. CASE AllDone \/ UNCHANGED vars
  <2>1. UNCHANGED <<opps, wopps, pc, plan, at, batch, pos, ti>>
    BY <1>7 DEF AllDone, vars, tables, place, written
  <2>2. ASSUME NEW q \in Requests
        PROVE  \A k \in RowKeys : SpelledAt(q, k)'
    BY <2>1, SpelledElsewhere
  <2>3. QED
    BY <2>1, <2>2 DEF HashNamesTheTags, Spelled
<1>8. QED
  BY <1>1, <1>2, <1>3, <1>4, <1>5, <1>6, <1>7 DEF Next, Step

\* The tags linked to a committed opportunity are, up to case, those its
\* content_hash was computed from: for any requests, updating the row from
\* different batches, failing between two tags or deadlocking over them.
THEOREM HashesNameTheTags == Spec => []HashNamesTheTags
<1>1. Spec => [](Typed /\ HashNamesTheTags /\ Spelled)
  BY InitTyped, InitSpelled, NextTyped, NextSpelled, PTL DEF Spec
<1>2. QED
  BY <1>1, PTL

-----------------------------------------------------------------------------
(* Exact: what a hash says of a row's columns when runs do not overlap.     *)

InLoop(r) == pc[r] \in {"item", "tag", "newTag"}

\* The positions of a batch that the loop is through with, but for their tags.
Handled(r) == {i \in DOMAIN batch[r] : i < pos[r] \/ (i = pos[r] /\ Tagging(r))}

Names(b, i, id) == b[i].valid /\ b[i].id = id
LastAmong(b, H, id) ==
  {i \in H : Names(b, i, id) /\ \A j \in H : j > i => ~Names(b, j, id)}
Last(r, id) == LastAmong(batch[r], Handled(r), id)

\* A transaction writes rows of its own source, and only those its batch
\* has named so far.
TouchedAt(r) ==
  /\ ~InLoop(r) => pos[r] = 1
  /\ \A k \in RowKeys : wopps[r][k] # NoWrite =>
       InLoop(r) /\ k[1] = Key(r) /\ Last(r, k[2]) # {}
Touched == \A r \in Requests : TouchedAt(r)

\* The hash of a row covers its columns.
Honest(row) ==
  row # NoRow => row.hash.fields = [f \in HashedFields |-> row.content[f]]

\* The loaded copy is what the row will be once it is committed; that has the
\* hash of the last item that named it.
ExactAt(r) ==
  InLoop(r) => \A i \in ExternalIds :
    LET k == <<Key(r), i>>
    IN  /\ wopps[r][k] = NoWrite => view[r][i] = opps[k]
        /\ view[r][i] # NoRow =>
             /\ After(r, k) # NoRow
             /\ view[r][i].content = After(r, k).content
             /\ view[r][i].hash = After(r, k).hash
        /\ \A j \in Last(r, i) :
             After(r, k) # NoRow /\ After(r, k).hash = Hash(batch[r][j])
        /\ Honest(After(r, k))

OneRuns == \A r, q \in Requests : Running(r) /\ Running(q) => r = q

Exact ==
  atOnce = 1 =>
    /\ OneRuns
    /\ \A k \in RowKeys : Honest(opps[k])
    /\ \A r \in Requests : ExactAt(r)

LEMMA LastStep ==
  ASSUME NEW b, NEW H \in SUBSET Nat, NEW p \in Nat, \A h \in H : h < p, NEW id
  PROVE  LastAmong(b, H \cup {p}, id) =
           IF Names(b, p, id) THEN {p} ELSE LastAmong(b, H, id)
<1>1. CASE Names(b, p, id)
  <2>1. ASSUME NEW i \in LastAmong(b, H \cup {p}, id)
        PROVE  i = p
    BY <1>1 DEF LastAmong
  <2>2. p \in LastAmong(b, H \cup {p}, id)
    BY <1>1 DEF LastAmong
  <2>3. QED
    BY <1>1, <2>1, <2>2
<1>2. CASE ~Names(b, p, id)
  BY <1>2 DEF LastAmong
<1>3. QED
  BY <1>1, <1>2

\* The loop goes on to the tags of the current item, or to the next item.
LEMMA HandledStep ==
  ASSUME TypeOK, NEW r \in Requests, pc[r] = "item", pos[r] \in DOMAIN batch[r],
         batch'[r] = batch[r],
         \/ pc'[r] = "item" /\ pos'[r] = pos[r] + 1
         \/ pc'[r] = "tag" /\ pos'[r] = pos[r],
         NEW id
  PROVE  Last(r, id)' = IF Item(r).valid /\ Item(r).id = id THEN {pos[r]} ELSE Last(r, id)
<1>1. batch[r] \in Seq(Items) /\ pos[r] \in Nat /\ DOMAIN batch[r] = 1 .. Len(batch[r])
  BY DEF TypeOK
<1>2. Handled(r) \in SUBSET Nat /\ \A h \in Handled(r) : h < pos[r]
  BY <1>1 DEF Handled, Tagging
<1>3. Handled(r)' = Handled(r) \cup {pos[r]}
  BY <1>1 DEF Handled, Tagging
<1>4. Last(r, id)' = LastAmong(batch[r], Handled(r) \cup {pos[r]}, id)
  BY <1>3 DEF Last
<1>5. LastAmong(batch[r], Handled(r) \cup {pos[r]}, id) =
        IF Names(batch[r], pos[r], id) THEN {pos[r]}
        ELSE LastAmong(batch[r], Handled(r), id)
  BY <1>1, <1>2, LastStep
<1>6. QED
  BY <1>4, <1>5 DEF Last, Names, Item

\* Walking the tags handles nothing more.
LEMMA HandledTags ==
  ASSUME TypeOK, NEW r \in Requests, Tagging(r), pos[r] \in DOMAIN batch[r],
         batch'[r] = batch[r],
         \/ pc'[r] = "item" /\ pos'[r] = pos[r] + 1
         \/ pc'[r] \in {"tag", "newTag"} /\ pos'[r] = pos[r],
         NEW id
  PROVE  Last(r, id)' = Last(r, id)
<1>1. batch[r] \in Seq(Items) /\ pos[r] \in Nat /\ DOMAIN batch[r] = 1 .. Len(batch[r])
  BY DEF TypeOK
<1>2. Handled(r)' = Handled(r)
  BY <1>1 DEF Handled, Tagging
<1>3. QED
  BY <1>2 DEF Last

\* A request whose place and writes stay as they are, and the rows with them.
LEMMA TouchedElsewhere ==
  ASSUME NEW q \in Requests, TouchedAt(q),
         pc'[q] = pc[q], pos'[q] = pos[q], batch'[q] = batch[q],
         wopps'[q] = wopps[q], plan' = plan, at'[q] = at[q]
  PROVE  TouchedAt(q)'
<1>1. Handled(q)' = Handled(q) /\ Key(q)' = Key(q)
  BY DEF Handled, Tagging, Key
<1>2. QED
  BY <1>1 DEF TouchedAt, InLoop, Last

LEMMA ExactElsewhere ==
  ASSUME NEW q \in Requests, ExactAt(q),
         pc'[q] = pc[q], pos'[q] = pos[q], batch'[q] = batch[q],
         wopps'[q] = wopps[q], plan' = plan, at'[q] = at[q],
         view'[q] = view[q], opps' = opps
  PROVE  ExactAt(q)'
<1>1. Handled(q)' = Handled(q) /\ Key(q)' = Key(q)
  BY DEF Handled, Tagging, Key
<1>2. \A k : After(q, k)' = After(q, k)
  BY DEF After
<1>3. QED
  BY <1>1, <1>2 DEF ExactAt, InLoop, Last, Honest

LEMMA InitExact == Init => Touched /\ Exact
<1> SUFFICES ASSUME Init PROVE Touched /\ Exact
  OBVIOUS
<1>1. \A r \in Requests : pc[r] = "idle" /\ pos[r] = 1
  BY DEF Init
<1>2. Touched
  BY <1>1 DEF Init, Touched, TouchedAt, InLoop
<1>3. Exact
  BY <1>1 DEF Init, Exact, OneRuns, Running, Honest, ExactAt, InLoop
<1>4. QED
  BY <1>2, <1>3

\* A rolled back transaction leaves the rows as they were.
LEMMA AbortExact ==
  ASSUME Typed, Touched, Exact, NEW r \in Requests, Abort(r)
  PROVE  Touched' /\ Exact'
<1>1. EndTx(r) /\ UNCHANGED <<opps, plan, at, atOnce>>
  BY DEF Abort, tables
<1>2. /\ pc'[r] = "done" /\ pos'[r] = 1
      /\ \A q \in Requests \ {r} : pc'[q] = pc[q] /\ at'[q] = at[q]
  BY <1>1 DEF Typed, TypeOK, Abort, Goto, EndTx
<1>3. /\ \A k \in RowKeys : wopps'[r][k] = NoWrite
      /\ \A q \in Requests \ {r} :
           /\ batch'[q] = batch[q] /\ pos'[q] = pos[q]
           /\ view'[q] = view[q] /\ wopps'[q] = wopps[q]
  BY <1>1, EndTxElsewhere DEF Typed
<1>4. TouchedAt(r)' /\ ExactAt(r)'
  BY <1>2, <1>3 DEF TouchedAt, ExactAt, InLoop
<1>5. \A q \in Requests \ {r} : TouchedAt(q)'
  BY <1>1, <1>2, <1>3, TouchedElsewhere DEF Touched
<1>6. ASSUME atOnce = 1
      PROVE  \A q \in Requests \ {r} : ExactAt(q)'
  BY <1>1, <1>2, <1>3, <1>6, ExactElsewhere DEF Exact
<1>7. OneRuns => OneRuns'
  BY <1>2 DEF OneRuns, Running
<1>8. QED
  BY <1>1, <1>4, <1>5, <1>6, <1>7 DEF Touched, Exact, Honest

\* A commit installs what the one request that runs has written.
LEMMA CommitExact ==
  ASSUME Typed, Touched, Exact, NEW r \in Requests, InRun(r),
         NEW status, NEW found, Commit(r, status, found), UNCHANGED <<plan, atOnce>>
  PROVE  Touched' /\ Exact'
<1>1. EndTx(r) /\ \A k \in RowKeys : opps'[k] = After(r, k)
  BY DEF Commit
<1>2. /\ pc'[r] = "next" /\ pos'[r] = 1
      /\ \A q \in Requests \ {r} : pc'[q] = pc[q] /\ at'[q] = at[q]
  BY <1>1 DEF Typed, TypeOK, Commit, Goto, EndTx
<1>3. /\ \A k \in RowKeys : wopps'[r][k] = NoWrite
      /\ \A q \in Requests \ {r} :
           /\ batch'[q] = batch[q] /\ pos'[q] = pos[q]
           /\ view'[q] = view[q] /\ wopps'[q] = wopps[q]
  BY <1>1, EndTxElsewhere DEF Typed
<1>4. TouchedAt(r)' /\ ExactAt(r)'
  BY <1>2, <1>3 DEF TouchedAt, ExactAt, InLoop
<1>5. \A q \in Requests \ {r} : TouchedAt(q)'
  BY <1>2, <1>3, TouchedElsewhere DEF Touched
<1>6. ASSUME atOnce = 1
      PROVE  OneRuns' /\ \A q \in Requests \ {r} : ExactAt(q)'
  <2>1. \A q \in Requests \ {r} : ~Running(q)
    BY <1>6 DEF Exact, OneRuns, Running, InRun
  <2>2. QED
    BY <1>2, <2>1 DEF OneRuns, Running, ExactAt, InLoop
<1>7. ASSUME atOnce = 1, NEW k \in RowKeys
      PROVE  Honest(opps'[k])
  <2>1. CASE wopps[r][k] = NoWrite
    BY <1>1, <1>7, <2>1 DEF After, Exact
  <2>2. CASE wopps[r][k] # NoWrite
    <3>1. InLoop(r) /\ k[1] = Key(r) /\ k[2] \in ExternalIds /\ k = <<k[1], k[2]>>
      BY <2>2 DEF Touched, TouchedAt, RowKeys
    <3>2. QED
      BY <1>1, <1>7, <3>1 DEF Exact, ExactAt
  <2>3. QED
    BY <2>1, <2>2
<1>8. QED
  BY <1>4, <1>5, <1>6, <1>7 DEF Touched, Exact

\* Steps before the loop: nothing is written yet.
LEMMA BeforeExact ==
  ASSUME Typed, Touched, Exact, NEW r \in Requests,
         \/ Start(r) \/ Answer(r) \/ SkipUnknown(r)
         \/ SelectSource(r) \/ InsertSource(r) \/ Fetch(r)
  PROVE  Touched' /\ Exact'
<1>1. /\ pc[r] \in {"idle", "next", "newSource", "fetch"}
      /\ pc'[r] \in {"next", "done", "fetch", "newSource", "load"}
      /\ UNCHANGED <<opps, plan, atOnce, pos, view, wopps>>
      /\ \A q \in Requests \ {r} : pc'[q] = pc[q] /\ at'[q] = at[q] /\ batch'[q] = batch[q]
  BY DEF Start, Answer, SkipUnknown, SelectSource, InsertSource, Fetch, Goto,
         tables, place, written, Typed, TypeOK
<1>2. TouchedAt(r)' /\ ExactAt(r)'
  BY <1>1 DEF Touched, TouchedAt, ExactAt, InLoop
<1>3. \A q \in Requests \ {r} : TouchedAt(q)'
  BY <1>1, TouchedElsewhere DEF Touched
<1>4. ASSUME atOnce = 1
      PROVE  \A q \in Requests \ {r} : ExactAt(q)'
  BY <1>1, <1>4, ExactElsewhere DEF Exact
<1>5. ASSUME atOnce = 1
      PROVE  OneRuns'
  <2>1. CASE Start(r)
    <3>1. {q \in Requests : Running(q)} = {}
      <4>1. SUFFICES ASSUME NEW q \in Requests, Running(q) PROVE FALSE
        OBVIOUS
      <4>2. {p \in Requests : Running(p)} = {q}
        BY <1>5, <4>1 DEF Exact, OneRuns
      <4>3. Cardinality({p \in Requests : Running(p)}) = 1
        BY <4>2, FS_Singleton
      <4>4. QED
        BY <1>5, <2>1, <4>3 DEF Start
    <3>2. QED
      BY <1>1, <3>1 DEF OneRuns, Running
  <2>2. CASE ~Start(r)
    <3>1. Running(r)
      BY <2>2 DEF Answer, SkipUnknown, SelectSource, InsertSource, Fetch, Running
    <3>2. QED
      BY <1>1, <1>5, <3>1 DEF Exact, OneRuns, Running
  <2>3. QED
    BY <2>1, <2>2
<1>6. QED
  BY <1>1, <1>2, <1>3, <1>4, <1>5 DEF Touched, Exact

\* What a step inside the loop leaves alone: the rows, and every other request.
Inside(r) ==
  /\ InLoop(r)
  /\ pc'[r] \in {"item", "tag", "newTag"}
  /\ UNCHANGED <<opps, plan, at, atOnce, batch>>
  /\ \A q \in Requests \ {r} :
       /\ pc'[q] = pc[q] /\ pos'[q] = pos[q]
       /\ view'[q] = view[q] /\ wopps'[q] = wopps[q]

LEMMA InsideExact ==
  ASSUME Touched, Exact, NEW r \in Requests, Inside(r),
         TouchedAt(r)', atOnce = 1 => ExactAt(r)'
  PROVE  Touched' /\ Exact'
<1>1. \A q \in Requests \ {r} : TouchedAt(q)'
  BY TouchedElsewhere DEF Touched, Inside
<1>2. ASSUME atOnce = 1
      PROVE  \A q \in Requests \ {r} : ExactAt(q)'
  BY <1>2, ExactElsewhere DEF Exact, Inside
<1>3. OneRuns => OneRuns'
  BY DEF OneRuns, Running, Inside, InLoop
<1>4. QED
  BY <1>1, <1>2, <1>3 DEF Touched, Exact, Inside

LEMMA LoadExact ==
  ASSUME Typed, Touched, Exact, NEW r \in Requests, Load(r)
  PROVE  Touched' /\ Exact'
<1>1. /\ pc[r] = "load" /\ pc'[r] = "item" /\ pos[r] = 1
      /\ \A k \in RowKeys : wopps[r][k] = NoWrite
      /\ UNCHANGED <<opps, plan, at, atOnce, batch, pos, wopps>>
      /\ \A q \in Requests \ {r} : pc'[q] = pc[q] /\ view'[q] = view[q]
      /\ \A i \in ExternalIds : view'[r][i] = opps[<<Key(r), i>>]
  BY DEF Load, Goto, tables, written, Typed, TypeOK, Touched, TouchedAt, InLoop
<1>2. batch[r] \in Seq(Items) /\ Key(r)' = Key(r) /\ Key(r) \in Connectors
  BY <1>1 DEF Typed, TypeOK, AtKey, InRun, Key
<1>3. Handled(r)' = {}
  BY <1>1, <1>2 DEF Handled, Tagging
<1>4. TouchedAt(r)'
  BY <1>1 DEF TouchedAt, InLoop
<1>5. ASSUME atOnce = 1
      PROVE  ExactAt(r)'
  <2>1. ASSUME NEW i \in ExternalIds
        PROVE  /\ <<Key(r), i>> \in RowKeys
               /\ After(r, <<Key(r), i>>)' = opps[<<Key(r), i>>]
               /\ wopps'[r][<<Key(r), i>>] = NoWrite
               /\ Honest(opps[<<Key(r), i>>])
    BY <1>1, <1>2, <1>5 DEF RowKeys, After, Exact
  <2>2. \A i : Last(r, i)' = {}
    BY <1>3 DEF Last, LastAmong
  <2>3. QED
    BY <1>1, <1>2, <2>1, <2>2 DEF ExactAt, Honest
<1>6. \A q \in Requests \ {r} : TouchedAt(q)'
  BY <1>1, TouchedElsewhere DEF Touched
<1>7. ASSUME atOnce = 1
      PROVE  OneRuns' /\ \A q \in Requests \ {r} : ExactAt(q)'
  <2>1. \A q \in Requests \ {r} : ExactAt(q)'
    BY <1>1, <1>7, ExactElsewhere DEF Exact
  <2>2. OneRuns'
    BY <1>1, <1>7 DEF Exact, OneRuns, Running
  <2>3. QED
    BY <2>1, <2>2
<1>8. QED
  BY <1>1, <1>4, <1>5, <1>6, <1>7 DEF Touched, Exact

\* An item is passed over: it is invalid, or its hash is that of its row.
LEMMA SkipItemExact ==
  ASSUME Typed, Touched, Exact, NEW r \in Requests, SkipInvalid(r) \/ SkipUnchanged(r)
  PROVE  Touched' /\ Exact'
<1>1. /\ pc[r] = "item" /\ pos[r] \in DOMAIN batch[r]
      /\ pc' = pc /\ pos'[r] = pos[r] + 1
      /\ \A q \in Requests \ {r} : pos'[q] = pos[q]
      /\ UNCHANGED <<opps, plan, at, atOnce, batch, view, wopps>>
  BY DEF SkipInvalid, SkipUnchanged, Valid, NextItem, tables, written, Typed, TypeOK
<1>2. Inside(r)
  BY <1>1 DEF Inside, InLoop
<1>3. \A id : Last(r, id)' =
        IF Item(r).valid /\ Item(r).id = id THEN {pos[r]} ELSE Last(r, id)
  BY <1>1, HandledStep DEF Typed
<1>4. Key(r)' = Key(r) /\ \A k : After(r, k)' = After(r, k)
  BY <1>1 DEF Key, After
<1>5. TouchedAt(r)'
  BY <1>1, <1>3, <1>4 DEF Touched, TouchedAt, InLoop
<1>6. ASSUME atOnce = 1
      PROVE  ExactAt(r)'
  <2>1. ASSUME NEW i \in ExternalIds, Item(r).valid, Item(r).id = i
        PROVE  After(r, <<Key(r), i>>) # NoRow
               /\ After(r, <<Key(r), i>>).hash = Hash(batch[r][pos[r]])
    <3>1. view[r][i] # NoRow /\ view[r][i].hash = Hash(Item(r))
      BY <2>1 DEF SkipInvalid, SkipUnchanged, Valid, IsNew, Differs
    <3>2. InLoop(r) /\ ExactAt(r)
      BY <1>1, <1>6 DEF InLoop, Exact
    <3>3. QED
      BY <2>1, <3>1, <3>2 DEF ExactAt, Item
  <2>2. InLoop(r) /\ ExactAt(r)
    BY <1>1, <1>6 DEF InLoop, Exact
  <2>3. QED
    BY <1>1, <1>3, <1>4, <2>1, <2>2 DEF ExactAt, Honest
<1>7. QED
  BY <1>2, <1>5, <1>6, InsideExact

\* A row is written: columns and hash are the item's, be it inserted or updated.
LEMMA WriteContent ==
  ASSUME Typed, Exact, atOnce = 1, NEW r \in Requests, InsertOpp(r) \/ UpdateOpp(r)
  PROVE  \A k \in RowKeys :
           IF k = Slot(r)
           THEN /\ wopps'[r][k] # NoWrite /\ After(r, k)' # NoRow
                /\ After(r, k)'.content = Item(r).content
                /\ After(r, k)'.hash = Hash(Item(r))
           ELSE wopps'[r][k] = wopps[r][k]
<1>1. /\ Valid(r) /\ InLoop(r) /\ pos[r] \in DOMAIN batch[r] /\ opps' = opps
      /\ TypeOK /\ AtKey /\ InRun(r)
  BY DEF Typed, TypeOK, InsertOpp, UpdateOpp, IsNew, Differs, Valid, InLoop, InRun, tables
<1>2. /\ Item(r) \in Items /\ Item(r).id \in ExternalIds
      /\ Item(r).content \in [Fields -> Values] /\ Slot(r) \in RowKeys
  BY <1>1, ItemType, SlotType
<1>3. PICK set :
        /\ wopps' = [wopps EXCEPT ![r][Slot(r)] = ItemWrite(r, set)]
        /\ set \in [Fields -> Values \cup {Keep}]
        /\ \A f \in Fields :
             (IF set[f] = Keep THEN opps[Slot(r)].content[f] ELSE set[f]) = Item(r).content[f]
  <2>1. CASE InsertOpp(r)
    <3>1. wopps' = [wopps EXCEPT ![r][Slot(r)] = ItemWrite(r, Item(r).content)]
      BY <2>1 DEF InsertOpp
    <3>2. \A f \in Fields : Item(r).content[f] # Keep
      BY <1>2, IngestionAssumption
    <3>3. QED
      BY <1>2, <3>1, <3>2
  <2>2. CASE UpdateOpp(r)
    <3>1. wopps' = [wopps EXCEPT ![r][Slot(r)] = ItemWrite(r, SetClause(r))]
      BY <2>2 DEF UpdateOpp
    <3>2. wopps[r][Slot(r)] \in Writes \cup {NoWrite}
      BY <1>1, <1>2 DEF TypeOK
    <3>3. SetClause(r) \in [Fields -> Values \cup {Keep}]
      BY <1>2, <3>2 DEF SetClause, SetBefore, Writes
    <3>4. /\ view[r][Item(r).id].content = After(r, Slot(r)).content
          /\ wopps[r][Slot(r)] = NoWrite => After(r, Slot(r)) = opps[Slot(r)]
      BY <1>1, <1>2, <2>2 DEF Exact, ExactAt, UpdateOpp, Differs, Slot, After
    <3>5. ASSUME NEW f \in Fields
          PROVE  (IF SetClause(r)[f] = Keep THEN opps[Slot(r)].content[f]
                  ELSE SetClause(r)[f]) = Item(r).content[f]
      <4>1. CASE Changed(r, f)
        <5>1. SetClause(r)[f] = Item(r).content[f] /\ Item(r).content[f] # Keep
          BY <1>2, <4>1, IngestionAssumption DEF SetClause
        <5>2. QED
          BY <5>1
      <4>2. CASE ~Changed(r, f)
        <5>1. SetClause(r)[f] = SetBefore(r, f)
          BY <4>2 DEF SetClause
        <5>2. Item(r).content[f] = After(r, Slot(r)).content[f]
          BY <3>4, <4>2 DEF Changed
        <5>3. CASE wopps[r][Slot(r)] = NoWrite
          BY <3>4, <5>1, <5>2, <5>3 DEF SetBefore
        <5>4. CASE wopps[r][Slot(r)] # NoWrite
          BY <5>1, <5>2, <5>4 DEF SetBefore, After
        <5>5. QED
          BY <5>3, <5>4
      <4>3. QED
        BY <4>1, <4>2
    <3>6. QED
      BY <3>1, <3>3, <3>5
  <2>3. QED
    BY <2>1, <2>2
<1>4. ItemWrite(r, set) \in Writes /\ ItemWrite(r, set) # NoWrite
  BY <1>2, <1>3, HashType, SentinelAssumption DEF ItemWrite, Writes
<1>5. ItemWrite(r, set).set = set /\ ItemWrite(r, set).hash = Hash(Item(r))
  BY DEF ItemWrite
<1>6. /\ wopps'[r][Slot(r)] = ItemWrite(r, set)
      /\ \A k \in RowKeys \ {Slot(r)} : wopps'[r][k] = wopps[r][k]
  BY <1>1, <1>2, <1>3 DEF TypeOK
<1> DEFINE row == [content |-> [f \in Fields |-> IF set[f] = Keep
                                                 THEN opps[Slot(r)].content[f]
                                                 ELSE set[f]],
                   hash |-> Hash(Item(r)), tags |-> ItemWrite(r, set).tags]
<1>7. row.content = Item(r).content
  BY <1>2, <1>3
<1>8. row \in Rows
  BY <1>2, <1>4, <1>7, HashType DEF Rows, Writes
<1>9. \A k \in RowKeys : k = Slot(r) => After(r, k)' = row
  BY <1>1, <1>4, <1>5, <1>6 DEF After
<1>10. row # NoRow /\ row.hash = Hash(Item(r))
  BY <1>8, SentinelAssumption
<1> HIDE DEF row
<1>11. QED
  BY <1>4, <1>6, <1>7, <1>9, <1>10

LEMMA WriteExact ==
  ASSUME Typed, Touched, Exact, NEW r \in Requests, InsertOpp(r) \/ UpdateOpp(r)
  PROVE  Touched' /\ Exact'
<1>1. /\ TypeOK /\ Valid(r) /\ pc[r] = "item" /\ pos[r] \in DOMAIN batch[r]
      /\ Item(r).valid /\ InLoop(r) /\ ToTags(r)
      /\ UNCHANGED <<opps, plan, at, atOnce, batch>>
  BY DEF Typed, TypeOK, InsertOpp, UpdateOpp, IsNew, Differs, Valid, InLoop, tables
<1>2. Item(r).id \in ExternalIds /\ Slot(r) \in RowKeys /\ Slot(r) = <<Key(r), Item(r).id>>
  BY <1>1, ItemType, SlotType DEF Typed, InRun, Slot
<1>3. /\ pc'[r] \in {"item", "tag"}
      /\ pc'[r] = "tag" => pos'[r] = pos[r]
      /\ pc'[r] = "item" => pos'[r] = pos[r] + 1
      /\ \A q \in Requests \ {r} : pc'[q] = pc[q] /\ pos'[q] = pos[q]
  BY <1>1 DEF ToTags, NextItem, Goto, TypeOK
<1>4. PICK write : wopps' = [wopps EXCEPT ![r][Slot(r)] = write]
  BY DEF InsertOpp, UpdateOpp
<1>5. /\ \A q \in Requests \ {r} : wopps'[q] = wopps[q]
      /\ \A k \in RowKeys \ {Slot(r)} : wopps'[r][k] = wopps[r][k]
  BY <1>1, <1>2, <1>4 DEF TypeOK
<1>6. /\ \A q \in Requests \ {r} : view'[q] = view[q]
      /\ \A i \in ExternalIds \ {Item(r).id} : view'[r][i] = view[r][i]
      /\ view'[r][Item(r).id] # NoRow =>
           /\ view'[r][Item(r).id].content = Item(r).content
           /\ view'[r][Item(r).id].hash = Hash(Item(r))
  <2>1. CASE InsertOpp(r)
    BY <2>1 DEF InsertOpp, IsNew
  <2>2. CASE UpdateOpp(r)
    BY <1>1, <1>2, <2>2 DEF UpdateOpp, TypeOK
  <2>3. QED
    BY <2>1, <2>2
<1>7. Inside(r)
  BY <1>1, <1>3, <1>5, <1>6 DEF Inside, InLoop
<1>8. \A id : Last(r, id)' = IF Item(r).id = id THEN {pos[r]} ELSE Last(r, id)
  BY <1>1, <1>3, HandledStep
<1>9. Key(r)' = Key(r) /\ InLoop(r)'
  BY <1>1, <1>3 DEF Key, InLoop
<1>10. TouchedAt(r)'
  <2>1. SUFFICES ASSUME NEW k \in RowKeys, wopps'[r][k] # NoWrite
                 PROVE  k[1] = Key(r) /\ Last(r, k[2])' # {}
    BY <1>9 DEF TouchedAt
  <2>2. CASE k = Slot(r)
    BY <1>2, <1>8, <2>2
  <2>3. CASE k # Slot(r)
    BY <1>5, <1>8, <2>1, <2>3 DEF Touched, TouchedAt
  <2>4. QED
    BY <2>2, <2>3
<1>11. ASSUME atOnce = 1
       PROVE  ExactAt(r)'
  <2>1. \A k \in RowKeys :
          IF k = Slot(r)
          THEN /\ wopps'[r][k] # NoWrite /\ After(r, k)' # NoRow
               /\ After(r, k)'.content = Item(r).content
               /\ After(r, k)'.hash = Hash(Item(r))
          ELSE wopps'[r][k] = wopps[r][k] /\ After(r, k)' = After(r, k)
    <3>1. \A k \in RowKeys : wopps'[r][k] = wopps[r][k] => After(r, k)' = After(r, k)
      BY <1>1 DEF After
    <3>2. QED
      BY <1>11, <3>1, WriteContent
  <2>2. SUFFICES ASSUME NEW i \in ExternalIds, NEW k \in RowKeys, k = <<Key(r), i>>
                 PROVE  /\ wopps'[r][k] = NoWrite => view'[r][i] = opps[k]
                        /\ view'[r][i] # NoRow =>
                             /\ After(r, k)' # NoRow
                             /\ view'[r][i].content = After(r, k)'.content
                             /\ view'[r][i].hash = After(r, k)'.hash
                        /\ \A j \in Last(r, i)' :
                             After(r, k)' # NoRow /\ After(r, k)'.hash = Hash(batch[r][j])
                        /\ Honest(After(r, k)')
    <3>1. \A i \in ExternalIds : <<Key(r), i>> \in RowKeys
      BY <1>1 DEF Typed, AtKey, InRun, InLoop, RowKeys
    <3>2. QED
      BY <1>1, <1>9, <2>2, <3>1 DEF ExactAt, Honest
  <2>3. CASE i = Item(r).id
    <3>1. k = Slot(r) /\ Last(r, i)' = {pos[r]} /\ Item(r) = batch[r][pos[r]]
      BY <1>2, <1>8, <2>2, <2>3 DEF Item
    <3>2. Hash(Item(r)).fields = [f \in HashedFields |-> Item(r).content[f]]
      BY DEF Hash
    <3>3. QED
      BY <1>6, <2>1, <2>3, <3>1, <3>2 DEF Honest
  <2>4. CASE i # Item(r).id
    <3>1. k # Slot(r) /\ Last(r, i)' = Last(r, i) /\ view'[r][i] = view[r][i]
      BY <1>2, <1>6, <1>8, <2>2, <2>4
    <3>2. wopps'[r][k] = wopps[r][k] /\ After(r, k)' = After(r, k)
      BY <2>1, <3>1
    <3>3. QED
      BY <1>1, <1>11, <2>2, <3>1, <3>2 DEF Exact, ExactAt
  <2>5. QED
    BY <2>3, <2>4
<1>12. QED
  BY <1>7, <1>10, <1>11, InsideExact

\* What is written is a row.
WrittenAreRows ==
  \A r \in Requests, k \in RowKeys : wopps[r][k] # NoWrite => After(r, k) # NoRow

LEMMA WrittenIsRow == Typed => WrittenAreRows
<1> SUFFICES ASSUME Typed, NEW r \in Requests, NEW k \in RowKeys, wopps[r][k] # NoWrite
             PROVE  After(r, k) # NoRow
  BY DEF WrittenAreRows
<1>1. wopps[r][k] \in Writes /\ (opps[k] # NoRow => opps[k] \in Rows)
  BY DEF Typed, TypeOK
<1>2. CASE opps[k] # NoRow
  BY <1>2, AfterType
<1>3. CASE opps[k] = NoRow
  <2>1. \A f \in Fields : wopps[r][k].set[f] # Keep
    BY <1>3 DEF Typed, Founded
  <2>2. After(r, k) \in Rows
    BY <1>1, <2>1 DEF After, Rows, Writes
  <2>3. QED
    BY <2>2, SentinelAssumption
<1>4. QED
  BY <1>2, <1>3

\* The tags of the current item leave its columns and hash alone.
LEMMA TagExact ==
  ASSUME Typed, Touched, Exact, NEW r \in Requests,
         SkipRepeated(r) \/ LinkTag(r) \/ MissTag(r) \/ InsertTag(r)
  PROVE  Touched' /\ Exact'
<1>1. /\ TypeOK /\ Tagging(r) /\ InLoop(r) /\ pos[r] \in DOMAIN batch[r]
      /\ Name(r) \in TagNames
      /\ UNCHANGED <<opps, plan, at, atOnce, batch, view>>
  BY NameType DEF Typed, Tagging, AtTag, InLoop, SkipRepeated, LinkTag, MissTag,
         InsertTag, tables, place
<1>2. /\ pc'[r] \in {"item", "tag", "newTag"}
      /\ pc'[r] # "item" => pos'[r] = pos[r]
      /\ pc'[r] = "item" => pos'[r] = pos[r] + 1
      /\ \A q \in Requests \ {r} : pc'[q] = pc[q] /\ pos'[q] = pos[q]
  <2>1. CASE MissTag(r)
    BY <1>1, <2>1 DEF MissTag, Goto, place, TypeOK
  <2>2. CASE AfterTag(r)
    BY <1>1, <2>2 DEF AfterTag, NextItem, Goto, TypeOK
  <2>3. QED
    BY <2>1, <2>2 DEF SkipRepeated, LinkTag, InsertTag
<1>3. /\ \A q \in Requests \ {r} : wopps'[q] = wopps[q]
      /\ \A k \in RowKeys :
           \/ wopps'[r][k] = wopps[r][k]
           \/ /\ wopps[r][k] # NoWrite /\ wopps'[r][k] # NoWrite
              /\ wopps'[r][k].set = wopps[r][k].set
              /\ wopps'[r][k].hash = wopps[r][k].hash
  <2>1. CASE wopps' = wopps
    BY <2>1
  <2>2. ASSUME NEW s \in TagNames, wopps' = Link(r, s)
        PROVE  /\ \A q \in Requests \ {r} : wopps'[q] = wopps[q]
               /\ \A k \in RowKeys \ {Slot(r)} : wopps'[r][k] = wopps[r][k]
               /\ wopps[r][Slot(r)] # NoWrite /\ wopps'[r][Slot(r)] # NoWrite
               /\ wopps'[r][Slot(r)].set = wopps[r][Slot(r)].set
               /\ wopps'[r][Slot(r)].hash = wopps[r][Slot(r)].hash
    <3>1. /\ wopps'[r][Slot(r)] = [wopps[r][Slot(r)] EXCEPT !.tags = @ \cup {s}]
          /\ wopps[r][Slot(r)] \in Writes /\ wopps'[r][Slot(r)] \in Writes
          /\ \A k \in RowKeys \ {Slot(r)} : wopps'[r][k] = wopps[r][k]
          /\ \A q \in Requests \ {r} : wopps'[q] = wopps[q]
      BY <1>1, <2>2, LinkType
    <3>2. /\ wopps'[r][Slot(r)].set = wopps[r][Slot(r)].set
          /\ wopps'[r][Slot(r)].hash = wopps[r][Slot(r)].hash
      BY <3>1 DEF Writes
    <3>3. QED
      BY <3>1, <3>2, SentinelAssumption
  <2>3. CASE LinkTag(r) \/ InsertTag(r)
    <3>1. PICK s \in TagNames : wopps' = Link(r, s)
      <4>1. Found(r) \subseteq TagNames
        BY <1>1 DEF Found, Visible, TypeOK
      <4>2. QED
        BY <1>1, <2>3, <4>1 DEF LinkTag, InsertTag
    <3>2. QED
      BY <2>2, <3>1
  <2>4. QED
    BY <2>1, <2>3 DEF SkipRepeated, MissTag, written
<1>4. Inside(r)
  BY <1>1, <1>2, <1>3 DEF Inside
<1>5. \A id : Last(r, id)' = Last(r, id)
  BY <1>1, <1>2, HandledTags
<1>6. Key(r)' = Key(r) /\ InLoop(r)'
  BY <1>1, <1>2 DEF Key, InLoop
<1>7. TouchedAt(r)'
  <2>1. \A k \in RowKeys : wopps'[r][k] # NoWrite => wopps[r][k] # NoWrite
    BY <1>3
  <2>2. QED
    BY <1>5, <1>6, <2>1 DEF Touched, TouchedAt
<1>8. ASSUME atOnce = 1
      PROVE  ExactAt(r)'
  <2>1. ASSUME NEW k \in RowKeys
        PROVE  /\ After(r, k) # NoRow => After(r, k)' # NoRow
               /\ After(r, k)' # NoRow => After(r, k) # NoRow
               /\ After(r, k)'.content = After(r, k).content
               /\ After(r, k)'.hash = After(r, k).hash
               /\ wopps'[r][k] = NoWrite => wopps[r][k] = NoWrite
    <3>1. CASE wopps'[r][k] = wopps[r][k]
      <4>1. After(r, k)' = After(r, k)
        BY <1>1, <3>1 DEF After
      <4>2. QED
        BY <3>1, <4>1
    <3>2. CASE wopps'[r][k] # wopps[r][k]
      <4>1. /\ wopps[r][k] # NoWrite /\ wopps'[r][k] # NoWrite
            /\ wopps'[r][k].set = wopps[r][k].set
            /\ wopps'[r][k].hash = wopps[r][k].hash
        BY <1>3, <3>2
      <4>2. After(r, k)'.content = After(r, k).content /\ After(r, k)'.hash = After(r, k).hash
        BY <1>1, <4>1 DEF After
      <4>3. After(r, k) # NoRow
        BY <4>1, WrittenIsRow DEF WrittenAreRows
      <4>4. After(r, k)' # NoRow
        <5>1. Typed'
          BY TagTyped
        <5>2. WrittenAreRows'
          BY <5>1, WrittenIsRow, PTL
        <5>3. QED
          BY <4>1, <5>2 DEF WrittenAreRows
      <4>5. QED
        BY <4>1, <4>2, <4>3, <4>4
    <3>3. QED
      BY <3>1, <3>2
  <2>2. \A i \in ExternalIds : <<Key(r), i>> \in RowKeys
    BY <1>1 DEF Typed, AtKey, InRun, InLoop, RowKeys
  <2>3. QED
    BY <1>1, <1>5, <1>6, <1>8, <2>1, <2>2 DEF Exact, ExactAt, Honest
<1>9. QED
  BY <1>4, <1>7, <1>8, InsideExact

LEMMA NextExact ==
  ASSUME Typed, Touched, Exact, [Next]_vars
  PROVE  Touched' /\ Exact'
<1>1. ASSUME NEW r \in Requests, FetchFails(r) \/ Finish(r)
      PROVE  Touched' /\ Exact'
  <2>1. InRun(r) /\ UNCHANGED <<plan, atOnce>>
    BY <1>1 DEF FetchFails, Finish, InRun
  <2>2. PICK status, found : Commit(r, status, found)
    BY <1>1 DEF FetchFails, Finish
  <2>3. QED
    BY <2>1, <2>2, CommitExact
<1>2. ASSUME NEW r \in Requests,
             \/ SourceClash(r) \/ InsertClash(r) \/ TagClash(r)
             \/ DeadlockVictim(r) \/ Crash(r)
      PROVE  Touched' /\ Exact'
  BY <1>2, AbortExact
     DEF SourceClash, InsertClash, TagClash, DeadlockVictim, Crash
<1>3. CASE AllDone \/ UNCHANGED vars
  <2>1. UNCHANGED <<opps, pc, plan, at, atOnce, batch, pos, view, wopps>>
    BY <1>3 DEF AllDone, vars, tables, place, written
  <2>2. Touched'
    BY <2>1, TouchedElsewhere DEF Touched
  <2>3. atOnce = 1 => \A r \in Requests : ExactAt(r)'
    BY <2>1, ExactElsewhere DEF Exact
  <2>4. OneRuns => OneRuns'
    BY <2>1 DEF OneRuns, Running
  <2>5. QED
    BY <2>1, <2>2, <2>3, <2>4 DEF Exact, Honest
<1>4. QED
  BY <1>1, <1>2, <1>3, BeforeExact, LoadExact, SkipItemExact, WriteExact, TagExact
     DEF Next, Step

LEMMA Exactness == Spec => [](Typed /\ Touched /\ Exact)
  BY InitTyped, InitExact, NextTyped, NextExact, PTL DEF Spec

\* When requests do not overlap, a row's hash is that of its columns, for any
\* sources that repeat, change and drop items.
THEOREM HashesNameTheContent == Spec => []HashNamesTheContent
<1>1. Typed /\ Touched /\ Exact => HashNamesTheContent
  BY DEF Exact, HashNamesTheContent, Honest
<1>2. QED
  BY <1>1, Exactness, PTL

\* When requests do not overlap, a finished run leaves every valid item's last
\* occurrence in the table, and the rows its batch does not name alone.
THEOREM RunsInstall == Spec => RunInstallsItsBatch
<1>1. ASSUME Typed, Touched, Exact, atOnce = 1, NEW r \in Requests, Finish(r)
      PROVE  Installs(r)
  <2>1. /\ InLoop(r) /\ ExactAt(r) /\ TypeOK
        /\ \A k \in RowKeys : opps'[k] = After(r, k)
        /\ pos[r] > Len(batch[r])
    BY <1>1 DEF Finish, Commit, InLoop, Exact, Typed
  <2>2. batch[r] \in Seq(Items) /\ pos[r] \in Nat
    BY <2>1 DEF TypeOK
  <2>3. Handled(r) = DOMAIN batch[r]
    BY <2>1, <2>2 DEF Handled
  <2>4. \A id : Last(r, id) = LastOf(r, id)
    BY <2>3 DEF Last, LastAmong, LastOf, Names
  <2>5. ASSUME NEW k \in RowKeys
        PROVE  /\ (IF k[1] = Key(r) THEN LastOf(r, k[2]) ELSE {}) = {} => opps'[k] = opps[k]
               /\ \A i \in IF k[1] = Key(r) THEN LastOf(r, k[2]) ELSE {} :
                    /\ opps'[k] # NoRow
                    /\ opps'[k].hash = Hash(batch[r][i])
                    /\ \A f \in HashedFields :
                         opps'[k].content[f] = batch[r][i].content[f]
    <3>1. ASSUME wopps[r][k] # NoWrite
          PROVE  k[1] = Key(r) /\ LastOf(r, k[2]) # {}
      BY <1>1, <2>4, <3>1 DEF Touched, TouchedAt
    <3>2. wopps[r][k] = NoWrite => opps'[k] = opps[k]
      BY <2>1 DEF After
    <3>3. ASSUME k[1] = Key(r), NEW i \in LastOf(r, k[2])
          PROVE  /\ opps'[k] # NoRow
                 /\ opps'[k].hash = Hash(batch[r][i])
                 /\ \A f \in HashedFields :
                      opps'[k].content[f] = batch[r][i].content[f]
      <4>1. k[2] \in ExternalIds /\ k = <<Key(r), k[2]>> /\ opps'[k] = After(r, k)
        BY <2>1, <3>3 DEF RowKeys
      <4>2. /\ After(r, k) # NoRow /\ After(r, k).hash = Hash(batch[r][i])
            /\ Honest(After(r, k))
        BY <2>1, <2>4, <3>3, <4>1 DEF ExactAt
      <4>3. Hash(batch[r][i]).fields = [f \in HashedFields |-> batch[r][i].content[f]]
        BY DEF Hash
      <4>4. [f \in HashedFields |-> batch[r][i].content[f]] =
              [f \in HashedFields |-> After(r, k).content[f]]
        BY <4>2, <4>3 DEF Honest
      <4>5. ASSUME NEW f \in HashedFields
            PROVE  batch[r][i].content[f] = After(r, k).content[f]
        <5> DEFINE a == [g \in HashedFields |-> batch[r][i].content[g]]
                   b == [g \in HashedFields |-> After(r, k).content[g]]
        <5>1. a[f] = b[f]
          BY <4>4
        <5>2. QED
          BY <5>1
      <4>6. QED
        BY <4>1, <4>2, <4>5
    <3>4. QED
      BY <3>1, <3>2, <3>3
  <2>6. QED
    BY <2>5 DEF Installs
<1>2. Typed /\ Touched /\ Exact /\ [Next]_vars =>
        [atOnce = 1 => \A r \in Requests : Finish(r) => Installs(r)]_vars
  BY <1>1
<1>3. QED
  BY <1>2, Exactness, PTL DEF Spec, RunInstallsItsBatch

-----------------------------------------------------------------------------
(* Told: what connector_runs says of the plans and of the opportunities.    *)

\* Each row is of a key its request is past, no two are of the same, and each
\* known key that a request is past has one.
Logged ==
  /\ \A q \in runs : \E i \in DOMAIN plan[q.request] :
       i < at[q.request] /\ plan[q.request][i] = q.key
  /\ \A p, q \in runs : p.request = q.request /\ p.key = q.key => p = q
  /\ \A r \in Requests : \A i \in DOMAIN plan[r] :
       i < at[r] /\ plan[r][i] \in Connectors =>
         \E q \in runs : q.request = r /\ q.key = plan[r][i]

\* A pending row has one writer.
Locked ==
  \A r, q \in Requests, k \in RowKeys :
    wopps[r][k] # NoWrite /\ wopps[q][k] # NoWrite => r = q

Stored(c) == {i \in ExternalIds : opps[<<c, i>>] # NoRow}
Fresh(r)  ==
  {i \in ExternalIds : InLoop(r) /\ wopps[r][<<Key(r), i>>] # NoWrite
                                 /\ opps[<<Key(r), i>>] = NoRow}

\* A transaction has counted the rows it is about to add.
CountsFresh == \A r \in Requests : stats[r].created = Cardinality(Fresh(r))

Enough == Cardinality(ExternalIds) + 1
Tally ==
  \A c \in Connectors :
    /\ IsFiniteSet(Created(c, Enough))
    /\ Cardinality(Created(c, Enough)) = Cardinality(Stored(c))

Told == Logged /\ Locked /\ CountsFresh /\ Tally

LEMMA PlanType ==
  ASSUME TypeOK, NEW r \in Requests
  PROVE  /\ plan[r] \in Seq(Connectors \cup {"unknown"})
         /\ \A i, j \in DOMAIN plan[r] : plan[r][i] = plan[r][j] => i = j
         /\ DOMAIN plan[r] \subseteq Nat
<1>1. plan[r] \in Plans
  BY DEF TypeOK
<1>2. /\ plan[r] \in Seq(Connectors \cup {"unknown"})
      /\ \A i, j \in DOMAIN plan[r] : plan[r][i] = plan[r][j] => i = j
  BY <1>1, PlansAssumption
<1>3. DOMAIN plan[r] = 1 .. Len(plan[r]) /\ Len(plan[r]) \in Nat
  BY <1>2
<1>4. QED
  BY <1>2, <1>3

LEMMA RunsOfOne == Typed /\ Logged => RunsMatchProgress
<1> SUFFICES ASSUME Typed, Logged, NEW r \in Requests, NEW i \in DOMAIN plan[r],
                    plan[r][i] \in Connectors
             PROVE  Cardinality(RunsOf(r, plan[r][i])) = IF i < at[r] THEN 1 ELSE 0
  BY DEF RunsMatchProgress
<1>1. CASE i < at[r]
  <2>1. PICK q \in runs : q.request = r /\ q.key = plan[r][i]
    BY <1>1 DEF Logged
  <2>2. RunsOf(r, plan[r][i]) = {q}
    BY <2>1 DEF Logged, RunsOf
  <2>3. QED
    BY <1>1, <2>2, FS_Singleton
<1>2. CASE ~(i < at[r])
  <2>1. ASSUME NEW q \in RunsOf(r, plan[r][i])
        PROVE  FALSE
    <3>1. PICK j \in DOMAIN plan[r] : j < at[r] /\ plan[r][j] = plan[r][i]
      BY DEF RunsOf, Logged
    <3>2. j = i
      BY <3>1, PlanType DEF Typed
    <3>3. QED
      BY <1>2, <3>1, <3>2
  <2>2. RunsOf(r, plan[r][i]) = {}
    BY <2>1
  <2>3. QED
    BY <1>2, <2>2, FS_EmptySet
<1>3. QED
  BY <1>1, <1>2

LEMMA InitTold == Init => Told
<1> SUFFICES ASSUME Init PROVE Told
  OBVIOUS
<1>1. Logged
  <2>1. runs = {} /\ \A r \in Requests : at[r] = 1 /\ plan[r] \in Plans
    BY DEF Init
  <2>2. \A r \in Requests : plan[r] \in Seq(Connectors \cup {"unknown"})
    BY <2>1, PlansAssumption
  <2>3. QED
    BY <2>1, <2>2 DEF Logged
<1>2. Locked
  BY DEF Init, Locked
<1>3. CountsFresh
  <2>1. \A r \in Requests : Fresh(r) = {} /\ stats[r].created = 0
    BY DEF Init, Fresh, InLoop, NoStats
  <2>2. QED
    BY <2>1, FS_EmptySet DEF CountsFresh
<1>4. Tally
  <2>1. ASSUME NEW c \in Connectors
        PROVE  Created(c, Enough) = {} /\ Stored(c) = {}
    BY DEF Init, Created, Stored, RowKeys
  <2>2. QED
    BY <2>1, FS_EmptySet DEF Tally
<1>5. QED
  BY <1>1, <1>2, <1>3, <1>4 DEF Told

\* Steps that commit nothing and pass no known key leave the log right.
LEMMA QuietLogged ==
  ASSUME Typed, Logged, UNCHANGED <<runs, plan>>,
         \/ at' = at
         \/ \E r \in Requests : SkipUnknown(r)
  PROVE  Logged'
<1>1. CASE at' = at
  BY <1>1 DEF Logged
<1>2. ASSUME NEW r \in Requests, SkipUnknown(r)
      PROVE  Logged'
  <2>1. /\ at[r] \in Nat /\ at'[r] = at[r] + 1
        /\ \A q \in Requests \ {r} : at'[q] = at[q]
        /\ plan[r][at[r]] \notin Connectors
    <3>1. at \in [Requests -> Nat \ {0}]
      BY DEF Typed, TypeOK
    <3>2. at' = [at EXCEPT ![r] = at[r] + 1] /\ plan[r][at[r]] \notin Connectors
      BY <1>2 DEF SkipUnknown, Key
    <3>3. QED
      BY <3>1, <3>2
  <2>2. \A q \in runs : q.request \in Requests
    BY DEF Typed, TypeOK, RunRows
  <2>3. \A q \in Requests : DOMAIN plan[q] \subseteq Nat
    BY PlanType DEF Typed
  <2>4. ASSUME NEW q \in Requests, NEW i \in DOMAIN plan[q]
        PROVE  /\ i < at[q] => i < at'[q]
               /\ i < at'[q] /\ plan[q][i] \in Connectors => i < at[q]
    <3>1. i \in Nat /\ at[q] \in Nat
      BY <2>3 DEF Typed, TypeOK
    <3>2. CASE q = r
      BY <2>1, <3>1, <3>2
    <3>3. CASE q # r
      BY <2>1, <3>3
    <3>4. QED
      BY <3>2, <3>3
  <2>5. QED
    BY <2>2, <2>4 DEF Logged
<1>3. QED
  BY <1>1, <1>2

LEMMA CommitLogged ==
  ASSUME Typed, Logged, NEW r \in Requests, InRun(r), NEW status, NEW found,
         Commit(r, status, found), UNCHANGED plan
  PROVE  /\ Logged'
         /\ \A q \in runs : ~(q.request = r /\ q.key = Key(r))
<1>1. /\ at[r] \in DOMAIN plan[r] /\ Key(r) \in Connectors /\ at[r] \in Nat
      /\ \A i, j \in DOMAIN plan[r] : plan[r][i] = plan[r][j] => i = j
      /\ \A q \in Requests : DOMAIN plan[q] \subseteq Nat
  <2>1. TypeOK /\ at[r] \in DOMAIN plan[r] /\ Key(r) \in Connectors
    BY DEF Typed, AtKey
  <2>2. QED
    BY <2>1, PlanType DEF TypeOK
<1>2. /\ at'[r] = at[r] + 1 /\ \A q \in Requests \ {r} : at'[q] = at[q]
      /\ runs' = runs \cup {RunRow(r, status, found)}
  BY DEF Commit, Typed, TypeOK
<1>3. RunRow(r, status, found).request = r /\ RunRow(r, status, found).key = plan[r][at[r]]
  BY DEF RunRow, Key
<1>4. \A q \in runs : q.request \in Requests
  BY DEF Typed, TypeOK, RunRows
<1>5. \A q \in runs : ~(q.request = r /\ q.key = plan[r][at[r]])
  BY <1>1 DEF Logged
<1>6. ASSUME NEW q \in Requests, NEW i \in DOMAIN plan[q], i < at[q]
      PROVE  i < at'[q]
  <2>1. i \in Nat /\ at[q] \in Nat
    BY <1>1 DEF Typed, TypeOK
  <2>2. CASE q = r
    BY <1>2, <1>6, <2>1, <2>2
  <2>3. CASE q # r
    BY <1>2, <1>6, <2>3
  <2>4. QED
    BY <2>2, <2>3
<1>7. ASSUME NEW q \in runs'
      PROVE  \E i \in DOMAIN plan[q.request] :
               i < at'[q.request] /\ plan[q.request][i] = q.key
  <2>1. CASE q \in runs
    BY <1>4, <1>6, <2>1 DEF Logged
  <2>2. CASE q = RunRow(r, status, found)
    BY <1>1, <1>2, <1>3, <2>2
  <2>3. QED
    BY <1>2, <2>1, <2>2
<1>8. \A p, q \in runs' : p.request = q.request /\ p.key = q.key => p = q
  BY <1>2, <1>3, <1>5 DEF Logged
<1>9. ASSUME NEW q \in Requests, NEW i \in DOMAIN plan[q], i < at'[q],
             plan[q][i] \in Connectors
      PROVE  \E p \in runs' : p.request = q /\ p.key = plan[q][i]
  <2>1. CASE i < at[q]
    BY <1>2, <1>9, <2>1 DEF Logged
  <2>2. CASE ~(i < at[q])
    <3>1. q = r
      BY <1>2, <1>9, <2>2
    <3>2. i \in Nat /\ i < at[r] + 1 /\ ~(i < at[r])
      BY <1>1, <1>2, <1>9, <2>2, <3>1
    <3>3. i = at[r]
      BY <1>1, <3>2
    <3>4. QED
      BY <1>2, <1>3, <3>1, <3>3
  <2>3. QED
    BY <2>1, <2>2
<1>10. QED
  BY <1>5, <1>7, <1>8, <1>9 DEF Logged, Key

\* Nothing of the rows, of what is written or of what was counted changes.
LEMMA QuietTold ==
  ASSUME Locked, CountsFresh, Tally, UNCHANGED <<opps, runs, wopps, stats>>,
         \A r \in Requests : Fresh(r)' = Fresh(r)
  PROVE  (Locked /\ CountsFresh /\ Tally)'
  BY DEF Locked, CountsFresh, Tally, Created, Stored, Enough

LEMMA AbortTold ==
  ASSUME Typed, Told, NEW r \in Requests, Abort(r)
  PROVE  Told'
<1>1. /\ pc'[r] = "done" /\ stats'[r].created = 0
      /\ UNCHANGED <<opps, runs, plan, at>>
      /\ \A q \in Requests \ {r} : pc'[q] = pc[q] /\ stats'[q] = stats[q]
  BY DEF Abort, Goto, EndTx, NoStats, tables, Typed, TypeOK
<1>2. /\ \A k \in RowKeys : wopps'[r][k] = NoWrite
      /\ \A q \in Requests \ {r} : wopps'[q] = wopps[q]
  BY EndTxElsewhere DEF Abort, Typed
<1>3. Locked'
  BY <1>2 DEF Told, Locked
<1>4. Fresh(r)' = {} /\ \A q \in Requests \ {r} : Fresh(q)' = Fresh(q)
  BY <1>1, <1>2 DEF Fresh, InLoop, Key
<1>5. CountsFresh'
  BY <1>1, <1>4, FS_EmptySet DEF Told, CountsFresh
<1>6. Tally'
  BY <1>1 DEF Told, Tally, Created, Stored, Enough
<1>7. Logged'
  BY <1>1, QuietLogged DEF Told
<1>8. QED
  BY <1>3, <1>5, <1>6, <1>7 DEF Told

LEMMA NumberedCopies ==
  ASSUME NEW row, NEW n \in Nat
  PROVE  IsFiniteSet({row} \X (1 .. n)) /\ Cardinality({row} \X (1 .. n)) = n
<1>1. IsFiniteSet({row}) /\ Cardinality({row}) = 1
  BY FS_Singleton
<1>2. IsFiniteSet(1 .. n) /\ Cardinality(1 .. n) = n
  BY FS_Interval
<1>3. /\ IsFiniteSet({row} \X (1 .. n))
      /\ Cardinality({row} \X (1 .. n)) = Cardinality({row}) * Cardinality(1 .. n)
  BY <1>1, <1>2, FS_Product, Zenon
<1>4. QED
  BY <1>1, <1>2, <1>3

\* What a run counts as created is what it adds.
LEMMA CommitTold ==
  ASSUME Typed, Touched, Told, NEW r \in Requests, InRun(r), NEW status, NEW found,
         Commit(r, status, found), UNCHANGED plan
  PROVE  Told'
<1> DEFINE row == RunRow(r, status, found)
           new == {row} \X (1 .. stats[r].created)
<1>1. /\ pc'[r] = "next" /\ stats'[r].created = 0 /\ runs' = runs \cup {row}
      /\ \A k \in RowKeys : opps'[k] = After(r, k)
      /\ \A q \in Requests \ {r} : pc'[q] = pc[q] /\ stats'[q] = stats[q] /\ at'[q] = at[q]
  BY DEF Commit, Goto, EndTx, NoStats, Typed, TypeOK
<1>2. /\ \A k \in RowKeys : wopps'[r][k] = NoWrite
      /\ \A q \in Requests \ {r} : wopps'[q] = wopps[q]
  BY EndTxElsewhere DEF Commit, Typed
<1>3. Locked'
  BY <1>2 DEF Told, Locked
<1>4. Key(r) \in Connectors
  BY DEF Typed, AtKey
<1>5. \A k \in RowKeys :
        /\ wopps[r][k] = NoWrite => opps'[k] = opps[k]
        /\ wopps[r][k] # NoWrite => opps'[k] # NoRow
  BY <1>1, WrittenIsRow DEF WrittenAreRows, After
<1>6. CountsFresh'
  <2>1. Fresh(r)' = {}
    BY <1>1 DEF Fresh, InLoop
  <2>2. ASSUME NEW q \in Requests \ {r}
        PROVE  Fresh(q)' = Fresh(q)
    <3>1. Key(q)' = Key(q) /\ InLoop(q)' = InLoop(q)
      BY <1>1 DEF Key, InLoop
    <3>2. ASSUME NEW i \in ExternalIds, InLoop(q), wopps[q][<<Key(q), i>>] # NoWrite
          PROVE  opps'[<<Key(q), i>>] = opps[<<Key(q), i>>]
      <4>1. <<Key(q), i>> \in RowKeys
        BY <3>2 DEF Typed, AtKey, InRun, InLoop, RowKeys
      <4>2. wopps[r][<<Key(q), i>>] = NoWrite
        BY <3>2, <4>1 DEF Told, Locked
      <4>3. QED
        BY <1>5, <4>1, <4>2
    <3>3. QED
      BY <1>2, <3>1, <3>2 DEF Fresh
  <2>3. QED
    BY <1>1, <2>1, <2>2, FS_EmptySet DEF Told, CountsFresh
<1>7. Logged' /\ \A q \in runs : ~(q.request = r /\ q.key = Key(r))
  BY CommitLogged DEF Told
<1>8. /\ row.key = Key(r) /\ row.request = r /\ row.created = stats[r].created
      /\ row \notin runs
  BY <1>7 DEF RunRow
<1>9. /\ IsFiniteSet(Fresh(r)) /\ stats[r].created = Cardinality(Fresh(r))
      /\ stats[r].created \in Nat /\ stats[r].created < Enough /\ Enough \in Nat
      /\ IsFiniteSet(ExternalIds)
  <2>1. Fresh(r) \in SUBSET ExternalIds /\ IsFiniteSet(ExternalIds)
    BY ExternalIdsAssumption DEF Fresh
  <2>2. /\ IsFiniteSet(Fresh(r)) /\ Cardinality(Fresh(r)) <= Cardinality(ExternalIds)
    BY <2>1, FS_Subset
  <2>3. Cardinality(Fresh(r)) \in Nat /\ Cardinality(ExternalIds) \in Nat
    BY <2>1, <2>2, FS_CardinalityType
  <2>4. QED
    BY <2>1, <2>2, <2>3 DEF Told, CountsFresh, Enough
<1>10. IsFiniteSet(new) /\ Cardinality(new) = stats[r].created
  BY <1>9, NumberedCopies
<1> HIDE DEF row, new
<1>11. ASSUME NEW c \in Connectors
       PROVE  /\ IsFiniteSet(Created(c, Enough)')
              /\ Cardinality(Created(c, Enough)') = Cardinality(Stored(c)')
  <2>1. CASE c # Key(r)
    <3>1. Created(c, Enough)' = Created(c, Enough)
      BY <1>1, <1>8, <2>1 DEF Created, Enough
    <3>2. ASSUME NEW i \in ExternalIds
          PROVE  opps'[<<c, i>>] = opps[<<c, i>>]
      <4>1. <<c, i>> \in RowKeys /\ <<c, i>>[1] = c
        BY DEF RowKeys
      <4>2. wopps[r][<<c, i>>] = NoWrite
        BY <2>1, <4>1 DEF Touched, TouchedAt
      <4>3. QED
        BY <1>5, <4>1, <4>2
    <3>3. Stored(c)' = Stored(c)
      BY <3>2 DEF Stored
    <3>4. QED
      BY <3>1, <3>3 DEF Told, Tally
  <2>2. CASE c = Key(r)
    <3>1. Created(c, Enough)' = Created(c, Enough) \cup new
      BY <1>1, <1>8, <1>9, <2>2 DEF Created, Enough, new
    <3>2. Created(c, Enough) \cap new = {}
      BY <1>8 DEF Created, new
    <3>3. ASSUME NEW i \in ExternalIds
          PROVE  opps'[<<c, i>>] # NoRow <=> opps[<<c, i>>] # NoRow \/ i \in Fresh(r)
      <4>1. <<c, i>> \in RowKeys
        BY DEF RowKeys
      <4>2. CASE wopps[r][<<c, i>>] = NoWrite
        BY <1>5, <2>2, <4>1, <4>2 DEF Fresh
      <4>3. CASE wopps[r][<<c, i>>] # NoWrite
        <5>1. InLoop(r)
          BY <4>1, <4>3 DEF Touched, TouchedAt
        <5>2. QED
          BY <1>5, <2>2, <4>1, <4>3, <5>1 DEF Fresh
      <4>4. QED
        BY <4>2, <4>3
    <3>4. Stored(c)' = Stored(c) \cup Fresh(r) /\ Stored(c) \cap Fresh(r) = {}
      BY <2>2, <3>3 DEF Stored, Fresh
    <3>5. IsFiniteSet(Stored(c))
      BY <1>9, FS_Subset DEF Stored
    <3>6. /\ IsFiniteSet(Created(c, Enough))
          /\ Cardinality(Created(c, Enough)) = Cardinality(Stored(c))
          /\ Cardinality(Created(c, Enough)) \in Nat
      BY FS_CardinalityType DEF Told, Tally
    <3>7. /\ IsFiniteSet(Created(c, Enough) \cup new)
          /\ Cardinality(Created(c, Enough) \cup new) = Cardinality(Created(c, Enough)) + stats[r].created
      BY <1>9, <1>10, <3>2, <3>6, FS_Union, FS_EmptySet
    <3>8. Cardinality(Stored(c) \cup Fresh(r)) = Cardinality(Stored(c)) + stats[r].created
      <4>1. Cardinality(Stored(c) \cup Fresh(r)) =
              Cardinality(Stored(c)) + Cardinality(Fresh(r)) - Cardinality({})
        BY <1>9, <3>4, <3>5, FS_Union
      <4>2. Cardinality({}) = 0 /\ Cardinality(Stored(c)) \in Nat
        BY <3>6, FS_EmptySet
      <4>3. QED
        BY <1>9, <4>1, <4>2
    <3>9. QED
      BY <3>1, <3>4, <3>6, <3>7, <3>8
  <2>3. QED
    BY <2>1, <2>2
<1>12. Tally'
  BY <1>11 DEF Tally, Enough
<1>13. QED
  BY <1>3, <1>6, <1>7, <1>12 DEF Told

\* The steps of the loop that change what is written or counted.
LEMMA WriteTold ==
  ASSUME Typed, Touched, Told, NEW r \in Requests, InsertOpp(r) \/ UpdateOpp(r)
  PROVE  Told'
<1>1. /\ TypeOK /\ InLoop(r) /\ InRun(r) /\ pos[r] \in DOMAIN batch[r] /\ ~Blocked(r)
      /\ ToTags(r) /\ pc[r] = "item" /\ (IsNew(r) \/ Differs(r))
      /\ UNCHANGED <<opps, runs, plan, at>>
  BY DEF Typed, TypeOK, InsertOpp, UpdateOpp, IsNew, Differs, Valid, InLoop, InRun, tables
<1>2. /\ Item(r).id \in ExternalIds /\ Slot(r) \in RowKeys
      /\ Slot(r) = <<Key(r), Item(r).id>>
  BY <1>1, ItemType, SlotType DEF Typed, Slot
<1>3. /\ InLoop(r)' /\ Key(r)' = Key(r)
      /\ \A q \in Requests \ {r} : pc'[q] = pc[q]
  BY <1>1, ToTagsType DEF InLoop, Key
<1>4. Typed'
  BY WriteTyped
<1>5. PICK write : wopps' = [wopps EXCEPT ![r][Slot(r)] = write]
  BY DEF InsertOpp, UpdateOpp
<1>6. /\ \A q \in Requests \ {r} : wopps'[q] = wopps[q]
      /\ \A k \in RowKeys \ {Slot(r)} : wopps'[r][k] = wopps[r][k]
      /\ wopps'[r][Slot(r)] = write
  BY <1>1, <1>2, <1>5 DEF TypeOK
<1>7. \A q \in Requests \ {r} : wopps[q][Slot(r)] = NoWrite
  BY <1>1 DEF Blocked, WaitsFor
<1>8. Locked'
  BY <1>2, <1>6, <1>7 DEF Told, Locked
<1>9. \A q \in Requests \ {r} : Fresh(q)' = Fresh(q)
  BY <1>1, <1>3, <1>6 DEF Fresh, InLoop, Key
<1>10. \A i \in ExternalIds \ {Item(r).id} : i \in Fresh(r)' <=> i \in Fresh(r)
  <2>1. ASSUME NEW i \in ExternalIds \ {Item(r).id}
        PROVE  <<Key(r), i>> \in RowKeys \ {Slot(r)}
    BY <1>1, <1>2 DEF Typed, AtKey, RowKeys
  <2>2. QED
    BY <1>1, <1>3, <1>6, <2>1 DEF Fresh
<1>11. Fresh(r)' \subseteq ExternalIds /\ Fresh(r) \subseteq ExternalIds
  BY DEF Fresh
<1>12. /\ stats'[r].created = Cardinality(Fresh(r)')
       /\ \A q \in Requests \ {r} : stats'[q] = stats[q]
  <2>1. stats \in [Requests -> [created: Nat, updated: Nat, failed: Nat]]
    BY <1>1 DEF TypeOK
  <2>2. CASE InsertOpp(r)
    <3>1. opps[Slot(r)] = NoRow /\ wopps[r][Slot(r)] = NoWrite
      BY <2>2 DEF InsertOpp, Vacant
    <3>2. wopps'[r][Slot(r)] # NoWrite
      <4>1. Item(r).content \in [Fields -> Values]
        BY <1>1, ItemType
      <4>2. Item(r).content \in [Fields -> Values \cup {Keep}]
            /\ \A f \in Fields : Item(r).content[f] # Keep
        BY <4>1, IngestionAssumption
      <4>3. wopps' = [wopps EXCEPT ![r][Slot(r)] = ItemWrite(r, Item(r).content)]
        BY <2>2 DEF InsertOpp
      <4>4. Valid(r)
        BY <1>1 DEF IsNew, Differs
      <4>5. QED
        BY <1>1, <4>2, <4>3, <4>4, WriteType
    <3>3. Item(r).id \notin Fresh(r) /\ Item(r).id \in Fresh(r)'
      BY <1>1, <1>2, <1>3, <3>1, <3>2 DEF Fresh
    <3>4. Fresh(r)' = Fresh(r) \cup {Item(r).id}
      BY <1>2, <1>10, <1>11, <3>3
    <3>5. IsFiniteSet(Fresh(r))
      BY <1>11, FS_Subset, ExternalIdsAssumption
    <3>6. Cardinality(Fresh(r)') = Cardinality(Fresh(r)) + 1
      BY <3>3, <3>4, <3>5, FS_AddElement
    <3>7. /\ stats'[r].created = stats[r].created + 1
          /\ \A q \in Requests \ {r} : stats'[q] = stats[q]
      BY <2>1, <2>2 DEF InsertOpp, Count
    <3>8. QED
      BY <3>6, <3>7 DEF Told, CountsFresh
  <2>3. CASE UpdateOpp(r)
    <3>1. view[r][Item(r).id] # NoRow
      BY <2>3 DEF UpdateOpp, Differs
    <3>2. opps[Slot(r)] # NoRow
      BY <1>1, <1>2, <3>1 DEF Typed, Loaded
    <3>3. Item(r).id \notin Fresh(r) /\ Item(r).id \notin Fresh(r)'
      BY <1>1, <1>2, <1>3, <3>2 DEF Fresh
    <3>4. Fresh(r)' = Fresh(r)
      BY <1>2, <1>10, <1>11, <3>3
    <3>5. /\ stats'[r].created = stats[r].created
          /\ \A q \in Requests \ {r} : stats'[q] = stats[q]
      BY <2>1, <2>3 DEF UpdateOpp, Count
    <3>6. QED
      BY <3>4, <3>5 DEF Told, CountsFresh
  <2>4. QED
    BY <2>2, <2>3
<1>13. CountsFresh'
  BY <1>9, <1>12 DEF Told, CountsFresh
<1>14. Tally'
  BY <1>1 DEF Told, Tally, Created, Stored, Enough
<1>15. Logged'
  BY <1>1, QuietLogged DEF Told
<1>16. QED
  BY <1>8, <1>13, <1>14, <1>15 DEF Told

\* Linking tags writes no other rows.
LEMMA TagTold ==
  ASSUME Typed, Told, NEW r \in Requests,
         SkipRepeated(r) \/ LinkTag(r) \/ MissTag(r) \/ InsertTag(r)
  PROVE  Told'
<1>1. /\ TypeOK /\ Tagging(r) /\ InLoop(r) /\ Name(r) \in TagNames
      /\ UNCHANGED <<opps, runs, plan, at, stats>>
  BY NameType DEF Typed, Tagging, InLoop, SkipRepeated, LinkTag, MissTag,
         InsertTag, tables, place
<1>2. /\ pc'[r] \in {"item", "tag", "newTag"}
      /\ \A q \in Requests \ {r} : pc'[q] = pc[q]
  <2>1. CASE MissTag(r)
    BY <1>1, <2>1 DEF MissTag, Goto, TypeOK
  <2>2. CASE AfterTag(r)
    BY <1>1, <2>2 DEF AfterTag, Goto, TypeOK
  <2>3. QED
    BY <2>1, <2>2 DEF SkipRepeated, LinkTag, InsertTag
<1>3. /\ \A q \in Requests \ {r} : wopps'[q] = wopps[q]
      /\ \A k \in RowKeys : wopps'[r][k] = NoWrite <=> wopps[r][k] = NoWrite
  <2>1. CASE SkipRepeated(r) \/ MissTag(r)
    BY <2>1 DEF SkipRepeated, MissTag, written
  <2>2. CASE LinkTag(r) \/ InsertTag(r)
    <3>1. Found(r) \subseteq TagNames
      BY <1>1 DEF Found, Visible, TypeOK
    <3>2. PICK s \in TagNames : wopps' = Link(r, s)
      BY <1>1, <2>2, <3>1 DEF LinkTag, InsertTag
    <3>3. /\ wopps[r][Slot(r)] \in Writes /\ wopps'[r][Slot(r)] \in Writes
          /\ \A k \in RowKeys \ {Slot(r)} : wopps'[r][k] = wopps[r][k]
          /\ \A q \in Requests \ {r} : wopps'[q] = wopps[q]
      BY <1>1, <3>2, LinkType
    <3>4. QED
      BY <3>3, SentinelAssumption
  <2>3. QED
    BY <2>1, <2>2
<1>4. Locked'
  BY <1>3 DEF Told, Locked
<1>5. \A q \in Requests : InLoop(q)' = InLoop(q) /\ Key(q)' = Key(q)
  BY <1>1, <1>2 DEF InLoop, Key
<1>6. \A q \in Requests : Fresh(q)' = Fresh(q)
  <2>1. ASSUME NEW q \in Requests, NEW i \in ExternalIds, InLoop(q)
        PROVE  wopps'[q][<<Key(q), i>>] = NoWrite <=> wopps[q][<<Key(q), i>>] = NoWrite
    <3>1. <<Key(q), i>> \in RowKeys
      BY <2>1 DEF Typed, AtKey, InRun, InLoop, RowKeys
    <3>2. QED
      BY <1>3, <3>1
  <2>2. QED
    BY <1>1, <1>5, <2>1 DEF Fresh
<1>7. CountsFresh' /\ Tally'
  BY <1>1, <1>6 DEF Told, CountsFresh, Tally, Created, Stored, Enough
<1>8. Logged'
  BY <1>1, QuietLogged DEF Told
<1>9. QED
  BY <1>4, <1>7, <1>8 DEF Told

\* The steps that read, fetch or skip add no row, and count none.
LEMMA ReadTold ==
  ASSUME Typed, Touched, Told, Typed', NEW r \in Requests,
         \/ Start(r) \/ Answer(r) \/ SkipUnknown(r)
         \/ SelectSource(r) \/ InsertSource(r)
         \/ Fetch(r) \/ Load(r) \/ SkipInvalid(r) \/ SkipUnchanged(r)
  PROVE  Told'
<1>1. /\ UNCHANGED <<opps, runs, plan, wopps>>
      /\ at' = at \/ SkipUnknown(r)
  BY DEF Start, Answer, SkipUnknown, SelectSource, InsertSource, Fetch, Load,
         SkipInvalid, SkipUnchanged, tables, place, written
<1>2. /\ \A q \in Requests \ {r} : pc'[q] = pc[q] /\ at'[q] = at[q]
      /\ InLoop(r) => pc'[r] = pc[r] /\ at'[r] = at[r]
  <2>1. pc \in [Requests -> Steps] /\ at \in [Requests -> Nat \ {0}]
    BY DEF Typed, TypeOK
  <2>2. CASE SkipUnknown(r)
    BY <2>1, <2>2 DEF SkipUnknown, InLoop
  <2>3. CASE SkipInvalid(r) \/ SkipUnchanged(r)
    BY <2>3 DEF SkipInvalid, SkipUnchanged
  <2>4. CASE \/ Start(r) \/ Answer(r) \/ SelectSource(r) \/ InsertSource(r)
             \/ Fetch(r) \/ Load(r)
    <3>1. /\ pc[r] \in {"idle", "next", "newSource", "fetch", "load"} /\ at' = at
          /\ \E step : pc' = [pc EXCEPT ![r] = step]
      BY <2>4 DEF Start, Answer, SelectSource, InsertSource, Fetch, Load, Goto, place
    <3>2. QED
      BY <2>1, <3>1 DEF InLoop
  <2>5. QED
    BY <2>2, <2>3, <2>4
<1>3. \A q \in Requests : stats'[q].created = stats[q].created
  <2>1. CASE SkipInvalid(r)
    BY <2>1 DEF SkipInvalid, Count, Typed, TypeOK
  <2>2. CASE ~SkipInvalid(r)
    <3>1. stats' = stats
      BY <2>2 DEF Start, Answer, SkipUnknown, SelectSource, InsertSource, Fetch,
                  Load, SkipUnchanged, place
    <3>2. QED
      BY <3>1
  <2>3. QED
    BY <2>1, <2>2
<1>4. ASSUME NEW q \in Requests
      PROVE  Fresh(q)' = Fresh(q)
  <2>1. CASE InLoop(q)
    <3>1. InLoop(q)' /\ Key(q)' = Key(q)
      BY <1>1, <1>2, <2>1 DEF InLoop, Key
    <3>2. QED
      BY <1>1, <2>1, <3>1 DEF Fresh
  <2>2. CASE ~InLoop(q)
    <3>1. \A k \in RowKeys : wopps'[q][k] = NoWrite
      BY <1>1, <2>2 DEF Touched, TouchedAt
    <3>2. ASSUME InLoop(q)', NEW i \in ExternalIds
          PROVE  <<Key(q)', i>> \in RowKeys
      <4>1. Key(q)' \in Connectors
        BY <3>2 DEF Typed, AtKey, InRun, InLoop
      <4>2. QED
        BY <4>1 DEF RowKeys
    <3>3. Fresh(q)' = {}
      BY <3>1, <3>2 DEF Fresh
    <3>4. Fresh(q) = {}
      BY <2>2 DEF Fresh
    <3>5. QED
      BY <3>3, <3>4
  <2>3. QED
    BY <2>1, <2>2
<1>5. (Locked /\ CountsFresh /\ Tally)'
  BY <1>1, <1>3, <1>4
     DEF Told, Locked, CountsFresh, Tally, Created, Stored, Enough
<1>6. Logged'
  BY <1>1, QuietLogged DEF Told
<1>7. QED
  BY <1>5, <1>6 DEF Told

LEMMA NextTold ==
  ASSUME Typed, Touched, Told, [Next]_vars
  PROVE  Told'
<1>1. ASSUME NEW r \in Requests, FetchFails(r) \/ Finish(r)
      PROVE  Told'
  <2>1. InRun(r) /\ UNCHANGED plan
    BY <1>1 DEF FetchFails, Finish, InRun
  <2>2. PICK status, found : Commit(r, status, found)
    BY <1>1 DEF FetchFails, Finish
  <2>3. QED
    BY <2>1, <2>2, CommitTold
<1>2. ASSUME NEW r \in Requests,
             \/ SourceClash(r) \/ InsertClash(r) \/ TagClash(r)
             \/ DeadlockVictim(r) \/ Crash(r)
      PROVE  Told'
  BY <1>2, AbortTold
     DEF SourceClash, InsertClash, TagClash, DeadlockVictim, Crash
<1>3. CASE AllDone \/ UNCHANGED vars
  <2>1. UNCHANGED <<opps, runs, pc, plan, at, stats, wopps>>
    BY <1>3 DEF AllDone, vars, tables, place, written
  <2>2. \A r \in Requests : Fresh(r)' = Fresh(r)
    BY <2>1 DEF Fresh, InLoop, Key
  <2>3. QED
    BY <2>1, <2>2, QuietTold, QuietLogged DEF Told
<1>4. Typed'
  BY NextTyped
<1>5. QED
  BY <1>1, <1>2, <1>3, <1>4, ReadTold, WriteTold, TagTold DEF Next, Step

LEMMA Telling == Spec => [](Typed /\ Touched /\ Exact /\ Told)
  BY InitTyped, InitExact, InitTold, NextTyped, NextExact, NextTold, PTL DEF Spec

\* connector_runs tells what happened: every stored opportunity was counted as
\* created by one committed run of its source, and a request leaves one row for
\* each known key it is past, however requests overlap, clash or crash.
THEOREM TheRunsTell == Spec => []RunsTellTheStory
<1>1. Told => CreatedAreCounted
  BY DEF Told, Tally, Enough, Stored, CreatedAreCounted
<1>2. Typed /\ Told => RunsTellTheStory
  BY <1>1, RunsOfOne DEF Told, RunsTellTheStory
<1>3. QED
  BY <1>2, Telling, PTL

==============================================================================
