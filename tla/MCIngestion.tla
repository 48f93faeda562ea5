----------------------------- MODULE MCIngestion -----------------------------
(***************************************************************************)
(* Instances of Ingestion for TLC.  Batches hold the cases that matter:    *)
(* a new item, the same item changed in either of two hashed columns or in *)
(* an unhashed one, an item repeated in the batch, an invalid item, tags   *)
(* equal up to case, and two batches that meet each other's tags in        *)
(* opposite orders.                                                        *)
(***************************************************************************)
EXTENDS Ingestion, TLC

CONSTANTS r1, r2, r3, r4, i1, i2

MCFields       == {"title", "deadline", "details"}
MCHashedFields == {"title", "deadline"}
MCTagNames     == {"Go", "go", "AI"}
MCFold         == [t \in MCTagNames |-> IF t = "Go" THEN "go" ELSE t]

Content(title, deadline, details) ==
  [f \in MCFields |-> CASE f = "title" -> title
                        [] f = "deadline" -> deadline
                        [] OTHER -> details]
It(id, title, deadline, details, names) ==
  [id |-> id, valid |-> TRUE, content |-> Content(title, deadline, details),
   tags |-> names]
Bad(id) == [It(id, 0, 0, 0, <<>>) EXCEPT !.valid = FALSE]

\* Two sources whose batches share tags and hold repeated and invalid items.
MixedBatches ==
  [c \in {"devpost", "unstop"} |->
     IF c = "devpost"
     THEN {<<It(i1, 0, 0, 0, <<"AI", "Go">>), Bad(i2)>>,
           <<It(i1, 1, 0, 1, <<"Go">>)>>,
           <<It(i1, 0, 0, 1, <<"go", "Go">>), It(i1, 1, 0, 0, <<>>)>>}
     ELSE {<<It(i1, 0, 0, 0, <<"Go", "AI">>), It(i2, 1, 0, 0, <<"AI">>)>>,
           <<>>}]

\* Two sources that take tags in opposite orders; the first changes hashed
\* columns and others, twice in one batch too.
CrossBatches ==
  [c \in {"devpost", "unstop"} |->
     IF c = "devpost"
     THEN {<<It(i1, 0, 0, 0, <<"AI", "Go">>)>>,
           <<It(i1, 0, 1, 1, <<"AI">>)>>,
           <<Bad(i2), It(i1, 1, 1, 0, <<>>), It(i1, 1, 0, 1, <<"AI">>)>>}
     ELSE {<<It(i1, 0, 0, 0, <<"Go", "AI">>)>>}]

RegistryOrder == {<<"devpost", "unstop">>}
AnyPlan       == {<<"devpost", "unstop">>, <<"unstop">>, <<"unknown">>}

RequestSymmetry == Permutations(Requests)
==============================================================================
