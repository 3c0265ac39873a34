----------------------------- MODULE ListingProofs -----------------------------
(* Proofs about the pages of ReviewDesk, for any leads and any page size: a     *)
(* listing shows no lead twice and leaves none out that matched from the        *)
(* beginning; the page of one lead says of a delivery what its attempts bear out. *)
(*                                                                              *)
(* The order of a listing is total and made of columns that never change, so a  *)
(* cursor divides the leads once and for all: what was shown does not lie after *)
(* it, and what matched at first and still does was shown or lies after it.     *)
(* A history only grows, so what a delivery's row said stays borne out by it.   *)
EXTENDS ReviewDeskProofs, FiniteSetTheorems, SequenceTheorems, WellFoundedInduction

--------------------------------------------------------------------------------
(* Finite sets with an order.                                                   *)

\* A finite set has an element that no other comes before.
LEMMA Foremost ==
    ASSUME NEW S, IsFiniteSet(S), S # {}, NEW R,
           \A x \in S : <<x, x>> \notin R,
           \A x, y, z \in S : <<x, y>> \in R /\ <<y, z>> \in R => <<x, z>> \in R
    PROVE  \E x \in S : \A y \in S : <<y, x>> \notin R
<1> DEFINE Before(x) == {y \in S : <<y, x>> \in R}
           Cuts == {Before(x) : x \in S}
<1>1. Cuts \subseteq FiniteSubsetsOf(S) /\ Cuts # {}
  <2>1. FiniteSubsetsOf(S) = SUBSET S
    BY FS_FiniteSubsetsOfFinite
  <2>2. Cuts \subseteq SUBSET S
    OBVIOUS
  <2>3. Cuts # {}
    <3>1. PICK x : x \in S
      OBVIOUS
    <3>2. Before(x) \in Cuts
      BY <3>1
    <3> QED
      BY <3>2
  <2> QED
    BY <2>1, <2>2, <2>3
<1>2. PICK B \in Cuts : \A A \in Cuts : <<A, B>> \notin StrictSubsetOrdering(S)
  BY <1>1, FS_StrictSubsetOrderingWellFounded, WFMin
<1>3. PICK x \in S : B = Before(x)
  BY <1>2
<1>4. ASSUME NEW y \in S, <<y, x>> \in R PROVE FALSE
  <2>1. Before(y) \subseteq Before(x) /\ y \in Before(x) /\ y \notin Before(y)
    BY <1>4
  <2>2. Before(y) \in Cuts /\ Before(y) \in SUBSET S /\ Before(x) \in SUBSET S
    OBVIOUS
  <2> HIDE DEF Before
  <2>3. <<Before(y), Before(x)>> \in StrictSubsetOrdering(S)
    BY <2>1, <2>2 DEF StrictSubsetOrdering
  <2> QED
    BY <1>2, <1>3, <2>2, <2>3
<1> QED
  BY <1>4

--------------------------------------------------------------------------------
(* The order of a listing.                                                      *)

LEMMA Order ==
    ASSUME LeadsOK
    PROVE  /\ \A k \in Stored : ~Newer(k, k)
           /\ \A k, l, m \in Stored : Newer(k, l) /\ Newer(l, m) => Newer(k, m)
           /\ \A k, l \in Stored : k # l => Newer(k, l) \/ Newer(l, k)
           /\ \A k, l \in Stored : Newer(k, l) <=> After(l, Position(k))
<1>1. \A l \in Stored : l \in Nat /\ leads[l].row.created \in Nat
  <2> TAKE l \in Stored
  <2>1. l \in Leads /\ RowOK(leads[l].row)
    BY StoredRow
  <2> QED
    BY <2>1, DeskAssumption DEF DeskAssumption, RowOK, Row
<1> QED
  BY <1>1 DEF Newer, After, Position

LEMMA StoredFinite == ASSUME NEW C \in SUBSET Stored PROVE IsFiniteSet(C)
<1>1. C \in SUBSET Leads
  BY DEF Stored
<1> QED
  BY <1>1, FS_Subset, DeskAssumption DEF DeskAssumption

LEMMA NewestOf ==
    ASSUME LeadsOK, NEW C \in SUBSET Stored, C # {}
    PROVE  \E l \in C : \A m \in C : ~Newer(m, l)
<1> DEFINE R == {p \in C \X C : Newer(p[1], p[2])}
<1>1. \A k, l \in C : <<k, l>> \in R <=> Newer(k, l)
  OBVIOUS
<1> HIDE DEF R
<1>2. /\ \A k \in C : <<k, k>> \notin R
      /\ \A k, l, m \in C : <<k, l>> \in R /\ <<l, m>> \in R => <<k, m>> \in R
  BY <1>1, Order
<1>3. \E l \in C : \A m \in C : <<m, l>> \notin R
  BY <1>2, StoredFinite, Foremost
<1> QED
  BY <1>1, <1>3

LEMMA LastIsOldest ==
    ASSUME LeadsOK, NEW C \in SUBSET Stored, C # {}
    PROVE  LastOf(C) \in C /\ \A m \in C \ {LastOf(C)} : Newer(m, LastOf(C))
<1> DEFINE R == {p \in C \X C : Newer(p[2], p[1])}
<1>1. \A k, l \in C : <<k, l>> \in R <=> Newer(l, k)
  OBVIOUS
<1> HIDE DEF R
<1>2. /\ \A k \in C : <<k, k>> \notin R
      /\ \A k, l, m \in C : <<k, l>> \in R /\ <<l, m>> \in R => <<k, m>> \in R
  BY <1>1, Order
<1>3. \E l \in C : \A m \in C : <<m, l>> \notin R
  BY <1>2, StoredFinite, Foremost
<1>4. \E l \in C : \A m \in C \ {l} : Newer(m, l)
  BY <1>1, <1>3, Order
<1> QED
  BY <1>4 DEF LastOf

--------------------------------------------------------------------------------
(* One page.                                                                    *)

Ahead(l, C) == {m \in C \ {l} : Newer(m, l)}

LEMMA PageOf ==
    ASSUME LeadsOK, NEW C \in SUBSET Stored
    PROVE  /\ FirstOf(C) \subseteq C
           /\ C # {} => FirstOf(C) # {}
           /\ Cardinality(C) <= PageSize => FirstOf(C) = C
           /\ \A m \in FirstOf(C), l \in C \ FirstOf(C) : Newer(m, l)
<1>1. /\ FirstOf(C) = {l \in C : Cardinality(Ahead(l, C)) < PageSize}
      /\ PageSize \in Nat /\ PageSize > 0
  BY DeskAssumption DEF FirstOf, Ahead, DeskAssumption
<1>2. IsFiniteSet(C) /\ Cardinality(C) \in Nat
  BY StoredFinite, FS_CardinalityType
<1>3. \A l \in C : IsFiniteSet(Ahead(l, C)) /\ Cardinality(Ahead(l, C)) \in Nat
  BY <1>2, FS_Subset, FS_CardinalityType DEF Ahead
<1>4. C # {} => FirstOf(C) # {}
  <2> SUFFICES ASSUME C # {} PROVE FirstOf(C) # {}
    OBVIOUS
  <2>1. PICK l \in C : \A m \in C : ~Newer(m, l)
    BY NewestOf
  <2>2. Ahead(l, C) = {}
    BY <2>1 DEF Ahead
  <2>3. Cardinality(Ahead(l, C)) = 0
    BY <2>2, FS_EmptySet
  <2> QED
    BY <1>1, <2>3
<1>5. ASSUME Cardinality(C) <= PageSize, NEW l \in C PROVE l \in FirstOf(C)
  <2>1. /\ IsFiniteSet(C \ {l}) /\ Cardinality(C \ {l}) = Cardinality(C) - 1
        /\ Ahead(l, C) \subseteq C \ {l}
    BY <1>2, FS_RemoveElement DEF Ahead
  <2>2. Cardinality(Ahead(l, C)) <= Cardinality(C) - 1
    BY <2>1, FS_Subset
  <2> QED
    BY <1>1, <1>2, <1>3, <1>5, <2>2
<1>6. ASSUME NEW m \in FirstOf(C), NEW l \in C \ FirstOf(C), ~Newer(m, l) PROVE FALSE
  <2>1. m \in C /\ m # l /\ m \in Stored /\ l \in Stored
    BY <1>1
  <2>2. Newer(l, m)
    BY <1>6, <2>1, Order
  <2>3. Ahead(l, C) \subseteq Ahead(m, C)
    BY <2>1, <2>2, Order DEF Ahead
  <2>4. Cardinality(Ahead(l, C)) <= Cardinality(Ahead(m, C))
    BY <1>3, <2>1, <2>3, FS_Subset
  <2> QED
    BY <1>1, <1>3, <2>1, <2>4
<1> QED
  BY <1>1, <1>4, <1>5, <1>6

--------------------------------------------------------------------------------
(* The invariant.                                                               *)

Places == [created : Nat, id : Nat]

\* Nothing was shown before there was a cursor, and nothing that was lies after it.
CursorOK ==
    \/ reader.cursor = {} /\ reader.seen = {}
    \/ \E p \in Places : reader.cursor = {p} /\ \A l \in reader.seen : ~After(l, p)

\* A lead that matched at first and does no more never will again.
FirstOK ==
    \A l \in reader.first :
        /\ l \in Stored
        /\ reader.filter.status = "REACHED_OUT" => leads[l].row.status = "REACHED_OUT"

StillToCome(l) == reader.at = "listing" /\ \A p \in reader.cursor : After(l, p)

NoneForgotten ==
    \A l \in reader.first :
        Matches(l, reader.filter) => l \in reader.seen \/ StillToCome(l)

ListingOK ==
    reader.at \in {"listing", "listed"} =>
        /\ reader.filter.status \in Statuses
        /\ reader.seen \subseteq Stored /\ reader.shown = Cardinality(reader.seen)
        /\ reader.at = "listing" => CursorOK
        /\ FirstOK /\ NoneForgotten

LEMMA PlaceKept ==
    ASSUME LeadsOK, Grows, NEW l \in Stored
    PROVE  /\ leads'[l].row.created = leads[l].row.created
           /\ \A p : After(l, p)' <=> After(l, p)
<1>1. leads'[l].row.created = leads[l].row.created
  BY DEF Grows
<1> QED
  BY <1>1 DEF After, Position

LEMMA GoneForGood ==
    ASSUME LeadsOK, Grows, NEW l \in Stored, NEW f, f.status \in Statuses,
           f.status = "REACHED_OUT" => leads[l].row.status = "REACHED_OUT",
           Matches(l, f)'
    PROVE  Matches(l, f)
<1>1. l \in f.text /\ f.status \in {"any", leads'[l].row.status}
  BY DEF Matches
<1>2. f.status \in {"any", leads[l].row.status}
  <2>1. CASE leads'[l] = leads[l]
    BY <1>1, <2>1
  <2>2. CASE leads'[l].row.status = "REACHED_OUT"
    BY <1>1, <2>2
  <2> QED
    BY <2>1, <2>2 DEF Grows
<1> QED
  BY <1>1, <1>2 DEF Matches

\* Whatever happens to the leads between two pages.
LEMMA ListingKept ==
    ASSUME LeadsOK, Grows, reader' = reader, ListingOK
    PROVE  ListingOK'
<1> SUFFICES ASSUME reader.at \in {"listing", "listed"}
             PROVE  ListingOK'
  BY DEF ListingOK
<1>1. /\ reader.filter.status \in Statuses
      /\ reader.seen \subseteq Stored /\ reader.shown = Cardinality(reader.seen)
      /\ reader.at = "listing" => CursorOK
      /\ FirstOK /\ NoneForgotten
  BY DEF ListingOK
<1>2. Stored \subseteq Stored'
  BY DEF Grows
<1>3. reader.at = "listing" => CursorOK'
  <2> SUFFICES ASSUME NEW p \in Places, reader.cursor = {p},
                      \A l \in reader.seen : ~After(l, p)
               PROVE  CursorOK'
    BY <1>1 DEF CursorOK
  <2>1. \A l \in reader.seen : ~After(l, p)'
    BY <1>1, PlaceKept
  <2> QED
    BY <2>1 DEF CursorOK
<1>4. FirstOK'
  <2> SUFFICES ASSUME NEW l \in reader.first
               PROVE  /\ l \in Stored'
                      /\ reader.filter.status = "REACHED_OUT" =>
                            leads'[l].row.status = "REACHED_OUT"
    BY DEF FirstOK
  <2>1. /\ l \in Stored
        /\ reader.filter.status = "REACHED_OUT" => leads[l].row.status = "REACHED_OUT"
    BY <1>1 DEF FirstOK
  <2> QED
    BY <1>2, <2>1 DEF Grows
<1>5. NoneForgotten'
  <2> SUFFICES ASSUME NEW l \in reader.first, Matches(l, reader.filter)'
               PROVE  l \in reader.seen \/ StillToCome(l)'
    BY DEF NoneForgotten
  <2>1. l \in Stored /\ Matches(l, reader.filter)
    <3>1. \A f : f = reader.filter => (Matches(l, f)' <=> Matches(l, reader.filter)')
      BY DEF Matches
    <3> QED
      BY <1>1, <3>1, GoneForGood DEF FirstOK
  <2>2. l \in reader.seen \/ StillToCome(l)
    BY <1>1, <2>1 DEF NoneForgotten
  <2> QED
    BY <2>1, <2>2, PlaceKept DEF StillToCome
<1> QED
  BY <1>1, <1>2, <1>3, <1>4, <1>5 DEF ListingOK

--------------------------------------------------------------------------------
(* The steps of a listing.                                                      *)

LEMMA Onward ==
    ASSUME LeadsOK, NEW k \in Stored, NEW l \in Stored, NEW p \in Places,
           After(k, p), Newer(k, l)
    PROVE  After(l, p)
<1>1. \A m \in Stored : m \in Nat /\ leads[m].row.created \in Nat
  <2> TAKE m \in Stored
  <2>1. m \in Leads /\ RowOK(leads[m].row)
    BY StoredRow
  <2> QED
    BY <2>1, DeskAssumption DEF DeskAssumption, RowOK, Row
<1>2. p.created \in Nat /\ p.id \in Nat
  BY DEF Places
<1> QED
  BY <1>1, <1>2 DEF Newer, After, Position

LEMMA StartKeeps ==
    ASSUME LeadsOK, StartListing
    PROVE  ListingOK'
<1>1. PICK f \in [status : Statuses, text : Texts] :
        reader' = [at |-> "listing", filter |-> f, cursor |-> {},
                   first |-> {l \in Leads : Matches(l, f)}, seen |-> {}, shown |-> 0]
  BY DEF StartListing
<1>2. leads' = leads
  BY DEF StartListing, ReaderStep
<1>3. f.status \in Statuses
  OBVIOUS
<1>4. /\ reader'.at = "listing" /\ reader'.filter = f /\ reader'.cursor = {}
      /\ reader'.first = {l \in Leads : Matches(l, f)}
      /\ reader'.seen = {} /\ reader'.shown = 0
  BY <1>1
<1>5. FirstOK'
  <2>1. \A l \in Leads : Matches(l, f) =>
          l \in Stored' /\ (f.status = "REACHED_OUT" => leads'[l].row.status = "REACHED_OUT")
    BY <1>2 DEF Matches, Stored
  <2> QED
    BY <1>4, <2>1 DEF FirstOK
<1>6. CursorOK' /\ NoneForgotten'
  BY <1>4 DEF CursorOK, NoneForgotten, StillToCome
<1>7. Cardinality({}) = 0
  BY FS_EmptySet
<1> QED
  BY <1>3, <1>4, <1>5, <1>6, <1>7 DEF ListingOK

LEMMA FetchKeeps ==
    ASSUME LeadsOK, ReaderOK, ListingOK, FetchPage
    PROVE  ListingOK'
<1>1. PICK f, c, i, s, n :
        reader = [at |-> "listing", filter |-> f, cursor |-> c, first |-> i,
                  seen |-> s, shown |-> n]
  BY DEF FetchPage, ReaderStep, ReaderOK
<1>2. /\ reader.at = "listing" /\ reader.filter = f /\ reader.cursor = c
      /\ reader.first = i /\ reader.seen = s /\ reader.shown = n
  BY <1>1
<1>3. /\ f.status \in Statuses /\ s \subseteq Stored /\ n = Cardinality(s)
      /\ CursorOK /\ FirstOK /\ NoneForgotten
  BY <1>2 DEF ListingOK
<1>4. \E C, I : C = Candidates(f, c) /\ I = FirstOf(C)
  OBVIOUS
<1> PICK C, I : C = Candidates(f, c) /\ I = FirstOf(C)
  BY <1>4
<1>5. \E last : last = LastOf(I)
  OBVIOUS
<1> PICK last : last = LastOf(I)
  BY <1>5
<1>6. /\ leads' = leads
      /\ reader' = [reader EXCEPT
            !.at = IF Cardinality(C) > PageSize THEN "listing" ELSE "listed",
            !.cursor = IF Cardinality(C) > PageSize THEN {Position(last)} ELSE {},
            !.seen = s \cup I, !.shown = n + Cardinality(I)]
  BY <1>2 DEF FetchPage, ReaderStep
<1>7. /\ reader'.at = IF Cardinality(C) > PageSize THEN "listing" ELSE "listed"
      /\ reader'.cursor = IF Cardinality(C) > PageSize THEN {Position(last)} ELSE {}
      /\ reader'.filter = f /\ reader'.first = i
      /\ reader'.seen = s \cup I /\ reader'.shown = n + Cardinality(I)
  BY <1>1, <1>6
<1>8. \A l : l \in C <=> l \in Stored /\ Matches(l, f) /\ \A p \in c : After(l, p)
  BY DEF Candidates, Matches, Stored
<1>9. C \in SUBSET Stored
  BY <1>8
<1>10. I \subseteq C /\ IsFiniteSet(I) /\ IsFiniteSet(s)
  BY <1>3, <1>9, PageOf, StoredFinite
<1>11. Cardinality(s \cup I) = n + Cardinality(I)
  <2>1. s \cap I = {}
    BY <1>2, <1>3, <1>8, <1>10 DEF CursorOK
  <2>2. Cardinality(s \cup I) = Cardinality(s) + Cardinality(I) - Cardinality(s \cap I)
    BY <1>10, FS_Union
  <2>3. Cardinality(s \cap I) = 0
    BY <2>1, FS_EmptySet
  <2>4. Cardinality(s) \in Nat /\ Cardinality(I) \in Nat
    BY <1>10, FS_CardinalityType
  <2> QED
    BY <1>3, <2>2, <2>3, <2>4
<1>12. FirstOK'
  BY <1>2, <1>3, <1>6, <1>7 DEF FirstOK, Stored
<1>13. s \cup I \subseteq Stored'
  BY <1>3, <1>6, <1>9, <1>10 DEF Stored
\* What matched at first and was not shown is among the candidates.
<1>14. \A l \in i : Matches(l, f)' => l \in s \/ l \in C
  BY <1>2, <1>3, <1>6, <1>8 DEF NoneForgotten, StillToCome, FirstOK, Matches, Stored
<1>15. CASE ~(Cardinality(C) > PageSize)
  <2>1. Cardinality(C) <= PageSize
    BY <1>9, <1>15, StoredFinite, FS_CardinalityType, DeskAssumption DEF DeskAssumption
  <2>2. I = C
    BY <1>9, <2>1, PageOf
  <2>3. NoneForgotten'
    BY <1>7, <1>14, <2>2 DEF NoneForgotten
  <2>4. reader'.at = "listed"
    BY <1>7, <1>15
  <2> QED
    BY <1>3, <1>7, <1>11, <1>12, <1>13, <2>3, <2>4 DEF ListingOK
<1>16. CASE Cardinality(C) > PageSize
  <2>1. C # {}
    <3>1. PageSize \in Nat
      BY DeskAssumption DEF DeskAssumption
    <3>2. Cardinality({}) = 0
      BY FS_EmptySet
    <3> QED
      BY <1>16, <3>1, <3>2
  <2>2. /\ last \in I /\ \A m \in I \ {last} : Newer(m, last)
        /\ \A l \in C \ I : Newer(last, l)
    <3>1. I # {} /\ I \in SUBSET Stored
      BY <1>9, <1>10, <2>1, PageOf
    <3>2. last \in I /\ \A m \in I \ {last} : Newer(m, last)
      BY <3>1, LastIsOldest
    <3> QED
      BY <1>9, <3>2, PageOf
  <2>3. last \in Stored /\ Position(last) \in Places
    <3>1. last \in Stored
      BY <1>9, <1>10, <2>2
    <3>2. last \in Leads /\ RowOK(leads[last].row)
      BY <3>1, StoredRow
    <3> QED
      BY <3>1, <3>2, DeskAssumption DEF Position, Places, DeskAssumption, RowOK, Row
  <2>4. \E p : p = Position(last)
    OBVIOUS
  <2> PICK p : p = Position(last)
    BY <2>4
  <2>5. \A l \in I : ~After(l, p)
    BY <1>9, <1>10, <2>2, <2>3, Order
  <2>6. ASSUME NEW l \in s, After(l, p) PROVE FALSE
    <3>1. PICK q \in Places : c = {q} /\ ~After(l, q)
      BY <1>2, <1>3 DEF CursorOK
    <3>2. After(last, q)
      BY <1>8, <1>10, <2>2, <3>1
    <3>3. Newer(last, l) /\ l \in Stored
      BY <1>3, <2>3, <2>6, Order
    <3> QED
      BY <2>3, <3>1, <3>2, <3>3, Onward
  <2>7. /\ reader'.at = "listing" /\ reader'.cursor = {p}
    BY <1>7, <1>16
  <2>8. \A l \in s \cup I : ~After(l, p)'
    BY <1>6, <2>5, <2>6 DEF After, Position
  <2>9. CursorOK'
    BY <1>7, <2>3, <2>7, <2>8 DEF CursorOK
  <2>10. \A l \in C \ I : After(l, p)'
    <3>1. \A l \in C \ I : After(l, p)
      BY <1>9, <2>2, <2>3, Order
    <3> QED
      BY <1>6, <3>1 DEF After, Position
  <2>11. NoneForgotten'
    BY <1>7, <1>14, <2>7, <2>10 DEF NoneForgotten, StillToCome
  <2> QED
    BY <1>3, <1>7, <1>11, <1>12, <1>13, <2>7, <2>9, <2>11 DEF ListingOK
<1> QED
  BY <1>15, <1>16

LEMMA ListingStep ==
    ASSUME DeskInv, ReaderOK, ListingOK, [DeskNext]_desk
    PROVE  ListingOK'
<1>1. LeadsOK /\ Grows
  BY TableStep DEF DeskInv
<1>2. CASE reader' = reader
  BY <1>1, <1>2, ListingKept
<1>3. CASE StartListing
  BY <1>1, <1>3, StartKeeps
<1>4. CASE FetchPage
  BY <1>1, <1>4, FetchKeeps
<1>5. CASE OpenLead \/ ReadPart \/ LeaveReader \/ IssueTicket
  <2>1. reader'.at \in {"idle", "opening", "opened", "ticket"}
    BY <1>5 DEF OpenLead, ReadPart, LeaveReader, IssueTicket
  <2> QED
    BY <2>1 DEF ListingOK
<1>6. CASE UseTicket
  <2>1. \E t, answer : reader =
          [at |-> "ticket", issued |-> t, exp |-> Expiry(t), answer |-> answer]
    BY <1>6 DEF UseTicket, ReaderStep, ReaderOK
  <2>2. PICK given : reader' = [reader EXCEPT !.answer = given]
    BY <1>6 DEF UseTicket
  <2>3. reader'.at = "ticket"
    BY <2>1, <2>2
  <2> QED
    BY <2>3 DEF ListingOK
<1> QED
  BY <1>2, <1>3, <1>4, <1>5, <1>6, ReaderMoves DEF ReaderActs

--------------------------------------------------------------------------------
(* The theorems.                                                                *)

\* A listing, wherever it is, has shown what it counts and forgotten nothing.
THEOREM ListingInvariant == DeskSpec => []ListingOK
<1>1. DeskInit => ListingOK
  BY DEF DeskInit, ListingOK
<1>2. DeskInv /\ ReaderOK /\ ListingOK /\ [DeskNext]_desk => ListingOK'
  BY ListingStep
<1> QED
  BY <1>1, <1>2, DeskInvariant, PTL DEF DeskSpec

\* No lead is shown twice by a listing, whatever arrives or changes its status between
\* two pages.
THEOREM NothingTwice == DeskSpec => []NoLeadTwice
<1>1. ListingOK => NoLeadTwice
  BY DEF ListingOK, NoLeadTwice
<1> QED
  BY <1>1, ListingInvariant, PTL

\* A listing that came to its end has shown every lead that matched when it began and
\* still does.
THEOREM NothingLeftOut == DeskSpec => []ListingComplete
<1>1. ListingOK => ListingComplete
  BY DEF ListingOK, NoneForgotten, StillToCome, ListingComplete
<1> QED
  BY <1>1, ListingInvariant, PTL

--------------------------------------------------------------------------------
(* The page of one lead.                                                        *)

\* Attempts follow one another: before one that was begun all have ended.
LedgerOK ==
    /\ ledger = [d \in Deliveries |-> [n \in Numbers |-> ledger[d][n]]]
    /\ \A d \in Deliveries : \A n \in Numbers :
        /\ ledger[d][n] \in {"none", "open"} \cup Mail!Final
        /\ ledger[d][n] # "none" =>
              \A m \in Numbers : m < n => ledger[d][m] \in {"failed", "unknown"}

\* The attempts of a history bear out what was said of a delivery.
BornOut(said, attempts) ==
    /\ said.count \in Nat
    /\ Cardinality({n \in Numbers : attempts[n] # "none"}) >= said.count
    /\ said.state \in Mail!Final =>
          said.count \in Numbers /\ attempts[said.count] = said.state

\* What the page has read so far, each part by a statement of its own.
OpeningOK ==
    /\ reader.at = "opening" =>
        \/ reader = [at |-> "opening", parts |-> <<>>]
        \/ \E a : reader = [at |-> "opening", parts |-> <<a>>]
        \/ \E a, ds : /\ reader = [at |-> "opening", parts |-> <<a, ds>>]
                      /\ \A d \in Deliveries : BornOut(ds[d], ledger[d])
    /\ reader.at = "opened" =>
        \E a, ds, h : /\ reader = [at |-> "opened", parts |-> <<a, ds, h>>]
                      /\ \A d \in Deliveries : BornOut(ds[d], h[d])

LEMMA Numbered == /\ Numbers \subseteq Nat /\ IsFiniteSet(Numbers)
                  /\ \A n \in Numbers, m \in Nat : 1 <= m /\ m <= n => m \in Numbers
                  /\ \A n \in Numbers : 1 <= n
  <1>1. IsFiniteSet(Numbers) /\ Numbers = 1 .. Cardinality(Numbers)
    BY DeskAssumption DEF DeskAssumption
  <1>2. Cardinality(Numbers) \in Nat
    BY <1>1, FS_CardinalityType
  <1> DEFINE k == Cardinality(Numbers)
  <1> HIDE DEF k
  <1>3. Numbers = 1 .. k /\ k \in Nat
    BY <1>1, <1>2 DEF k
  <1> QED BY <1>1, <1>3

\* Of the attempts begun there is a last one.
LEMMA LastBegun ==
    ASSUME NEW d \in Deliveries, Begun(d) # {}
    PROVE  \E n \in Begun(d) : \A m \in Begun(d) : m <= n
  <1> DEFINE B == Begun(d)
             R == {p \in B \X B : p[1] > p[2]}
  <1>1. B \subseteq Nat /\ IsFiniteSet(B) /\ B # {}
    BY Numbered, FS_Subset DEF Begun
  <1> HIDE DEF B
  <1>2. \A m, n \in B : <<m, n>> \in R <=> m > n
    OBVIOUS
  <1> HIDE DEF R
  <1>3. /\ \A m \in B : <<m, m>> \notin R
        /\ \A k, m, n \in B : <<k, m>> \in R /\ <<m, n>> \in R => <<k, n>> \in R
    BY <1>1, <1>2
  <1>4. PICK n \in B : \A m \in B : <<m, n>> \notin R
    BY <1>1, <1>3, Foremost
  <1>5. ASSUME NEW m \in B PROVE m <= n
    <2>1. ~(m > n)
      BY <1>2, <1>4
    <2>2. m \in Nat /\ n \in Nat
      BY <1>1
    <2> QED BY <2>1, <2>2
  <1> QED BY <1>5 DEF B

\* The row of a delivery is borne out by the attempts that are there with it.
LEMMA ProjectionBornOut ==
    ASSUME LedgerOK, NEW d \in Deliveries
    PROVE  BornOut(Projection(d), ledger[d])
  <1>1. CASE Begun(d) = {}
    <2>1. Projection(d).count = 0 /\ Projection(d).state = "pending"
      BY <1>1 DEF Projection
    <2>2. IsFiniteSet(Begun(d)) /\ Cardinality(Begun(d)) \in Nat
      BY Numbered, FS_Subset, FS_CardinalityType DEF Begun
    <2>3. "pending" \notin Mail!Final
      BY DEF Mail!Final
    <2> QED BY <2>1, <2>2, <2>3 DEF BornOut, Begun
  <1>2. CASE Begun(d) # {}
    <2> DEFINE last == CHOOSE n \in Begun(d) : \A m \in Begun(d) : m <= n
    <2>1. last \in Begun(d) /\ \A m \in Begun(d) : m <= last
      BY <1>2, LastBegun
    <2>2. /\ Projection(d).count = last
          /\ Projection(d).state =
                IF ledger[d][last] = "open" THEN "processing" ELSE ledger[d][last]
      BY <1>2 DEF Projection
    <2> HIDE DEF last
    <2>3. /\ last \in Numbers /\ last \in Nat /\ 1 <= last
          /\ ledger[d][last] # "none"
      BY <2>1, Numbered DEF Begun
    <2>4. Begun(d) = 1 .. last
      <3>1. ASSUME NEW m \in 1 .. last PROVE m \in Begun(d)
        <4>1. m \in Numbers
          BY <2>3, <3>1, Numbered
        <4>2. m < last => ledger[d][m] \in {"failed", "unknown"}
          BY <2>3, <4>1 DEF LedgerOK
        <4> QED BY <2>1, <2>3, <4>1, <4>2 DEF Begun
      <3>2. ASSUME NEW m \in Begun(d) PROVE m \in 1 .. last
        <4>1. m \in Numbers /\ m <= last
          BY <2>1, <3>2 DEF Begun
        <4>2. m \in Nat /\ 1 <= m
          BY <4>1, Numbered
        <4> QED BY <2>3, <4>1, <4>2
      <3> QED BY <3>1, <3>2
    <2>5. Cardinality(Begun(d)) = last
      BY <2>3, <2>4, FS_Interval
    <2>6. "processing" \notin Mail!Final
      BY DEF Mail!Final
    <2> QED BY <2>2, <2>3, <2>5, <2>6 DEF BornOut, Begun
  <1> QED BY <1>1, <1>2

\* An attempt is begun, or an open one ends: nothing else happens to a history.
LEMMA MailMoves ==
    ASSUME LedgerOK, MailStep
    PROVE  /\ LedgerOK'
           /\ \A d \in Deliveries, n \in Numbers :
                 /\ ledger[d][n] # "none" => ledger'[d][n] # "none"
                 /\ ledger[d][n] \in Mail!Final => ledger'[d][n] = ledger[d][n]
  <1> USE DEF Mail!Final
  <1>1. PICK d \in Deliveries, n \in Numbers :
          Mail!Begin(d, n, TRUE) \/ \E outcome \in Mail!Final : Mail!End(d, n, outcome)
    BY DEF MailStep
  <1>2. \E value \in {"open"} \cup Mail!Final :
          /\ ledger' = [ledger EXCEPT ![d][n] = value]
          /\ \/ /\ ledger[d][n] = "none" /\ value = "open"
                /\ \A m \in Numbers : m < n => ledger[d][m] \in {"failed", "unknown"}
             \/ ledger[d][n] = "open" /\ value # "open"
    BY <1>1 DEF Mail!Begin, Mail!End
  <1>3. PICK value \in {"open"} \cup Mail!Final :
          /\ ledger' = [ledger EXCEPT ![d][n] = value]
          /\ \/ /\ ledger[d][n] = "none" /\ value = "open"
                /\ \A m \in Numbers : m < n => ledger[d][m] \in {"failed", "unknown"}
             \/ ledger[d][n] = "open" /\ value # "open"
    BY <1>2
  <1>4. \A e \in Deliveries, m \in Numbers :
          ledger'[e][m] = IF e = d /\ m = n THEN value ELSE ledger[e][m]
    BY <1>3 DEF LedgerOK
  <1>5. ledger' = [e \in Deliveries |-> [m \in Numbers |-> ledger'[e][m]]]
    BY <1>3 DEF LedgerOK
  <1>6. ASSUME NEW e \in Deliveries, NEW k \in Numbers, ledger'[e][k] # "none",
               NEW m \in Numbers, m < k
        PROVE  ledger'[e][m] \in {"failed", "unknown"}
    <2>1. CASE e = d /\ k = n
      <3>1. m # n
        BY <1>6, <2>1, Numbered
      <3> QED BY <1>3, <1>4, <1>6, <2>1, <3>1 DEF LedgerOK
    <2>2. CASE ~(e = d /\ k = n)
      <3>1. ledger[e][k] # "none" /\ ledger[e][m] \in {"failed", "unknown"}
        BY <1>4, <1>6, <2>2 DEF LedgerOK
      <3>2. ~(e = d /\ m = n)
        BY <1>3, <3>1
      <3> QED BY <1>4, <3>1, <3>2
    <2> QED BY <2>1, <2>2
  <1>7. LedgerOK'
    <2>1. \A e \in Deliveries, k \in Numbers :
            ledger'[e][k] \in {"none", "open"} \cup Mail!Final
      BY <1>4 DEF LedgerOK
    <2> QED BY <1>5, <1>6, <2>1 DEF LedgerOK
  <1> QED BY <1>3, <1>4, <1>7

\* What a history bore out it bears out when it has grown.
LEMMA StillBornOut ==
    ASSUME LedgerOK, MailStep, NEW said, NEW d \in Deliveries,
           BornOut(said, ledger[d])
    PROVE  BornOut(said, ledger'[d])
  <1> DEFINE Before == {n \in Numbers : ledger[d][n] # "none"}
             Later == {n \in Numbers : ledger'[d][n] # "none"}
  <1>1. Before \subseteq Later
    BY MailMoves
  <1>2. IsFiniteSet(Later)
    BY Numbered, FS_Subset
  <1>3. /\ Cardinality(Before) \in Nat /\ Cardinality(Later) \in Nat
        /\ Cardinality(Before) <= Cardinality(Later)
    <2> HIDE DEF Before, Later
    <2> QED BY <1>1, <1>2, FS_Subset, FS_CardinalityType
  <1>4. said.count \in Nat /\ Cardinality(Before) >= said.count
    BY DEF BornOut
  <1>5. said.state \in Mail!Final =>
           said.count \in Numbers /\ ledger'[d][said.count] = said.state
    BY MailMoves DEF BornOut
  <1> QED BY <1>3, <1>4, <1>5 DEF BornOut

LEMMA AppendSecond == ASSUME NEW a, NEW b PROVE Append(<<a>>, b) = <<a, b>>
  <1> DEFINE S == {a, b}
             s == Append(<<a>>, b)
             t == <<a, b>>
  <1>1. <<a>> \in Seq(S) /\ b \in S /\ Len(<<a>>) = 1
    OBVIOUS
  <1>2. s \in Seq(S) /\ Len(s) = 2 /\ s[1] = a /\ s[2] = b
    BY <1>1, AppendProperties
  <1>3. t \in Seq(S) /\ Len(t) = 2 /\ t[1] = a /\ t[2] = b
    OBVIOUS
  <1> HIDE DEF S, s, t
  <1>4. ASSUME NEW i \in 1 .. 2 PROVE s[i] = t[i]
    <2>1. i = 1 \/ i = 2
      OBVIOUS
    <2> QED BY <2>1, <1>2, <1>3
  <1>5. s = t
    BY <1>2, <1>3, <1>4, SeqEqual
  <1> QED BY <1>5 DEF s, t

LEMMA AppendThird ==
    ASSUME NEW a, NEW b, NEW c
    PROVE  Append(<<a, b>>, c) = <<a, b, c>>
  <1> DEFINE S == {a, b, c}
             s == Append(<<a, b>>, c)
             t == <<a, b, c>>
  <1>1. <<a, b>> \in Seq(S) /\ c \in S /\ Len(<<a, b>>) = 2
    OBVIOUS
  <1>2. s \in Seq(S) /\ Len(s) = 3 /\ s[1] = a /\ s[2] = b /\ s[3] = c
    BY <1>1, AppendProperties
  <1>3. t \in Seq(S) /\ Len(t) = 3 /\ t[1] = a /\ t[2] = b /\ t[3] = c
    OBVIOUS
  <1> HIDE DEF S, s, t
  <1>4. ASSUME NEW i \in 1 .. 3 PROVE s[i] = t[i]
    <2>1. i = 1 \/ i = 2 \/ i = 3
      OBVIOUS
    <2> QED BY <2>1, <1>2, <1>3
  <1>5. s = t
    BY <1>2, <1>3, <1>4, SeqEqual
  <1> QED BY <1>5 DEF s, t

\* The order in which the parts are read.
LEMMA Order3 == /\ Len(ReadOrder) = 3
                /\ ReadOrder[1] = "lead" /\ ReadOrder[2] = "deliveries"
                /\ ReadOrder[3] = "attempts"
  BY DEF ReadOrder

\* Reading a part appends it to what was read.
LEMMA ReadPartKeeps ==
    ASSUME LedgerOK, OpeningOK, ReadPart
    PROVE  OpeningOK'
  <1>1. /\ reader.at = "opening" /\ ledger' = ledger
        /\ reader' = [at |-> IF Len(reader.parts) + 1 = 3 THEN "opened" ELSE "opening",
                      parts |-> Append(reader.parts,
                                       Read(ReadOrder[Len(reader.parts) + 1]))]
    BY Order3 DEF ReadPart, ReaderStep, mail
  <1>2. CASE reader = [at |-> "opening", parts |-> <<>>]
    <2>1. reader.parts = <<>> /\ Len(reader.parts) = 0
      BY <1>2
    <2> DEFINE a == Read(ReadOrder[1])
    <2>2. reader' = [at |-> "opening", parts |-> Append(<<>>, a)]
      BY <1>1, <2>1
    <2> HIDE DEF a
    <2>3. Append(<<>>, a) = <<a>>
      OBVIOUS
    <2>4. reader' = [at |-> "opening", parts |-> <<a>>]
      BY <2>2, <2>3
    <2> QED BY <2>4 DEF OpeningOK
  <1>3. ASSUME NEW a, reader = [at |-> "opening", parts |-> <<a>>] PROVE OpeningOK'
    <2>1. reader.parts = <<a>> /\ Len(reader.parts) = 1
      BY <1>3
    <2>2. Read(ReadOrder[2]) = [d \in Deliveries |-> Projection(d)]
      BY Order3 DEF Read
    <2> PICK ds : ds = [d \in Deliveries |-> Projection(d)]
      OBVIOUS
    <2>3. \A d \in Deliveries : BornOut(ds[d], ledger[d])
      BY ProjectionBornOut
    <2>4. reader' = [at |-> "opening", parts |-> Append(<<a>>, ds)]
      BY <1>1, <2>1, <2>2
    <2>5. Append(<<a>>, ds) = <<a, ds>>
      BY AppendSecond
    <2>6. reader' = [at |-> "opening", parts |-> <<a, ds>>]
      BY <2>4, <2>5
    <2>7. \A d \in Deliveries : BornOut(ds[d], ledger'[d])
      BY <1>1, <2>3
    <2>8. OpeningOK'
      BY <2>6, <2>7 DEF OpeningOK
    <2> QED BY <2>8
  <1>4. ASSUME NEW a, NEW ds, reader = [at |-> "opening", parts |-> <<a, ds>>],
               \A d \in Deliveries : BornOut(ds[d], ledger[d])
        PROVE  OpeningOK'
    <2>1. reader.parts = <<a, ds>> /\ Len(reader.parts) = 2
      BY <1>4
    <2>2. Read(ReadOrder[3]) = ledger
      BY Order3 DEF Read
    <2> PICK h : h = ledger
      OBVIOUS
    <2>3. reader' = [at |-> "opened", parts |-> Append(<<a, ds>>, h)]
      BY <1>1, <2>1, <2>2
    <2>4. Append(<<a, ds>>, h) = <<a, ds, h>>
      BY AppendThird
    <2>5. reader' = [at |-> "opened", parts |-> <<a, ds, h>>]
      BY <2>3, <2>4
    <2>6. \A d \in Deliveries : BornOut(ds[d], h[d])
      BY <1>4
    <2> QED BY <2>5, <2>6 DEF OpeningOK
  <1>5. \/ reader = [at |-> "opening", parts |-> <<>>]
        \/ \E a : reader = [at |-> "opening", parts |-> <<a>>]
        \/ \E a, ds : /\ reader = [at |-> "opening", parts |-> <<a, ds>>]
                      /\ \A d \in Deliveries : BornOut(ds[d], ledger[d])
    BY <1>1 DEF OpeningOK
  <1> QED BY <1>2, <1>3, <1>4, <1>5

LEMMA PageStep ==
    ASSUME DeskInv, ReaderOK, LedgerOK, OpeningOK, [DeskNext]_desk
    PROVE  LedgerOK' /\ OpeningOK'
  <1>1. CASE MailStep
    <2>1. reader' = reader
      BY <1>1 DEF MailStep
    <2>2. \A said : \A d \in Deliveries : BornOut(said, ledger[d]) =>
                                             BornOut(said, ledger'[d])
      BY <1>1, StillBornOut
    <2>3. ASSUME NEW a, NEW ds, reader = [at |-> "opening", parts |-> <<a, ds>>],
                 \A d \in Deliveries : BornOut(ds[d], ledger[d])
          PROVE  OpeningOK'
      <3>1. \A d \in Deliveries : BornOut(ds[d], ledger'[d])
        BY <2>2, <2>3
      <3> QED BY <2>1, <2>3, <3>1 DEF OpeningOK
    <2>4. ASSUME ~ \E a, ds :
                    /\ reader = [at |-> "opening", parts |-> <<a, ds>>]
                    /\ \A d \in Deliveries : BornOut(ds[d], ledger[d])
          PROVE  OpeningOK'
      BY <2>1, <2>4 DEF OpeningOK
    <2>5. OpeningOK'
      BY <2>3, <2>4
    <2>6. LedgerOK'
      BY <1>1, MailMoves
    <2> QED BY <2>5, <2>6
  <1>2. CASE ReaderActs
    <2>1. ledger' = ledger
      BY <1>2 DEF ReaderActs, StartListing, FetchPage, OpenLead, ReadPart, IssueTicket,
         UseTicket, LeaveReader, ReaderStep, mail
    <2>2. LedgerOK'
      BY <2>1 DEF LedgerOK
    <2>3. CASE ReadPart
      BY <2>2, <2>3, ReadPartKeeps
    <2>4. CASE OpenLead
      <3>1. reader' = [at |-> "opening", parts |-> <<>>]
        BY <2>4 DEF OpenLead
      <3> QED BY <2>2, <3>1 DEF OpeningOK
    <2>5. CASE StartListing \/ IssueTicket \/ LeaveReader
      <3>1. reader'.at \in {"listing", "ticket", "idle"}
        BY <2>5 DEF StartListing, IssueTicket, LeaveReader
      <3> QED BY <2>2, <3>1 DEF OpeningOK
    <2>6. CASE FetchPage
      <3>1. PICK f, c, i, s, n :
              reader = [at |-> "listing", filter |-> f, cursor |-> c, first |-> i,
                        seen |-> s, shown |-> n]
        BY <2>6 DEF FetchPage, ReaderStep, ReaderOK
      <3>2. \E at \in {"listing", "listed"} : \E c2, s2, n2 :
              reader' = [reader EXCEPT !.at = at, !.cursor = c2, !.seen = s2, !.shown = n2]
        BY <2>6 DEF FetchPage
      <3>3. reader'.at \in {"listing", "listed"}
        BY <3>1, <3>2
      <3> QED BY <2>2, <3>3 DEF OpeningOK
    <2>7. CASE UseTicket
      <3>1. PICK t, e, answer :
              reader = [at |-> "ticket", issued |-> t, exp |-> e, answer |-> answer]
        BY <2>7 DEF UseTicket, ReaderStep, ReaderOK
      <3>2. \E given : reader' = [reader EXCEPT !.answer = given]
        BY <2>7 DEF UseTicket
      <3>3. reader'.at = "ticket"
        BY <3>1, <3>2
      <3> QED BY <2>2, <3>3 DEF OpeningOK
    <2> QED BY <1>2, <2>3, <2>4, <2>5, <2>6, <2>7 DEF ReaderActs
  <1>3. CASE ~MailStep /\ ~ReaderActs
    <2>1. UNCHANGED <<ledger, reader>>
      BY <1>3 DEF DeskNext, desk, Tick, WriteLead, CommitLead, RollBackLead, LeadStep,
         CallMark, LockRow, LockTimesOut, CommitMark, LoseMark, MarkStep, ReaderActs, mail
    <2>2. LedgerOK'
      BY <2>1 DEF LedgerOK
    <2>3. OpeningOK'
      BY <2>1 DEF OpeningOK
    <2> QED BY <2>2, <2>3
  <1> QED BY <1>1, <1>2, <1>3

LEMMA PageInit == ASSUME DeskInit PROVE LedgerOK /\ OpeningOK
  BY DEF DeskInit, Mail!Init, LedgerOK, OpeningOK

\* What a page says of a delivery, the attempts on the same page bear out, though
\* they were read by a later statement and mail was sent in between.
THEOREM PagesCoherent == DeskSpec => []PageCoherent
  <1>1. OpeningOK => PageCoherent
    <2> SUFFICES ASSUME OpeningOK, reader.at = "opened" PROVE PageCoherent
      BY DEF PageCoherent
    <2>1. PICK a, ds, h : /\ reader = [at |-> "opened", parts |-> <<a, ds, h>>]
                          /\ \A d \in Deliveries : BornOut(ds[d], h[d])
      BY DEF OpeningOK
    <2>2. reader.parts[2] = ds /\ reader.parts[3] = h
      BY <2>1
    <2>3. /\ (CHOOSE k \in 1 .. 3 : ReadOrder[k] = "deliveries") = 2
          /\ (CHOOSE k \in 1 .. 3 : ReadOrder[k] = "attempts") = 3
      <3>1. \A k \in 1 .. 3 : /\ ReadOrder[k] = "deliveries" <=> k = 2
                              /\ ReadOrder[k] = "attempts" <=> k = 3
        <4> SUFFICES ASSUME NEW k \in 1 .. 3
                     PROVE  /\ ReadOrder[k] = "deliveries" <=> k = 2
                            /\ ReadOrder[k] = "attempts" <=> k = 3
          OBVIOUS
        <4>1. k = 1 \/ k = 2 \/ k = 3
          OBVIOUS
        <4> QED BY <4>1, Order3
      <3>2. 2 \in 1 .. 3 /\ 3 \in 1 .. 3
        OBVIOUS
      <3> QED BY <3>1, <3>2
    <2> QED BY <2>1, <2>2, <2>3 DEF PageCoherent, BornOut
  <1>2. DeskInit => LedgerOK /\ OpeningOK
    BY PageInit
  <1>3. DeskInv /\ ReaderOK /\ LedgerOK /\ OpeningOK /\ [DeskNext]_desk =>
           (LedgerOK /\ OpeningOK)'
    BY PageStep
  <1> QED BY <1>1, <1>2, <1>3, DeskInvariant, PTL DEF DeskSpec
================================================================================
