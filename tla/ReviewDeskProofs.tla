---------------------------- MODULE ReviewDeskProofs ----------------------------
(* Proofs about ReviewDesk, for any leads, reviewers and times: the rows of the *)
(* leads table, what overlapping requests to mark a lead are told, and the life *)
(* of a ticket.                                                                 *)
(*                                                                              *)
(* The invariant says of each request what it may rely on at its stage: one that *)
(* waits read the clock after the lead was created; one that holds a row will   *)
(* leave it as it is or make it reached out, and is alone in that; one that was *)
(* told a row was told the row that is there.                                   *)
EXTENDS ReviewDesk, Integers, TLAPS

--------------------------------------------------------------------------------
RowOK(row) ==
    /\ row \in Row
    /\ row.created <= now
    /\ row.status = "PENDING" <=> row.by = Nobody
    /\ row.status = "REACHED_OUT" => row.at \in row.created .. now

LeadOK(l) ==
    \/ leads[l] = [stage |-> "absent"]
    \/ \E c \in 0 .. now : leads[l] = [stage |-> "written", created |-> c]
    \/ \E row \in Row : leads[l] = [stage |-> "stored", row |-> row] /\ RowOK(row)

LeadsOK ==
    /\ now \in 0 .. MaxTime
    /\ leads = [l \in Leads |-> leads[l]]
    /\ \A l \in Leads : LeadOK(l)

Waits(m) ==
    \E l \in Stored, c \in 0 .. now :
        m = [stage |-> "waiting", lead |-> l, clock |-> c] /\ c >= leads[l].row.created

\* A row that may follow the one of lead l.
MayFollow(l, row) ==
    /\ row.status = "REACHED_OUT" /\ row.created = leads[l].row.created
    /\ leads[l].row.status = "REACHED_OUT" => row = leads[l].row

HoldsRow(m) ==
    \E l \in Stored, row \in Row :
        /\ m = [stage |-> "holding", lead |-> l, row |-> row]
        /\ RowOK(row) /\ MayFollow(l, row)

WasTold(m) ==
    \E l \in Stored :
        /\ m = [stage |-> "told", lead |-> l, row |-> leads[l].row]
        /\ leads[l].row.status = "REACHED_OUT"

MarkOK(m) ==
    \/ m = [stage |-> "idle"]
    \/ Waits(m) \/ HoldsRow(m) \/ WasTold(m)
    \/ m = [stage |-> "refused", code |-> "delivery_in_progress"]

OneHolder == \A r, q \in Reviewers, l \in Leads : Holds(r, l) /\ Holds(q, l) => r = q

MarksOK ==
    /\ marks = [r \in Reviewers |-> marks[r]]
    /\ \A r \in Reviewers : MarkOK(marks[r])
    /\ OneHolder

ReaderOK ==
    /\ reader.at \in {"idle", "listing", "listed", "opening", "opened", "ticket"}
    /\ reader.at = "listing" => \E f, c, i, s, n :
        reader = [at |-> "listing", filter |-> f, cursor |-> c, first |-> i,
                  seen |-> s, shown |-> n]
    /\ reader.at = "ticket" => \E t \in 0 .. now : \E answer :
        reader = [at |-> "ticket", issued |-> t, exp |-> Expiry(t), answer |-> answer]

DeskInv == LeadsOK /\ MarksOK

--------------------------------------------------------------------------------
(* What a row is.                                                               *)

LEMMA StoredRow ==
    ASSUME LeadsOK, NEW l \in Stored
    PROVE  /\ l \in Leads
           /\ leads[l] = [stage |-> "stored", row |-> leads[l].row]
           /\ RowOK(leads[l].row)
<1>1. l \in Leads /\ leads[l].stage = "stored"
  BY DEF Stored
<1>2. LeadOK(l)
  BY <1>1 DEF LeadsOK
<1>3. PICK row \in Row : leads[l] = [stage |-> "stored", row |-> row] /\ RowOK(row)
  <2>1. leads[l] # [stage |-> "absent"]
    BY <1>1
  <2>2. ASSUME NEW c PROVE leads[l] # [stage |-> "written", created |-> c]
    BY <1>1
  <2> QED
    BY <1>2, <2>1, <2>2 DEF LeadOK
<1>4. leads[l].row = row
  BY <1>3
<1> QED
  BY <1>1, <1>3, <1>4

LEMMA NewRow ==
    ASSUME NEW c \in 0 .. now, now \in Nat
    PROVE  RowOK(Pending(c)) /\ Pending(c).status = "PENDING" /\ Pending(c).created = c
<1>1. Pending(c) \in Row
  BY DEF Pending, Row
<1> QED
  BY <1>1 DEF Pending, RowOK

LEMMA ReachedRow ==
    ASSUME now \in Nat, NEW r \in Reviewers, NEW row, RowOK(row),
           NEW c \in 0 .. now, marks[r].clock = c, c >= row.created
    PROVE  /\ RowOK(Reached(row, r))
           /\ Reached(row, r).status = "REACHED_OUT"
           /\ Reached(row, r).created = row.created
           /\ Reached(row, r).at = c /\ Reached(row, r).by = r
<1>1. row \in [created : Nat, status : {"PENDING", "REACHED_OUT"},
               by : Reviewers \cup {Nobody}, at : Nat]
  BY DEF RowOK, Row
<1>2. Reached(row, r) =
        [created |-> row.created, status |-> "REACHED_OUT", by |-> r, at |-> c]
  <2>1. row = [created |-> row.created, status |-> row.status, by |-> row.by, at |-> row.at]
    BY <1>1
  <2>2. Reached(row, r) = [row EXCEPT !.status = "REACHED_OUT", !.by = r, !.at = c]
    BY DEF Reached
  <2> QED
    BY <2>1, <2>2
<1>3. /\ Reached(row, r) \in Row
      /\ Reached(row, r).status = "REACHED_OUT" /\ Reached(row, r).created = row.created
      /\ Reached(row, r).by = r /\ Reached(row, r).at = c
  BY <1>1, <1>2 DEF Row
<1>4. r # Nobody
  BY DeskAssumption DEF DeskAssumption
<1>5. row.created <= now /\ row.created \in Nat /\ Reached(row, r).at \in row.created .. now
  BY <1>1, <1>3 DEF RowOK
<1>6. "REACHED_OUT" # "PENDING"
  OBVIOUS
<1>7. RowOK(Reached(row, r))
  BY <1>3, <1>4, <1>5, <1>6 DEF RowOK
<1> QED
  BY <1>3, <1>7

--------------------------------------------------------------------------------
(* Leads are only added, and only become reached out.                           *)

Grows ==
    \A l \in Stored :
        /\ l \in Stored'
        /\ \/ leads'[l] = leads[l]
           \/ /\ leads[l].row.status = "PENDING" /\ leads'[l].row.status = "REACHED_OUT"
              /\ leads'[l].row.created = leads[l].row.created

LEMMA RowLater ==
    ASSUME now \in Nat, now' \in Nat, now <= now', NEW row, RowOK(row)
    PROVE  RowOK(row)'
<1>1. row.at \in Nat /\ row.created \in Nat
  BY DEF RowOK, Row
<1> QED
  BY <1>1 DEF RowOK

\* A request none of whose leads is taken from it keeps what it relies on.
LEMMA MarkKept ==
    ASSUME LeadsOK, now' \in Nat, now <= now', Grows,
           NEW r \in Reviewers, MarkOK(marks[r]), marks'[r] = marks[r],
           marks[r].stage = "holding" => leads'[marks[r].lead] = leads[marks[r].lead]
    PROVE  MarkOK(marks[r])'
<1> DEFINE m == marks[r]
<1>0. now \in Nat
  BY DeskAssumption DEF LeadsOK, DeskAssumption
<1>1. CASE Waits(m)
  <2>1. PICK l \in Stored, c \in 0 .. now :
          m = [stage |-> "waiting", lead |-> l, clock |-> c] /\ c >= leads[l].row.created
    BY <1>1 DEF Waits
  <2>2. l \in Stored' /\ leads'[l].row.created = leads[l].row.created /\ c \in 0 .. now'
    BY <1>0, <2>1 DEF Grows
  <2>3. marks'[r] = [stage |-> "waiting", lead |-> l, clock |-> c]
        /\ c >= leads'[l].row.created
    BY <2>1, <2>2
  <2> QED
    BY <2>2, <2>3 DEF MarkOK, Waits
<1>2. CASE HoldsRow(m)
  <2>1. PICK l \in Stored, row \in Row :
          /\ m = [stage |-> "holding", lead |-> l, row |-> row]
          /\ RowOK(row) /\ MayFollow(l, row)
    BY <1>2 DEF HoldsRow
  <2>2. l \in Stored' /\ leads'[l] = leads[l]
    BY <2>1 DEF Grows
  <2>3. RowOK(row)' /\ MayFollow(l, row)'
    BY <1>0, <2>1, <2>2, RowLater DEF MayFollow
  <2>4. marks'[r] = [stage |-> "holding", lead |-> l, row |-> row]
    BY <2>1
  <2> QED
    BY <2>2, <2>3, <2>4 DEF MarkOK, HoldsRow
<1>3. CASE WasTold(m)
  <2>1. PICK l \in Stored :
          /\ m = [stage |-> "told", lead |-> l, row |-> leads[l].row]
          /\ leads[l].row.status = "REACHED_OUT"
    BY <1>3 DEF WasTold
  <2>2. l \in Stored' /\ leads'[l] = leads[l]
    BY <2>1 DEF Grows
  <2>3. /\ marks'[r] = [stage |-> "told", lead |-> l, row |-> leads'[l].row]
        /\ leads'[l].row.status = "REACHED_OUT"
    BY <2>1, <2>2
  <2> QED
    BY <2>2, <2>3 DEF MarkOK, WasTold
<1>4. CASE m = [stage |-> "idle"] \/ m = [stage |-> "refused", code |-> "delivery_in_progress"]
  BY <1>4 DEF MarkOK
<1> QED
  BY <1>1, <1>2, <1>3, <1>4 DEF MarkOK

LEMMA Holding ==
    ASSUME NEW m, MarkOK(m), m.stage = "holding"
    PROVE  /\ m = [stage |-> "holding", lead |-> m.lead, row |-> m.row]
           /\ m.lead \in Stored /\ RowOK(m.row) /\ MayFollow(m.lead, m.row)
<1>1. ~Waits(m) /\ ~WasTold(m)
  BY DEF Waits, WasTold
<1>2. HoldsRow(m)
  BY <1>1 DEF MarkOK
<1>3. PICK l \in Stored, row \in Row :
        /\ m = [stage |-> "holding", lead |-> l, row |-> row]
        /\ RowOK(row) /\ MayFollow(l, row)
  BY <1>2 DEF HoldsRow
<1>4. m.lead = l /\ m.row = row
  BY <1>3
<1> QED
  BY <1>3, <1>4

LEMMA Waiting ==
    ASSUME NEW m, MarkOK(m), m.stage = "waiting"
    PROVE  /\ m.lead \in Stored /\ m.clock \in 0 .. now
           /\ m.clock >= leads[m.lead].row.created
<1>1. ~HoldsRow(m) /\ ~WasTold(m)
  BY DEF HoldsRow, WasTold
<1>2. Waits(m)
  BY <1>1 DEF MarkOK
<1>3. PICK l \in Stored, c \in 0 .. now :
        m = [stage |-> "waiting", lead |-> l, clock |-> c] /\ c >= leads[l].row.created
  BY <1>2 DEF Waits
<1>4. m.lead = l /\ m.clock = c
  BY <1>3
<1> QED
  BY <1>3, <1>4

\* Steps that leave the requests alone and change no row that is there.
LEMMA MarksKept ==
    ASSUME DeskInv, now' \in Nat, now <= now', UNCHANGED marks,
           \A l \in Stored : l \in Stored' /\ leads'[l] = leads[l]
    PROVE  Grows /\ MarksOK'
<1>1. Grows
  BY DEF Grows
<1>2. ASSUME NEW r \in Reviewers PROVE MarkOK(marks[r])'
  <2>1. MarkOK(marks[r]) /\ marks'[r] = marks[r]
    BY DEF DeskInv, MarksOK
  <2>2. marks[r].stage = "holding" => marks[r].lead \in Stored
    BY <2>1, Holding
  <2> QED
    BY <1>1, <2>1, <2>2, MarkKept DEF DeskInv
<1>3. OneHolder'
  BY DEF DeskInv, MarksOK, OneHolder, Holds
<1> QED
  BY <1>1, <1>2, <1>3 DEF DeskInv, MarksOK

\* Steps of one request.
LEMMA OneMarkMoves ==
    ASSUME DeskInv, now' = now, Grows, NEW r \in Reviewers,
           marks' = [marks EXCEPT ![r] = marks'[r]], MarkOK(marks[r])',
           \A q \in Reviewers \ {r} :
              /\ marks[q].stage = "holding" => leads'[marks[q].lead] = leads[marks[q].lead]
              /\ marks'[r].stage = "holding" => ~Holds(q, marks'[r].lead)
    PROVE  MarksOK'
<1>1. now \in Nat
  BY DeskAssumption DEF DeskInv, LeadsOK, DeskAssumption
<1>2. ASSUME NEW q \in Reviewers \ {r} PROVE marks'[q] = marks[q] /\ MarkOK(marks[q])'
  <2>1. MarkOK(marks[q]) /\ marks'[q] = marks[q]
    BY DEF DeskInv, MarksOK
  <2> QED
    BY <1>1, <2>1, MarkKept DEF DeskInv
<1>3. marks' = [q \in Reviewers |-> marks'[q]]
  BY DEF DeskInv, MarksOK
<1>4. OneHolder'
  <2> SUFFICES ASSUME NEW p \in Reviewers, NEW q \in Reviewers, NEW l \in Leads,
                      Holds(p, l)', Holds(q, l)'
               PROVE  p = q
    BY DEF OneHolder
  <2>1. CASE p # r /\ q # r
    <3>1. Holds(p, l) /\ Holds(q, l)
      BY <1>2, <2>1 DEF Holds
    <3> QED
      BY <3>1 DEF DeskInv, MarksOK, OneHolder
  <2>2. CASE p = r /\ q # r
    BY <1>2, <2>2 DEF Holds
  <2>3. CASE p # r /\ q = r
    BY <1>2, <2>3 DEF Holds
  <2> QED
    BY <2>1, <2>2, <2>3
<1> QED
  BY <1>2, <1>3, <1>4 DEF MarksOK

\* Steps that write no lead.
LEMMA LeadsKept ==
    ASSUME LeadsOK, UNCHANGED leads, now' \in 0 .. MaxTime, now <= now'
    PROVE  LeadsOK'
<1>1. now \in Nat /\ now' \in Nat
  BY DeskAssumption DEF LeadsOK, DeskAssumption
<1>2. ASSUME NEW l \in Leads PROVE LeadOK(l)'
  <2>1. LeadOK(l)
    BY DEF LeadsOK
  <2>2. ASSUME NEW row \in Row, RowOK(row) PROVE RowOK(row)'
    BY <1>1, <2>2, RowLater
  <2>3. ASSUME NEW c \in 0 .. now PROVE c \in 0 .. now'
    BY <1>1
  <2> QED
    BY <2>1, <2>2, <2>3 DEF LeadOK
<1> QED
  BY <1>2 DEF LeadsOK

LEMMA OneLeadMoves ==
    ASSUME LeadsOK, now' = now, NEW l \in Leads,
           leads' = [leads EXCEPT ![l] = leads'[l]], LeadOK(l)'
    PROVE  LeadsOK'
<1>1. ASSUME NEW k \in Leads \ {l} PROVE LeadOK(k)'
  <2>1. LeadOK(k) /\ leads'[k] = leads[k]
    BY DEF LeadsOK
  <2> QED
    BY <2>1 DEF LeadOK, RowOK
<1>2. leads' = [k \in Leads |-> leads'[k]]
  BY DEF LeadsOK
<1> QED
  BY <1>1, <1>2 DEF LeadsOK

--------------------------------------------------------------------------------
(* The steps of the leads.                                                      *)

LEMMA LeadSteps ==
    ASSUME DeskInv, NEW l \in Leads, WriteLead(l) \/ CommitLead(l) \/ RollBackLead(l)
    PROVE  DeskInv' /\ Grows
<1>1. now \in Nat /\ now' = now /\ UNCHANGED marks
  BY DeskAssumption DEF DeskInv, LeadsOK, DeskAssumption, WriteLead, CommitLead,
     RollBackLead, LeadStep
<1>2. leads[l].stage # "stored" /\ leads' = [leads EXCEPT ![l] = leads'[l]]
  BY DEF DeskInv, LeadsOK, WriteLead, CommitLead, RollBackLead, LeadStep
<1>3. LeadOK(l)'
  <2>1. CASE WriteLead(l)
    <3>1. leads'[l] = [stage |-> "written", created |-> now]
      BY <2>1 DEF DeskInv, LeadsOK, WriteLead, LeadStep
    <3> QED
      BY <1>1, <3>1 DEF LeadOK
  <2>2. CASE CommitLead(l)
    <3>1. leads'[l] = [stage |-> "stored", row |-> Pending(leads[l].created)]
      BY <2>2 DEF DeskInv, LeadsOK, CommitLead, LeadStep
    <3>2. leads[l].created \in 0 .. now
      <4>1. LeadOK(l) /\ leads[l].stage = "written"
        BY <2>2 DEF DeskInv, LeadsOK, CommitLead, LeadStep
      <4>2. /\ leads[l] # [stage |-> "absent"]
            /\ \A row : leads[l] # [stage |-> "stored", row |-> row]
        BY <4>1
      <4> PICK c \in 0 .. now : leads[l] = [stage |-> "written", created |-> c]
        BY <4>1, <4>2 DEF LeadOK
      <4>3. leads[l].created = c
        OBVIOUS
      <4> QED
        BY <4>3
    <3>3. RowOK(Pending(leads[l].created)) /\ Pending(leads[l].created) \in Row
      BY <1>1, <3>2, NewRow DEF RowOK
    <3>4. \A row : RowOK(row) => RowOK(row)'
      BY <1>1 DEF RowOK
    <3> QED
      BY <3>1, <3>3, <3>4 DEF LeadOK
  <2>3. CASE RollBackLead(l)
    <3>1. leads'[l] = [stage |-> "absent"]
      BY <2>3 DEF DeskInv, LeadsOK, RollBackLead, LeadStep
    <3> QED
      BY <3>1 DEF LeadOK
  <2> QED
    BY <2>1, <2>2, <2>3
<1>4. LeadsOK'
  BY <1>1, <1>2, <1>3, OneLeadMoves DEF DeskInv
<1>5. \A k \in Stored : k \in Stored' /\ leads'[k] = leads[k]
  <2> SUFFICES ASSUME NEW k \in Stored PROVE k \in Stored' /\ leads'[k] = leads[k]
    OBVIOUS
  <2>1. k \in Leads /\ k # l /\ leads[k].stage = "stored"
    BY <1>2 DEF Stored
  <2>2. leads'[k] = leads[k]
    BY <1>2, <2>1 DEF DeskInv, LeadsOK
  <2> QED
    BY <2>1, <2>2 DEF Stored
<1> QED
  BY <1>1, <1>4, <1>5, MarksKept DEF DeskInv

\* Steps that neither write a lead nor move a marking request.
LEMMA OtherSteps ==
    ASSUME DeskInv, UNCHANGED <<leads, marks>>, now' \in 0 .. MaxTime, now <= now'
    PROVE  DeskInv' /\ Grows
<1>1. LeadsOK'
  BY LeadsKept DEF DeskInv
<1>2. now' \in Nat
  BY DeskAssumption DEF DeskAssumption
<1>3. \A l \in Stored : l \in Stored' /\ leads'[l] = leads[l]
  BY DEF Stored
<1> QED
  BY <1>1, <1>2, <1>3, MarksKept DEF DeskInv

--------------------------------------------------------------------------------
(* The steps of a marking request.                                              *)

LEMMA QuietMark ==
    ASSUME DeskInv, NEW r \in Reviewers, UNCHANGED <<now, leads>>,
           marks' = [marks EXCEPT ![r] = marks'[r]], MarkOK(marks[r])',
           marks'[r].stage = "holding" => RowFree(marks'[r].lead)
    PROVE  DeskInv' /\ Grows
<1>1. Grows
  BY DEF Grows, Stored
<1>2. LeadsOK'
  BY LeadsKept DEF DeskInv, LeadsOK
<1>3. MarksOK'
  BY <1>1, OneMarkMoves DEF RowFree
<1> QED
  BY <1>1, <1>2, <1>3 DEF DeskInv

LEMMA CallMarkStep ==
    ASSUME DeskInv, NEW r \in Reviewers, NEW l \in Leads, CallMark(r, l)
    PROVE  DeskInv' /\ Grows
<1>1. /\ l \in Stored /\ UNCHANGED <<now, leads>>
      /\ marks' = [marks EXCEPT ![r] = [stage |-> "waiting", lead |-> l, clock |-> now]]
  BY DEF CallMark, MarkStep
<1>2. marks'[r] = [stage |-> "waiting", lead |-> l, clock |-> now]
  BY <1>1 DEF DeskInv, MarksOK
<1>3. now' \in 0 .. now' /\ now' >= leads'[l].row.created /\ l \in Stored'
  BY <1>1, StoredRow, DeskAssumption
     DEF DeskInv, LeadsOK, RowOK, Row, DeskAssumption, Stored
<1>4. MarkOK(marks[r])'
  BY <1>1, <1>2, <1>3 DEF MarkOK, Waits
<1>5. marks' = [marks EXCEPT ![r] = marks'[r]]
  BY <1>1, <1>2
<1>6. marks'[r].stage # "holding"
  BY <1>2
<1> QED
  BY <1>1, <1>4, <1>5, <1>6, QuietMark

LEMMA LockRowStep ==
    ASSUME DeskInv, NEW r \in Reviewers, LockRow(r)
    PROVE  DeskInv' /\ Grows
<1> DEFINE l == marks[r].lead
           old == leads[l].row
           new == IF AlreadyReached(old) THEN old ELSE Reached(old, r)
<1>1. /\ marks[r].stage = "waiting" /\ RowFree(l) /\ UNCHANGED <<now, leads>>
      /\ marks' = [marks EXCEPT ![r] =
            IF UpdateAllowed(old, new)
            THEN [stage |-> "holding", lead |-> l, row |-> new]
            ELSE [stage |-> "refused", code |-> "invalid_status_transition"]]
  BY DEF LockRow, MarkStep
<1>2. /\ l \in Stored /\ marks[r].clock \in 0 .. now /\ marks[r].clock >= old.created
      /\ RowOK(old) /\ now \in Nat
  <2>1. MarkOK(marks[r]) /\ LeadsOK
    BY DEF DeskInv, MarksOK
  <2>2. /\ l \in Stored /\ marks[r].clock \in 0 .. now
        /\ marks[r].clock >= old.created
    BY <1>1, <2>1, Waiting
  <2>3. RowOK(old)
    BY <2>1, <2>2, StoredRow
  <2> QED
    BY <2>1, <2>2, <2>3, DeskAssumption DEF LeadsOK, DeskAssumption
<1>3. RowOK(new) /\ MayFollow(l, new) /\ UpdateAllowed(old, new)
  <2>1. CASE AlreadyReached(old)
    <3>1. new = old /\ old.status = "REACHED_OUT" /\ "REACHED_OUT" # "PENDING"
      BY <2>1 DEF AlreadyReached
    <3>2. old.at >= old.created /\ old.by # Nobody
      BY <1>2, <3>1 DEF RowOK, Row
    <3> QED
      BY <1>2, <3>1, <3>2 DEF MayFollow, UpdateAllowed
  <2>2. CASE ~AlreadyReached(old)
    <3>1. new = Reached(old, r) /\ old.status # "REACHED_OUT"
      BY <2>2 DEF AlreadyReached
    <3>2. /\ RowOK(new) /\ new.status = "REACHED_OUT" /\ new.created = old.created
          /\ new.at = marks[r].clock /\ new.by = r
      BY <1>2, <3>1, ReachedRow
    <3>3. r # Nobody
      BY DeskAssumption DEF DeskAssumption
    <3> QED
      BY <1>2, <3>1, <3>2, <3>3 DEF MayFollow, UpdateAllowed
  <2> QED
    BY <2>1, <2>2
<1> HIDE DEF new
<1>4. marks'[r] = [stage |-> "holding", lead |-> l, row |-> new]
  BY <1>1, <1>3 DEF DeskInv, MarksOK
<1>5. MarkOK(marks[r])'
  <2>1. new \in Row
    BY <1>3 DEF RowOK
  <2>2. HoldsRow(marks'[r])
    BY <1>2, <1>3, <1>4, <2>1 DEF HoldsRow
  <2> QED
    BY <1>1, <2>2 DEF MarkOK, HoldsRow, RowOK, MayFollow, Stored
<1>6. marks' = [marks EXCEPT ![r] = marks'[r]]
  BY <1>1, <1>3, <1>4
<1>7. marks'[r].lead = l
  BY <1>4
<1> QED
  BY <1>1, <1>5, <1>6, <1>7, QuietMark

LEMMA RefusedOrIdleStep ==
    ASSUME DeskInv, NEW r \in Reviewers, LockTimesOut(r) \/ LoseMark(r)
    PROVE  DeskInv' /\ Grows
<1>1. /\ UNCHANGED <<now, leads>> /\ marks' = [marks EXCEPT ![r] = marks'[r]]
      /\ \/ marks'[r] = [stage |-> "refused", code |-> "delivery_in_progress"]
         \/ marks'[r] = [stage |-> "idle"]
  BY DEF LockTimesOut, LoseMark, MarkStep, DeskInv, MarksOK
<1>2. MarkOK(marks[r])' /\ marks'[r].stage # "holding"
  BY <1>1 DEF MarkOK
<1> QED
  BY <1>1, <1>2, QuietMark

LEMMA CommitMarkStep ==
    ASSUME DeskInv, NEW r \in Reviewers, CommitMark(r)
    PROVE  DeskInv' /\ Grows
<1>0. \E l, row : l = marks[r].lead /\ row = marks[r].row
  OBVIOUS
<1> PICK l, row : l = marks[r].lead /\ row = marks[r].row
  BY <1>0
<1>1. /\ marks[r].stage = "holding" /\ now' = now
      /\ leads' = [leads EXCEPT ![l].row = row]
      /\ marks' = [marks EXCEPT ![r] = [stage |-> "told", lead |-> l, row |-> row]]
  BY DEF CommitMark, MarkStep
<1>2. /\ l \in Stored /\ RowOK(row) /\ MayFollow(l, row) /\ now \in Nat
      /\ row \in Row
  BY <1>1, Holding, DeskAssumption DEF DeskInv, MarksOK, LeadsOK, DeskAssumption, RowOK
<1>3. /\ l \in Leads /\ leads[l] = [stage |-> "stored", row |-> leads[l].row]
      /\ RowOK(leads[l].row)
  BY <1>2, StoredRow DEF DeskInv
<1>4. /\ leads'[l] = [stage |-> "stored", row |-> row]
      /\ leads' = [leads EXCEPT ![l] = leads'[l]]
      /\ \A k \in Leads \ {l} : leads'[k] = leads[k]
  <2>1. leads = [k \in Leads |-> leads[k]]
    BY DEF DeskInv, LeadsOK
  <2>2. leads'[l] = [leads[l] EXCEPT !.row = row]
    BY <1>1, <1>3, <2>1
  <2>3. leads'[l] = [stage |-> "stored", row |-> row]
    BY <1>3, <2>2
  <2>4. leads' = [leads EXCEPT ![l] = [leads[l] EXCEPT !.row = row]]
    BY <1>1
  <2> QED
    BY <1>3, <2>1, <2>2, <2>3, <2>4
<1>5. LeadsOK'
  <2>1. \A other : RowOK(other) => RowOK(other)'
    BY <1>1 DEF RowOK
  <2>2. RowOK(row)' /\ leads'[l] = [stage |-> "stored", row |-> row] /\ row \in Row
    BY <1>2, <1>4, <2>1
  <2>3. LeadOK(l)'
    BY <2>2 DEF LeadOK
  <2> QED
    BY <1>1, <1>3, <1>4, <2>3, OneLeadMoves DEF DeskInv
<1>6. Grows
  <2> SUFFICES ASSUME NEW k \in Stored
               PROVE  /\ k \in Stored'
                      /\ \/ leads'[k] = leads[k]
                         \/ /\ leads[k].row.status = "PENDING"
                            /\ leads'[k].row.status = "REACHED_OUT"
                            /\ leads'[k].row.created = leads[k].row.created
    BY DEF Grows
  <2>1. CASE k # l
    BY <1>4, <2>1 DEF Stored
  <2>2. CASE k = l
    <3>1. k \in Stored'
      BY <1>3, <1>4, <2>2 DEF Stored
    <3>2. leads'[k].row = row
      BY <1>4, <2>2
    <3>3. CASE leads[l].row.status = "REACHED_OUT"
      BY <1>2, <1>3, <1>4, <2>2, <3>1, <3>3 DEF MayFollow
    <3>4. CASE leads[l].row.status # "REACHED_OUT"
      BY <1>2, <1>3, <2>2, <3>1, <3>2, <3>4 DEF MayFollow, RowOK, Row
    <3> QED
      BY <3>3, <3>4
  <2> QED
    BY <2>1, <2>2
<1>7. MarksOK'
  <2>1. marks'[r] = [stage |-> "told", lead |-> l, row |-> row]
    BY <1>1 DEF DeskInv, MarksOK
  <2>2. marks' = [marks EXCEPT ![r] = marks'[r]] /\ marks'[r].stage # "holding"
    BY <1>1, <2>1 DEF DeskInv, MarksOK
  <2>3. MarkOK(marks[r])'
    <3>1. /\ marks'[r] = [stage |-> "told", lead |-> l, row |-> leads'[l].row]
          /\ leads'[l].row.status = "REACHED_OUT" /\ l \in Stored'
      BY <1>2, <1>4, <1>6, <2>1 DEF MayFollow, Grows
    <3> QED
      BY <3>1 DEF MarkOK, WasTold
  <2>4. ASSUME NEW q \in Reviewers \ {r}, marks[q].stage = "holding"
        PROVE  leads'[marks[q].lead] = leads[marks[q].lead]
    <3>1. marks[q].lead \in Leads
      BY <2>4, Holding DEF DeskInv, MarksOK, Stored
    <3>2. marks[q].lead # l
      BY <1>1, <1>3, <2>4 DEF DeskInv, MarksOK, OneHolder, Holds
    <3> QED
      BY <1>4, <3>1, <3>2
  <2> QED
    BY <1>1, <1>6, <2>2, <2>3, <2>4, OneMarkMoves
<1> QED
  BY <1>5, <1>6, <1>7 DEF DeskInv

--------------------------------------------------------------------------------
(* Every step.                                                                  *)

ReaderActs ==
    \/ StartListing \/ FetchPage \/ OpenLead \/ ReadPart
    \/ IssueTicket \/ UseTicket \/ LeaveReader

LEMMA Initially == ASSUME DeskInit PROVE DeskInv /\ ReaderOK
<1>1. now = 0 /\ now \in 0 .. MaxTime
  BY DeskAssumption DEF DeskInit, DeskAssumption
<1>2. LeadsOK
  <2>1. ASSUME NEW l \in Leads PROVE LeadOK(l)
    <3>1. CASE l \in Early
      <4>1. leads[l] = [stage |-> "stored", row |-> Pending(0)]
        BY <3>1 DEF DeskInit
      <4>2. RowOK(Pending(0)) /\ Pending(0) \in Row
        BY <1>1, NewRow DEF RowOK
      <4> QED
        BY <4>1, <4>2 DEF LeadOK
    <3>2. CASE l \notin Early
      BY <3>2 DEF DeskInit, LeadOK
    <3> QED
      BY <3>1, <3>2
  <2>2. leads = [l \in Leads |-> leads[l]]
    BY DEF DeskInit
  <2> QED
    BY <1>1, <2>1, <2>2 DEF LeadsOK
<1>3. MarksOK
  BY DEF DeskInit, MarksOK, MarkOK, OneHolder, Holds
<1>4. ReaderOK
  BY DEF DeskInit, ReaderOK
<1> QED
  BY <1>2, <1>3, <1>4 DEF DeskInv

LEMMA ClockStep ==
    ASSUME [DeskNext]_desk, now \in Nat
    PROVE  now <= now'
<1>1. Tick \/ now' = now
  <2>1. CASE \E l \in Leads : WriteLead(l) \/ CommitLead(l) \/ RollBackLead(l)
    BY <2>1 DEF WriteLead, CommitLead, RollBackLead, LeadStep
  <2>2. CASE \E r \in Reviewers :
          \/ \E l \in Leads : CallMark(r, l)
          \/ LockRow(r) \/ LockTimesOut(r) \/ CommitMark(r) \/ LoseMark(r)
    BY <2>2 DEF CallMark, LockRow, LockTimesOut, CommitMark, LoseMark, MarkStep
  <2>3. CASE ReaderActs
    BY <2>3 DEF ReaderActs, StartListing, FetchPage, OpenLead, ReadPart, IssueTicket,
       UseTicket, LeaveReader, ReaderStep
  <2>4. CASE MailStep \/ UNCHANGED desk
    BY <2>4 DEF MailStep, desk
  <2> QED
    BY <2>1, <2>2, <2>3, <2>4 DEF DeskNext, ReaderActs
<1> QED
  BY <1>1 DEF Tick

LEMMA TableStep ==
    ASSUME DeskInv, [DeskNext]_desk
    PROVE  DeskInv' /\ Grows
<1>1. now \in 0 .. MaxTime /\ now \in Nat /\ MaxTime \in Nat
  BY DeskAssumption DEF DeskInv, LeadsOK, DeskAssumption
<1>2. CASE UNCHANGED desk \/ Tick \/ MailStep \/ ReaderActs
  <2>1. UNCHANGED <<leads, marks>> /\ now' \in 0 .. MaxTime /\ now <= now'
    <3>1. CASE UNCHANGED desk
      BY <1>1, <3>1 DEF desk
    <3>2. CASE Tick
      BY <1>1, <3>2 DEF Tick
    <3>3. CASE MailStep
      BY <1>1, <3>3 DEF MailStep
    <3>4. CASE ReaderActs
      BY <1>1, <3>4 DEF ReaderActs, StartListing, FetchPage, OpenLead, ReadPart,
         IssueTicket, UseTicket, LeaveReader, ReaderStep
    <3> QED
      BY <1>2, <3>1, <3>2, <3>3, <3>4
  <2> QED
    BY <2>1, OtherSteps
<1>3. CASE \E l \in Leads : WriteLead(l) \/ CommitLead(l) \/ RollBackLead(l)
  BY <1>3, LeadSteps
<1>4. CASE \E r \in Reviewers :
        \/ \E l \in Leads : CallMark(r, l)
        \/ LockRow(r) \/ LockTimesOut(r) \/ CommitMark(r) \/ LoseMark(r)
  BY <1>4, CallMarkStep, LockRowStep, RefusedOrIdleStep, CommitMarkStep
<1> QED
  BY <1>2, <1>3, <1>4 DEF DeskNext, ReaderActs

LEMMA ReaderMoves ==
    ASSUME [DeskNext]_desk
    PROVE  reader' = reader \/ ReaderActs
BY DEF DeskNext, desk, Tick, MailStep, WriteLead, CommitLead, RollBackLead,
   LeadStep, CallMark, LockRow, LockTimesOut, CommitMark, LoseMark, MarkStep, ReaderActs

\* What a step may do to the request that reads, as far as tickets go.
LEMMA TicketStep ==
    ASSUME DeskInv, ReaderOK, [DeskNext]_desk
    PROVE  /\ ReaderOK'
           /\ reader.at = "ticket" /\ reader'.at = "ticket" =>
                reader'.answer = reader.answer \/ UseTicket
<1>1. now \in Nat /\ now' \in Nat /\ MaxTime \in Nat
  BY TableStep, DeskAssumption DEF DeskInv, LeadsOK, DeskAssumption
<1>2. CASE reader' = reader
  <2>1. now <= now'
    BY <1>1, ClockStep
  <2>2. \A t \in 0 .. now : t \in 0 .. now'
    BY <1>1, <2>1
  <2>3. ReaderOK'
    BY <1>2, <2>2 DEF ReaderOK, Expiry
  <2> QED
    BY <1>2, <2>3
<1>3. CASE StartListing
  <2>1. \E f, c, i, s, n :
          reader' = [at |-> "listing", filter |-> f, cursor |-> c, first |-> i,
                     seen |-> s, shown |-> n]
    BY <1>3 DEF StartListing
  <2>2. reader'.at = "listing"
    BY <2>1
  <2> QED
    BY <2>1, <2>2 DEF ReaderOK
<1>4. CASE FetchPage
  <2>1. PICK f, c, i, s, n :
          reader = [at |-> "listing", filter |-> f, cursor |-> c, first |-> i,
                    seen |-> s, shown |-> n]
    BY <1>4 DEF FetchPage, ReaderStep, ReaderOK
  <2>2. \E at, c2, s2, n2 :
          /\ reader' = [reader EXCEPT !.at = at, !.cursor = c2, !.seen = s2, !.shown = n2]
          /\ at \in {"listing", "listed"}
    BY <1>4 DEF FetchPage
  <2>3. PICK at, c2, s2, n2 :
          /\ reader' = [reader EXCEPT !.at = at, !.cursor = c2, !.seen = s2, !.shown = n2]
          /\ at \in {"listing", "listed"}
    BY <2>2
  <2>4. reader' = [at |-> at, filter |-> f, cursor |-> c2, first |-> i,
                   seen |-> s2, shown |-> n2]
    BY <2>1, <2>3
  <2>5. reader'.at \in {"listing", "listed"}
    BY <2>3, <2>4
  <2> QED
    BY <2>3, <2>4, <2>5 DEF ReaderOK
<1>5. CASE OpenLead \/ ReadPart \/ LeaveReader
  <2>1. reader'.at \in {"idle", "opening", "opened"}
    BY <1>5 DEF OpenLead, ReadPart, LeaveReader
  <2> QED
    BY <2>1 DEF ReaderOK
<1>6. CASE IssueTicket
  <2>1. reader' = [at |-> "ticket", issued |-> now, exp |-> Expiry(now), answer |-> "none"]
        /\ now \in 0 .. now' /\ reader.at = "idle"
    BY <1>1, <1>6 DEF IssueTicket, ReaderStep
  <2>2. \E t \in 0 .. now' : \E answer :
          reader' = [at |-> "ticket", issued |-> t, exp |-> Expiry(t), answer |-> answer]
    BY <2>1
  <2>3. reader'.at = "ticket"
    BY <2>1
  <2> QED
    BY <2>1, <2>2, <2>3 DEF ReaderOK, Expiry
<1>7. CASE UseTicket
  <2>1. now' = now /\ reader.at = "ticket"
    BY <1>7 DEF UseTicket, ReaderStep
  <2> PICK t \in 0 .. now : \E answer : reader =
        [at |-> "ticket", issued |-> t, exp |-> Expiry(t), answer |-> answer]
    BY <2>1 DEF ReaderOK
  <2>2. PICK answer : reader =
          [at |-> "ticket", issued |-> t, exp |-> Expiry(t), answer |-> answer]
    OBVIOUS
  <2>3. PICK given : reader' = [reader EXCEPT !.answer = given]
    BY <1>7 DEF UseTicket
  <2>4. reader' = [at |-> "ticket", issued |-> t, exp |-> Expiry(t), answer |-> given]
    BY <2>2, <2>3
  <2>5. reader'.at = "ticket"
    BY <2>4
  <2>6. ReaderOK'
    BY <2>1, <2>4, <2>5 DEF ReaderOK, Expiry
  <2> QED
    BY <1>7, <2>6
<1>8. reader' = reader \/ ReaderActs
  BY ReaderMoves
<1> QED
  BY <1>2, <1>3, <1>4, <1>5, <1>6, <1>7, <1>8 DEF ReaderActs

--------------------------------------------------------------------------------
(* The theorems.                                                                *)

\* In every reachable state the rows of the table leads and the requests that mark
\* them are as DeskInv says, and the request that reads as ReaderOK says.
THEOREM DeskInvariant == DeskSpec => [](DeskInv /\ ReaderOK)
<1>1. DeskInit => DeskInv /\ ReaderOK
  BY Initially
<1>2. DeskInv /\ ReaderOK /\ [DeskNext]_desk => (DeskInv /\ ReaderOK)'
  BY TableStep, TicketStep
<1> QED
  BY <1>1, <1>2, PTL DEF DeskSpec

\* Rows have their types, and satisfy the constraints of the table: a lead is
\* reached out by somebody, not before it was created, and not in the future.
THEOREM RowsWellFormed == DeskSpec => []DeskTypeOK
<1>1. ASSUME DeskInv PROVE DeskTypeOK
  <2>1. ASSUME NEW l \in Leads PROVE leads[l] \in Tuple
    <3>1. LeadOK(l)
      BY <1>1 DEF DeskInv, LeadsOK
    <3>2. CASE leads[l] = [stage |-> "absent"]
      BY <3>2 DEF Tuple
    <3>3. ASSUME NEW c \in 0 .. now, leads[l] = [stage |-> "written", created |-> c]
          PROVE  leads[l] \in Tuple
      BY <3>3 DEF Tuple
    <3>4. ASSUME NEW row \in Row, leads[l] = [stage |-> "stored", row |-> row]
          PROVE  leads[l] \in Tuple
      BY <3>4 DEF Tuple
    <3> QED
      BY <3>1, <3>2, <3>3, <3>4 DEF LeadOK
  <2>2. leads \in [Leads -> Tuple]
    BY <1>1, <2>1 DEF DeskInv, LeadsOK
  <2>3. \A l \in Stored : RowOK(leads[l].row)
    BY <1>1, StoredRow DEF DeskInv
  <2>4. now \in 0 .. MaxTime
    BY <1>1 DEF DeskInv, LeadsOK
  <2> QED
    BY <2>2, <2>3, <2>4 DEF DeskTypeOK, RowOK
<1> QED
  BY <1>1, DeskInvariant, PTL

\* A reviewer who was told that a lead is reached out was told the row that is in the
\* table and stays there, whichever of the overlapping requests wrote it; and one
\* that was refused found the row locked for too long, never an invalid transition.
THEOREM ReviewersToldTheTruth == DeskSpec => []ToldTheTruth
<1>1. ASSUME DeskInv PROVE ToldTheTruth
  <2> SUFFICES ASSUME NEW r \in Reviewers
               PROVE  /\ marks[r].stage = "told" =>
                            /\ leads[marks[r].lead].row = marks[r].row
                            /\ marks[r].row.status = "REACHED_OUT"
                      /\ marks[r].stage = "refused" =>
                            marks[r].code = "delivery_in_progress"
    BY DEF ToldTheTruth
  <2>1. MarkOK(marks[r])
    BY <1>1 DEF DeskInv, MarksOK
  <2>2. Waits(marks[r]) => marks[r].stage = "waiting"
    BY DEF Waits
  <2>3. HoldsRow(marks[r]) => marks[r].stage = "holding"
    BY DEF HoldsRow
  <2>4. WasTold(marks[r]) =>
          /\ marks[r].stage = "told" /\ leads[marks[r].lead].row = marks[r].row
          /\ marks[r].row.status = "REACHED_OUT"
    BY DEF WasTold
  <2> QED
    BY <2>1, <2>2, <2>3, <2>4 DEF MarkOK
<1> QED
  BY <1>1, DeskInvariant, PTL

\* The reviewer and the time of a lead that is reached out are never overwritten, and
\* it never becomes pending again.
THEOREM AuditNeverChanges == DeskSpec => AuditKept
<1>1. ASSUME DeskInv, [DeskNext]_desk
      PROVE  [\A l \in Stored : leads[l].row.status = "REACHED_OUT" =>
                leads'[l] = leads[l]]_desk
  BY <1>1, TableStep DEF Grows
<1> QED
  BY <1>1, DeskInvariant, PTL DEF DeskSpec, AuditKept

\* The last second of a ticket: rounding its expiry down costs less than one second.
LEMMA WholeSeconds ==
    ASSUME NEW x \in Nat, NEW T \in Nat \ {0}
    PROVE  (x \div T) * T <= x /\ (x \div T) * T > x - T
<1>1. T \in Nat /\ T > 0
  OBVIOUS
<1>2. (x \div T) * T <= x /\ x < (x \div T) * T + T
  BY <1>1, SMTT(30)
<1>3. (x \div T) * T \in Int
  BY <1>1
<1> QED
  BY <1>1, <1>2, <1>3

\* A ticket is honoured only while it is younger than its lifetime, and called
\* expired only in the last second of it or later.
THEOREM TicketsLastTheirLifetime == DeskSpec => TicketLifetime
<1>1. ASSUME DeskInv, ReaderOK, [DeskNext]_desk
      PROVE  [reader.at = "ticket" /\ reader'.at = "ticket" =>
                LET age == now - reader.issued
                    life == TicketLife * TicksPerSecond
                IN  reader'.answer # reader.answer =>
                    /\ reader'.answer = "streamed" => age < life
                    /\ reader'.answer = "expired" => age > life - TicksPerSecond]_desk
  <2> SUFFICES ASSUME reader.at = "ticket", UseTicket
               PROVE  LET age == now - reader.issued
                          life == TicketLife * TicksPerSecond
                      IN  /\ reader'.answer = "streamed" => age < life
                          /\ reader'.answer = "expired" => age > life - TicksPerSecond
    BY <1>1, TicketStep
  <2> PICK t \in 0 .. now : \E answer : reader =
        [at |-> "ticket", issued |-> t, exp |-> Expiry(t), answer |-> answer]
    BY <1>1 DEF ReaderOK
  <2>1. PICK answer : reader =
          [at |-> "ticket", issued |-> t, exp |-> Expiry(t), answer |-> answer]
    OBVIOUS
  <2>2. PICK given : /\ given \in {"streamed", "unavailable"} => ~Expired(reader.exp)
                     /\ given = "expired" => Expired(reader.exp)
                     /\ reader' = [reader EXCEPT !.answer = given]
    BY DEF UseTicket
  <2>3. reader'.answer = given /\ reader.issued = t /\ reader.exp = Expiry(t)
    BY <2>1, <2>2
  <2>4. /\ now \in Nat /\ t \in Nat
        /\ TicksPerSecond \in Nat \ {0} /\ TicketLife \in Nat
        /\ TicketLife * TicksPerSecond \in Nat
    BY <1>1, DeskAssumption DEF DeskInv, LeadsOK, DeskAssumption
  <2> DEFINE e == Expiry(t) * TicksPerSecond
             life == TicketLife * TicksPerSecond
  <2>5. t + life \in Nat
    BY <2>4
  <2>6. e <= t + life /\ e > t + life - TicksPerSecond
    <3>1. /\ ((t + life) \div TicksPerSecond) * TicksPerSecond <= t + life
          /\ ((t + life) \div TicksPerSecond) * TicksPerSecond > t + life - TicksPerSecond
      BY <2>4, <2>5, WholeSeconds
    <3> QED
      BY <3>1 DEF Expiry
  <2>7. e \in Int /\ life \in Nat
    BY <2>4 DEF Expiry
  <2>8. given = "streamed" => ~(e <= now)
    BY <2>2, <2>3 DEF Expired
  <2>9. given = "expired" => e <= now
    BY <2>2, <2>3 DEF Expired
  <2> HIDE DEF e, life
  <2>10. /\ given = "streamed" => now - t < life
         /\ given = "expired" => now - t > life - TicksPerSecond
    BY <2>4, <2>6, <2>7, <2>8, <2>9
  <2>11. /\ reader'.answer = "streamed" => now - reader.issued < life
         /\ reader'.answer = "expired" => now - reader.issued > life - TicksPerSecond
    BY <2>3, <2>10, Zenon
  <2> QED
    BY <2>11, Zenon DEF life
<1> QED
  BY <1>1, DeskInvariant, PTL DEF DeskSpec, TicketLifetime
================================================================================
