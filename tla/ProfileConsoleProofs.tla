------------------------ MODULE ProfileConsoleProofs ------------------------
(***************************************************************************)
(* What ProfileConsole promises for every finite set of profiles and every *)
(* bound, by one inductive invariant.  StoredAsShown and ViewsAgree are    *)
(* inductive with TypeOK.  QuietStatusIsTrue says nothing while a report   *)
(* is on its way, so it is strengthened to what the last report on its way *)
(* says, or the row when there is none (LastReportIsTrue): the console     *)
(* will show that once it has read everything.  A new profile has nothing  *)
(* to do with what the agent did for others, because what the agent, the   *)
(* connection or the console remember of a profile is only of one that was *)
(* listed (OnlyOfKnown).                                                   *)
(***************************************************************************)
EXTENDS ProfileConsole, FiniteSetTheorems, SequenceTheorems, WellFoundedInduction, TLAPS

(* What the console will show for row i when it has read all reports.       *)
Reported(i) ==
  LET reports == toConsole[rows[i].id] IN
  IF reports = <<>> THEN rows[i].status ELSE reports[Len(reports)]

(* It is no lie of profile p. *)
Fits(p, status) ==
  /\ status = "running" => Alive(p) \/ p \in stopReq
  /\ Alive(p) => status # "ended"

LastReportIsTrue ==
  \A i \in DOMAIN rows : LET p == rows[i].id IN
    /\ link = "peer"
    /\ toAgent[p] = <<>>
    /\ p \in synced \/ toConsole[p] # <<>>
    => Fits(p, Reported(i))

OnlyOfKnown ==
  \A p \in Profiles :
    \/ Alive(p) \/ p \in stopReq \/ p \in synced
    \/ toAgent[p] # <<>> \/ toConsole[p] # <<>>
    => p \in Known

IInv ==
  /\ TypeOK
  /\ ViewsAgree
  /\ StoredAsShown
  /\ OnlyOfKnown
  /\ LastReportIsTrue

-----------------------------------------------------------------------------
(* Rows and the database.                                                  *)

Rows == [id : Profiles, status : Statuses]
SavedRows == [status : Statuses, current : BOOLEAN]

Distinct(list) == \A i, j \in DOMAIN list : list[i].id = list[j].id => i = j

IdsOf(list) == {list[i].id : i \in DOMAIN list}

ListType ==
  /\ rows \in Seq(Rows) /\ Distinct(rows)
  /\ selected \in 0..Len(rows) /\ (rows # <<>> => selected # 0)
  /\ DOMAIN stored \subseteq Profiles
  /\ \A p \in DOMAIN stored : stored[p] \in SavedRows
  /\ behind \subseteq Profiles /\ gone \subseteq Profiles

ViewType ==
  /\ checkedSet \subseteq Profiles /\ checkedIds \subseteq Profiles
  /\ onlyChecked \in BOOLEAN
  /\ filter \in [checked : SUBSET Profiles, only : BOOLEAN]

AgentType ==
  /\ link \in {"none", "peer", "replaced", "dead"}
  /\ toAgent \in [Profiles -> Seq({"start", "stop"})]
  /\ toConsole \in [Profiles -> Seq(Statuses)]
  /\ proc \in [Profiles -> {"NotRunning", "Starting", "Running"}]
  /\ stopReq \subseteq Profiles /\ synced \subseteq Profiles

LEMMA TypeParts == TypeOK <=> ListType /\ ViewType /\ AgentType /\ events \in 0..MaxEvents
BY DEF TypeOK, ListType, ViewType, AgentType, Distinct, Rows, SavedRows

(* The row of a profile is the one with its id. *)
LEMMA RowInIs ==
  ASSUME NEW list, Distinct(list), NEW i \in DOMAIN list
  PROVE  RowIn(list, list[i].id) = list[i]
<1>1. PICK k : k = CHOOSE j \in DOMAIN list : list[j].id = list[i].id
  OBVIOUS
<1>2. k \in DOMAIN list /\ list[k].id = list[i].id
  BY <1>1
<1>3. k = i
  BY <1>2 DEF Distinct
<1>4. QED
  BY <1>1, <1>3 DEF RowIn

(* The rows with an id, and each of them as a record. *)
LEMMA RowFacts ==
  ASSUME NEW list \in Seq(Rows)
  PROVE  /\ DOMAIN list = 1..Len(list) /\ Len(list) \in Nat
         /\ \A i \in DOMAIN list : /\ list[i] \in Rows
                                   /\ list[i].id \in Profiles /\ list[i].status \in Statuses
                                   /\ InDb(list[i]) \in SavedRows
         /\ IdsOf(list) \subseteq Profiles
         /\ list = <<>> <=> Len(list) = 0
<1>1. /\ DOMAIN list = 1..Len(list) /\ Len(list) \in Nat
      /\ \A i \in DOMAIN list : list[i] \in Rows
  BY LenProperties, ElementOfSeq
<1>2. \A i \in DOMAIN list : /\ list[i].id \in Profiles /\ list[i].status \in Statuses
                             /\ InDb(list[i]) \in SavedRows
  BY <1>1 DEF Rows, InDb, SavedRows
<1>3. IdsOf(list) \subseteq Profiles
  BY <1>2 DEF IdsOf
<1>4. list = <<>> <=> Len(list) = 0
  BY EmptySeq
<1>5. QED
  BY <1>1, <1>2, <1>3, <1>4

(* Rows that keep their ids and have other statuses. *)
LEMMA SameIds ==
  ASSUME NEW list \in Seq(Rows), Distinct(list), NEW new,
         DOMAIN new = DOMAIN list,
         \A i \in DOMAIN list : new[i] \in Rows /\ new[i].id = list[i].id,
         new = [i \in DOMAIN list |-> new[i]]
  PROVE  /\ new \in Seq(Rows) /\ Distinct(new) /\ Len(new) = Len(list)
         /\ IdsOf(new) = IdsOf(list)
         /\ new = <<>> <=> list = <<>>
<1>1. DOMAIN list = 1..Len(list) /\ Len(list) \in Nat
  BY RowFacts
<1>2. new \in [1..Len(list) -> Rows]
  BY <1>1
<1>3. new \in Seq(Rows)
  BY <1>1, <1>2, SeqDef
<1>4. Len(new) = Len(list)
  BY <1>1, <1>3, LenProperties
<1>5. Distinct(new) /\ IdsOf(new) = IdsOf(list)
  BY DEF Distinct, IdsOf
<1>6. QED
  BY <1>3, <1>4, <1>5, RowFacts

(* Writing rows ids leaves the database as the list shows it, but for the   *)
(* refused ones, when it was so for the others.                             *)
LEMMA PersistWorks ==
  ASSUME ListType, rows' \in Seq(Rows), Distinct(rows'),
         NEW ids \in SUBSET IdsOf(rows'), NEW old,
         \A p \in DOMAIN stored : old[p] \in SavedRows,
         persistProfile(ids, old),
         gone' = gone, gone \cap (IdsOf(rows') \cup DOMAIN stored) = {},
         \A i \in DOMAIN rows' :
           rows'[i].id \notin ids /\ rows'[i].id \notin behind =>
             rows'[i].id \in DOMAIN stored /\ old[rows'[i].id] = InDb(rows'[i])
  PROVE  /\ behind' \subseteq Profiles
         /\ DOMAIN stored' \subseteq Profiles
         /\ \A p \in DOMAIN stored' : stored'[p] \in SavedRows
         /\ DOMAIN stored \subseteq DOMAIN stored'
         /\ StoredAsShown'
<1>1. PICK failed \in SUBSET ids :
        /\ behind' = (behind \ ids) \cup failed
        /\ stored' = [p \in DOMAIN stored \cup (ids \ failed) |->
                        IF p \in ids \ failed THEN InDb(RowIn(rows', p)) ELSE old[p]]
  BY DEF persistProfile
<1>2. ids \subseteq Profiles
  BY RowFacts
<1>3. \A i \in DOMAIN rows' : RowIn(rows', rows'[i].id) = rows'[i]
  BY RowInIs
<1>4. DOMAIN stored' = DOMAIN stored \cup (ids \ failed)
  BY <1>1
<1>5. \A p \in DOMAIN stored' :
        stored'[p] = IF p \in ids \ failed THEN InDb(RowIn(rows', p)) ELSE old[p]
  BY <1>1
<1>6. \A p \in DOMAIN stored' : stored'[p] \in SavedRows
  <2>1. TAKE p \in DOMAIN stored'
  <2>2. CASE p \in ids \ failed
    <3>1. PICK i \in DOMAIN rows' : rows'[i].id = p
      BY <2>2 DEF IdsOf
    <3>2. stored'[p] = InDb(rows'[i])
      BY <1>3, <1>5, <2>2, <3>1
    <3>3. QED
      BY <3>2, RowFacts
  <2>3. CASE p \notin ids \ failed
    BY <1>4, <1>5, <2>3
  <2>4. QED
    BY <2>2, <2>3
<1>7. behind' \subseteq Profiles /\ DOMAIN stored' \subseteq Profiles
  BY <1>1, <1>2, <1>4 DEF ListType
<1>8. ASSUME NEW i \in DOMAIN rows', rows'[i].id \notin behind'
      PROVE  rows'[i].id \in DOMAIN stored' /\ stored'[rows'[i].id] = InDb(rows'[i])
  <2>1. CASE rows'[i].id \in ids
    <3>1. rows'[i].id \in ids \ failed
      BY <1>1, <1>8, <2>1
    <3>2. QED
      BY <1>3, <1>4, <1>5, <3>1
  <2>2. CASE rows'[i].id \notin ids
    <3>1. rows'[i].id \notin behind
      BY <1>1, <1>8, <2>2
    <3>2. QED
      BY <1>4, <1>5, <2>2, <3>1
  <2>3. QED
    BY <2>1, <2>2
<1>9. gone' \cap (Listed' \cup DOMAIN stored') = {}
  <2>1. Listed' = IdsOf(rows')
    BY DEF Listed, IdsOf
  <2>2. QED
    BY <1>4, <2>1
<1>10. QED
  BY <1>4, <1>6, <1>7, <1>8, <1>9 DEF StoredAsShown

(* A status is written to some of the listed profiles. *)
LEMMA StatusWritten ==
  ASSUME ListType, StoredAsShown, NEW ids, NEW status \in Statuses,
         updateStatus(ids, status), UNCHANGED <<selected, gone>>
  PROVE  /\ ListType' /\ StoredAsShown'
         /\ Listed' = Listed /\ Known \subseteq Known'
         /\ DOMAIN rows' = DOMAIN rows
         /\ \A i \in DOMAIN rows :
              /\ rows'[i].id = rows[i].id
              /\ rows'[i].status = IF rows[i].id \in ids THEN status ELSE rows[i].status
<1>1. /\ rows \in Seq(Rows) /\ Distinct(rows)
      /\ rows' = [i \in DOMAIN rows |->
                    IF rows[i].id \in ids THEN [rows[i] EXCEPT !.status = status] ELSE rows[i]]
      /\ persistProfile(ids \cap Listed, stored)
  BY DEF ListType, updateStatus
<1>2. \A i \in DOMAIN rows : rows[i] \in Rows
  BY <1>1, RowFacts
<1>3. \A i \in DOMAIN rows :
        /\ rows'[i] \in Rows
        /\ rows'[i].id = rows[i].id
        /\ rows'[i].status = IF rows[i].id \in ids THEN status ELSE rows[i].status
        /\ rows[i].id \notin ids => rows'[i] = rows[i]
  BY <1>1, <1>2 DEF Rows
<1>4. DOMAIN rows' = DOMAIN rows /\ rows' = [i \in DOMAIN rows |-> rows'[i]]
  BY <1>1
<1>5. /\ rows' \in Seq(Rows) /\ Distinct(rows') /\ Len(rows') = Len(rows)
      /\ IdsOf(rows') = IdsOf(rows)
      /\ rows' = <<>> <=> rows = <<>>
  <2>1. PICK list \in Seq(Rows) : list = rows
    BY <1>1
  <2>2. PICK new : new = rows'
    OBVIOUS
  <2>3. /\ Distinct(list) /\ DOMAIN new = DOMAIN list
        /\ \A i \in DOMAIN list : new[i] \in Rows /\ new[i].id = list[i].id
        /\ new = [i \in DOMAIN list |-> new[i]]
    BY <1>1, <1>3, <1>4, <2>1, <2>2
  <2>4. /\ new \in Seq(Rows) /\ Distinct(new) /\ Len(new) = Len(list)
        /\ IdsOf(new) = IdsOf(list)
        /\ new = <<>> <=> list = <<>>
    BY <2>3, SameIds
  <2>5. QED
    BY <2>1, <2>2, <2>4
<1>6. Listed = IdsOf(rows) /\ Listed' = IdsOf(rows')
  BY DEF Listed, IdsOf
<1>7. PICK written \in SUBSET IdsOf(rows') : written = ids \cap Listed
  BY <1>5, <1>6
<1>8. PICK old : old = stored
  OBVIOUS
<1>9. /\ behind' \subseteq Profiles
      /\ DOMAIN stored' \subseteq Profiles
      /\ \A p \in DOMAIN stored' : stored'[p] \in SavedRows
      /\ DOMAIN stored \subseteq DOMAIN stored'
      /\ StoredAsShown'
  <2>1. persistProfile(written, old) /\ \A p \in DOMAIN stored : old[p] \in SavedRows
    BY <1>1, <1>7, <1>8 DEF ListType
  <2>2. gone' = gone /\ gone \cap (IdsOf(rows') \cup DOMAIN stored) = {}
    BY <1>5, <1>6 DEF StoredAsShown
  <2>3. \A i \in DOMAIN rows' :
          rows'[i].id \notin written /\ rows'[i].id \notin behind =>
            rows'[i].id \in DOMAIN stored /\ old[rows'[i].id] = InDb(rows'[i])
    <3>1. SUFFICES ASSUME NEW i \in DOMAIN rows, rows[i].id \notin written, rows[i].id \notin behind
                   PROVE  rows[i].id \in DOMAIN stored /\ stored[rows[i].id] = InDb(rows'[i])
      BY <1>3, <1>4, <1>8
    <3>2. rows[i].id \in Listed
      BY DEF Listed
    <3>3. rows'[i] = rows[i]
      BY <1>3, <1>7, <3>1, <3>2
    <3>4. QED
      BY <3>1, <3>3 DEF StoredAsShown
  <2>4. QED
    BY <1>5, <2>1, <2>2, <2>3, PersistWorks
<1>10. ListType'
  BY <1>5, <1>9 DEF ListType
<1>11. Listed' = Listed /\ Known \subseteq Known'
  BY <1>5, <1>6, <1>9 DEF Known
<1>12. QED
  BY <1>3, <1>4, <1>9, <1>10, <1>11

(* Listed profiles are edited. *)
LEMMA Edited ==
  ASSUME ListType, StoredAsShown, NEW ids, edit(ids), UNCHANGED <<selected, gone>>
  PROVE  ListType' /\ StoredAsShown' /\ rows' = rows /\ Known \subseteq Known'
<1>1. /\ rows \in Seq(Rows) /\ Distinct(rows) /\ rows' = rows
      /\ persistProfile(ids \cap Listed,
           [p \in DOMAIN stored |->
              IF p \in ids THEN [stored[p] EXCEPT !.current = FALSE] ELSE stored[p]])
  BY DEF ListType, edit
<1>2. PICK old : old = [p \in DOMAIN stored |->
                          IF p \in ids THEN [stored[p] EXCEPT !.current = FALSE] ELSE stored[p]]
  OBVIOUS
<1>3. Listed = IdsOf(rows) /\ IdsOf(rows') = IdsOf(rows)
  BY <1>1 DEF Listed, IdsOf
<1>4. PICK written \in SUBSET IdsOf(rows') : written = ids \cap Listed
  BY <1>3
<1>5. /\ behind' \subseteq Profiles
      /\ DOMAIN stored' \subseteq Profiles
      /\ \A p \in DOMAIN stored' : stored'[p] \in SavedRows
      /\ DOMAIN stored \subseteq DOMAIN stored'
      /\ StoredAsShown'
  <2>1. persistProfile(written, old)
    BY <1>1, <1>2, <1>4
  <2>2. \A p \in DOMAIN stored : old[p] \in SavedRows
    BY <1>2 DEF ListType, SavedRows
  <2>3. gone' = gone /\ gone \cap (IdsOf(rows') \cup DOMAIN stored) = {}
    BY <1>3 DEF StoredAsShown
  <2>4. \A i \in DOMAIN rows' :
          rows'[i].id \notin written /\ rows'[i].id \notin behind =>
            rows'[i].id \in DOMAIN stored /\ old[rows'[i].id] = InDb(rows'[i])
    <3>1. SUFFICES ASSUME NEW i \in DOMAIN rows, rows[i].id \notin written, rows[i].id \notin behind
                   PROVE  rows[i].id \in DOMAIN stored /\ old[rows[i].id] = InDb(rows[i])
      BY <1>1
    <3>2. rows[i].id \notin ids
      BY <1>4, <3>1 DEF Listed
    <3>3. QED
      BY <1>2, <3>1, <3>2 DEF StoredAsShown
  <2>5. QED
    BY <1>1, <2>1, <2>2, <2>3, <2>4, PersistWorks
<1>6. ListType'
  BY <1>1, <1>5 DEF ListType
<1>7. Known \subseteq Known'
  BY <1>1, <1>5 DEF Known, Listed
<1>8. QED
  BY <1>1, <1>5, <1>6, <1>7

-----------------------------------------------------------------------------
(* What is left of the list when profiles are deleted. *)

(* left has the first n rows, without ids. *)
LeftOf(left, n, ids) ==
  /\ left \in Seq(Rows) /\ Len(left) <= n
  /\ Distinct(left)
  /\ \A k \in DOMAIN left : \E i \in 1..n : left[k] = rows[i] /\ rows[i].id \notin ids
  /\ \A i \in 1..n : rows[i].id \notin ids => \E k \in DOMAIN left : left[k] = rows[i]

LEMMA NoneLeft == ASSUME NEW ids PROVE LeftOf(<<>>, 0, ids)
<1>1. <<>> \in Seq(Rows) /\ Len(<<>>) = 0
  BY EmptySeq
<1>2. DOMAIN <<>> = {}
  BY <1>1, RowFacts
<1>3. QED
  BY <1>1, <1>2 DEF LeftOf, Distinct

LEMMA OneMoreLeft ==
  ASSUME ListType, NEW ids, NEW n \in DOMAIN rows, NEW left, LeftOf(left, n - 1, ids),
         NEW more, more = IF rows[n].id \in ids THEN left ELSE Append(left, rows[n])
  PROVE  LeftOf(more, n, ids)
<1>1. /\ rows \in Seq(Rows) /\ Distinct(rows)
      /\ DOMAIN rows = 1..Len(rows) /\ Len(rows) \in Nat /\ rows[n] \in Rows
  BY RowFacts DEF ListType
<1>2. left \in Seq(Rows) /\ Len(left) \in Nat /\ DOMAIN left = 1..Len(left)
  BY RowFacts DEF LeftOf
<1>3. n \in Nat /\ n - 1 \in Nat /\ 1..n = (1..(n - 1)) \cup {n} /\ n \in 1..n
  BY <1>1
<1>4. CASE rows[n].id \in ids
  <2>1. \A k \in DOMAIN left : \E i \in 1..n : left[k] = rows[i] /\ rows[i].id \notin ids
    BY <1>3 DEF LeftOf
  <2>2. \A i \in 1..n : rows[i].id \notin ids => i \in 1..(n - 1)
    BY <1>3, <1>4
  <2>3. \A i \in 1..n : rows[i].id \notin ids => \E k \in DOMAIN left : left[k] = rows[i]
    BY <2>2 DEF LeftOf
  <2>4. Len(left) <= n
    BY <1>2, <1>3 DEF LeftOf
  <2>5. QED
    BY <1>4, <2>1, <2>3, <2>4 DEF LeftOf
<1>5. CASE rows[n].id \notin ids
  <2>1. more = Append(left, rows[n])
    BY <1>5
  <2>2. /\ more \in Seq(Rows) /\ Len(more) = Len(left) + 1
        /\ \A k \in 1..Len(left) : more[k] = left[k]
        /\ more[Len(left) + 1] = rows[n]
    BY <1>1, <1>2, <2>1, AppendProperties
  <2>3. DOMAIN more = DOMAIN left \cup {Len(left) + 1}
    BY <1>2, <2>2, RowFacts
  <2>4. \A k \in DOMAIN left : more[k] = left[k]
    BY <1>2, <2>2
  <2>5. \A k \in DOMAIN left : \E i \in 1..(n - 1) : left[k] = rows[i] /\ rows[i].id \notin ids
    BY DEF LeftOf
  <2>6. \A k \in DOMAIN left : left[k].id # rows[n].id
    <3>1. SUFFICES ASSUME NEW k \in DOMAIN left PROVE left[k].id # rows[n].id
      OBVIOUS
    <3>2. PICK i \in 1..(n - 1) : left[k] = rows[i]
      BY <2>5
    <3>3. i \in DOMAIN rows /\ i # n
      BY <1>1, <1>3
    <3>4. QED
      BY <1>1, <3>2, <3>3 DEF Distinct
  <2>7. Distinct(more)
    <3>1. SUFFICES ASSUME NEW k \in DOMAIN more, NEW l \in DOMAIN more, more[k].id = more[l].id
                   PROVE  k = l
      BY DEF Distinct
    <3>2. CASE k \in DOMAIN left /\ l \in DOMAIN left
      BY <2>4, <3>1, <3>2 DEF LeftOf, Distinct
    <3>3. CASE k = Len(left) + 1 /\ l \in DOMAIN left
      BY <2>2, <2>4, <2>6, <3>1, <3>3
    <3>4. CASE k \in DOMAIN left /\ l = Len(left) + 1
      BY <2>2, <2>4, <2>6, <3>1, <3>4
    <3>5. QED
      BY <2>3, <3>2, <3>3, <3>4
  <2>8. \A k \in DOMAIN more : \E i \in 1..n : more[k] = rows[i] /\ rows[i].id \notin ids
    <3>1. TAKE k \in DOMAIN more
    <3>2. CASE k \in DOMAIN left
      BY <1>3, <2>4, <2>5, <3>2
    <3>3. CASE k = Len(left) + 1
      BY <1>3, <1>5, <2>2, <3>3
    <3>4. QED
      BY <2>3, <3>2, <3>3
  <2>9. \A i \in 1..n : rows[i].id \notin ids => \E k \in DOMAIN more : more[k] = rows[i]
    <3>1. SUFFICES ASSUME NEW i \in 1..n, rows[i].id \notin ids
                   PROVE  \E k \in DOMAIN more : more[k] = rows[i]
      OBVIOUS
    <3>2. CASE i = n
      BY <2>2, <2>3, <3>2
    <3>3. CASE i \in 1..(n - 1)
      <4>1. PICK k \in DOMAIN left : left[k] = rows[i]
        BY <3>1, <3>3 DEF LeftOf
      <4>2. QED
        BY <2>3, <2>4, <4>1
    <3>4. QED
      BY <1>3, <3>2, <3>3
  <2>10. Len(more) <= n
    BY <1>2, <1>3, <2>2 DEF LeftOf
  <2>11. QED
    BY <2>2, <2>7, <2>8, <2>9, <2>10 DEF LeftOf
<1>6. QED
  BY <1>4, <1>5

LEMMA Least ==
  ASSUME NEW T \in SUBSET Nat, T # {}
  PROVE  \E x \in T : \A y \in T : x <= y
<1> DEFINE R == OpToRel(<, Nat)
<1>1. R = {ss \in Nat \X Nat : ss[1] < ss[2]}
  BY DEF OpToRel
<1> HIDE DEF R
<1>2. IsWellFoundedOn(R, Nat)
  BY NatLessThanWellFounded DEF R
<1>3. PICK x \in T : \A y \in T : <<y, x>> \notin R
  BY <1>2, WFMin
<1>4. \A y \in T : ~(y < x)
  BY <1>1, <1>3
<1>5. QED
  BY <1>4

(* What the recursion of without says of row i, from what g says of the one *)
(* before.                                                                  *)
LeftAfter(g, i, ids) ==
  IF i = 0 THEN <<>>
  ELSE IF rows[i].id \in ids THEN g[i - 1] ELSE Append(g[i - 1], rows[i])

(* The recursion has a solution: one for the first n rows is extended by    *)
(* one more.                                                                *)
LEMMA LeftExists ==
  ASSUME ListType, NEW ids
  PROVE  \E g : g = [i \in 0..Len(rows) |-> LeftAfter(g, i, ids)]
<1> DEFINE Solved(n) == \E g : /\ g = [i \in 0..Len(rows) |-> g[i]]
                               /\ \A i \in 0..Len(rows) : i <= n => g[i] = LeftAfter(g, i, ids)
           Unsolved == {n \in Nat : ~Solved(n)}
<1>1. Len(rows) \in Nat
  BY RowFacts DEF ListType
<1>2. ASSUME NEW n \in Nat, n = 0 \/ Solved(n - 1) PROVE Solved(n)
  <2>1. PICK g : \A i \in 0..Len(rows) : i < n => g[i] = LeftAfter(g, i, ids)
    <3>1. CASE n = 0
      BY <1>1, <3>1
    <3>2. CASE n # 0
      <4>1. PICK g : \A i \in 0..Len(rows) : i <= n - 1 => g[i] = LeftAfter(g, i, ids)
        BY <1>2, <3>2
      <4>2. \A i \in 0..Len(rows) : i < n => i <= n - 1
        BY <1>1
      <4>3. QED
        BY <4>1, <4>2
    <3>3. QED
      BY <3>1, <3>2
  <2>2. PICK h : h = [i \in 0..Len(rows) |-> IF i < n THEN g[i] ELSE LeftAfter(g, i, ids)]
    OBVIOUS
  <2>3. h = [i \in 0..Len(rows) |-> h[i]]
    BY <2>2
  <2>4. ASSUME NEW i \in 0..Len(rows), i <= n PROVE h[i] = LeftAfter(h, i, ids)
    <3>1. i # 0 => i - 1 \in 0..Len(rows) /\ i - 1 < n
      BY <1>1, <2>4
    <3>2. i # 0 => h[i - 1] = g[i - 1]
      BY <2>2, <3>1
    <3>3. LeftAfter(h, i, ids) = LeftAfter(g, i, ids)
      BY <3>2 DEF LeftAfter
    <3>4. h[i] = LeftAfter(g, i, ids)
      BY <2>1, <2>2
    <3>5. QED
      BY <3>3, <3>4
  <2>5. QED
    BY <2>3, <2>4
<1>3. Unsolved = {}
  <2>1. SUFFICES ASSUME Unsolved # {} PROVE FALSE
    OBVIOUS
  <2>2. PICK n \in Unsolved : \A m \in Unsolved : n <= m
    BY <2>1, Least
  <2>3. n \in Nat /\ ~Solved(n)
    OBVIOUS
  <2> HIDE DEF Solved
  <2>4. n = 0 \/ Solved(n - 1)
    BY <2>2, <2>3
  <2>5. QED
    BY <1>2, <2>3, <2>4
<1>4. PICK g : /\ g = [i \in 0..Len(rows) |-> g[i]]
               /\ \A i \in 0..Len(rows) : i <= Len(rows) => g[i] = LeftAfter(g, i, ids)
  BY <1>1, <1>3
<1>5. \A i \in 0..Len(rows) : g[i] = LeftAfter(g, i, ids)
  BY <1>1, <1>4
<1>6. [i \in 0..Len(rows) |-> g[i]] = [i \in 0..Len(rows) |-> LeftAfter(g, i, ids)]
  BY <1>5
<1>7. QED
  BY <1>4, <1>6

(* Deleting leaves the other rows, once each. *)
LEMMA WithoutWorks ==
  ASSUME ListType, NEW ids
  PROVE  LeftOf(without(ids), Len(rows), ids)
<1> DEFINE h == CHOOSE g : g = [i \in 0..Len(rows) |-> LeftAfter(g, i, ids)]
           Bad == {n \in Nat : n <= Len(rows) /\ ~LeftOf(h[n], n, ids)}
<1>1. without(ids) = h[Len(rows)]
  BY DEF without, LeftAfter
<1>2. h = [i \in 0..Len(rows) |-> LeftAfter(h, i, ids)]
  BY LeftExists
<1> HIDE DEF h
<1>3. \A i \in 0..Len(rows) : h[i] = LeftAfter(h, i, ids)
  BY <1>2
<1>4. Len(rows) \in Nat /\ DOMAIN rows = 1..Len(rows)
  BY RowFacts DEF ListType
<1>5. Bad = {}
  <2>1. SUFFICES ASSUME Bad # {} PROVE FALSE
    OBVIOUS
  <2>2. PICK n \in Bad : \A m \in Bad : n <= m
    BY <2>1, Least
  <2>3. n \in 0..Len(rows) /\ ~LeftOf(h[n], n, ids)
    BY <1>4
  <2>4. CASE n = 0
    <3>1. h[0] = <<>>
      BY <1>3, <2>3, <2>4 DEF LeftAfter
    <3>2. QED
      BY <2>3, <2>4, <3>1, NoneLeft
  <2>5. CASE n # 0
    <3>1. n \in DOMAIN rows /\ n - 1 \in Nat /\ n - 1 <= Len(rows) /\ n - 1 < n
      BY <1>4, <2>3, <2>5
    <3>2. LeftOf(h[n - 1], n - 1, ids)
      BY <2>2, <3>1
    <3>3. h[n] = IF rows[n].id \in ids THEN h[n - 1] ELSE Append(h[n - 1], rows[n])
      BY <1>3, <2>3, <2>5 DEF LeftAfter
    <3>4. LeftOf(h[n], n, ids)
      BY <3>1, <3>2, <3>3, OneMoreLeft
    <3>5. QED
      BY <2>3, <3>4
  <2>6. QED
    BY <2>4, <2>5
<1>6. Len(rows) \notin Bad
  BY <1>5
<1>7. QED
  BY <1>1, <1>4, <1>6

(* The listed profiles are the others, with the rows they had. *)
LEMMA DeletedRows ==
  ASSUME ListType, NEW removed, rows' = without(removed)
  PROVE  /\ rows' \in Seq(Rows) /\ Distinct(rows')
         /\ Len(rows') \in Nat /\ Len(rows') <= Len(rows)
         /\ Listed' = Listed \ removed
         /\ \A i \in DOMAIN rows' : \E j \in DOMAIN rows : rows'[i] = rows[j]
<1>1. LeftOf(rows', Len(rows), removed)
  BY WithoutWorks
<1>2. DOMAIN rows = 1..Len(rows)
  BY RowFacts DEF ListType
<1>3. rows' \in Seq(Rows) /\ Distinct(rows') /\ Len(rows') \in Nat /\ Len(rows') <= Len(rows)
  BY <1>1, RowFacts DEF LeftOf
<1>4. \A i \in DOMAIN rows' : \E j \in DOMAIN rows : rows'[i] = rows[j] /\ rows[j].id \notin removed
  BY <1>1, <1>2 DEF LeftOf
<1>5. \A j \in DOMAIN rows : rows[j].id \notin removed => \E i \in DOMAIN rows' : rows'[i] = rows[j]
  BY <1>1, <1>2 DEF LeftOf
<1>6. Listed' = Listed \ removed
  <2>1. \A x \in Listed' : x \in Listed \ removed
    BY <1>4 DEF Listed
  <2>2. \A x \in Listed \ removed : x \in Listed'
    <3>1. TAKE x \in Listed \ removed
    <3>2. PICK j \in DOMAIN rows : rows[j].id = x
      BY DEF Listed
    <3>3. PICK i \in DOMAIN rows' : rows'[i] = rows[j]
      BY <1>5, <3>2
    <3>4. QED
      BY <3>2, <3>3 DEF Listed
  <2>3. QED
    BY <2>1, <2>2
<1>7. QED
  BY <1>3, <1>4, <1>6

-----------------------------------------------------------------------------
(* What is read from the database: every profile of it, once. *)
LEMMA LoadedRows ==
  ASSUME NEW db, DOMAIN db \subseteq Profiles, \A p \in DOMAIN db : db[p] \in SavedRows,
         NEW order \in Loaded(db), NEW list, list = [i \in DOMAIN order |-> RowOf(db, order[i])]
  PROVE  /\ list \in Seq(Rows) /\ Distinct(list)
         /\ IdsOf(list) = DOMAIN db
         /\ \A i \in DOMAIN list : list[i].status = db[list[i].id].status
         /\ DOMAIN db # {} => list # <<>> /\ 1 \in 0..Len(list)
<1> DEFINE S == DOMAIN db
           n == Cardinality(S)
<1>1. IsFiniteSet(S) /\ n \in Nat
  BY ProfilesFinite, FS_Subset, FS_CardinalityType
<1>2. order \in [1..n -> S] /\ \A p \in S : \E i \in 1..n : order[i] = p
  BY DEF Loaded
<1>3. IsFiniteSet(1..n) /\ Cardinality(1..n) = n
  <2>1. 1 \in Int /\ n \in Int
    BY <1>1
  <2>2. IsFiniteSet(1..n) /\ Cardinality(1..n) = IF 1 > n THEN 0 ELSE n - 1 + 1
    BY <2>1, FS_Interval
  <2>3. QED
    BY <1>1, <2>2
<1>4. order \in Injection(1..n, S)
  <2>1. order \in Surjection(1..n, S)
    BY <1>2 DEF Surjection
  <2>2. QED
    BY <1>3, <2>1, FS_SurjSameCardinalityImpliesInj
<1>5. \A i, j \in 1..n : order[i] = order[j] => i = j
  BY <1>4 DEF Injection, IsInjective
<1>6. /\ DOMAIN list = 1..n
      /\ \A i \in 1..n : list[i] = [id |-> order[i], status |-> db[order[i]].status]
  BY <1>2 DEF RowOf
<1>7. \A i \in 1..n : list[i] \in Rows
  BY <1>2, <1>6 DEF Rows, SavedRows
<1>8. list \in [1..n -> Rows]
  BY <1>2, <1>6, <1>7
<1>9. list \in Seq(Rows)
  BY <1>1, <1>8, SeqDef
<1>10. Distinct(list)
  BY <1>5, <1>6 DEF Distinct
<1>11. IdsOf(list) = S
  <2>1. \A i \in DOMAIN list : list[i].id = order[i] /\ order[i] \in S
    BY <1>2, <1>6
  <2>2. \A p \in S : \E i \in DOMAIN list : list[i].id = p
    BY <1>2, <1>6
  <2> HIDE DEF S
  <2>3. QED
    BY <2>1, <2>2 DEF IdsOf
<1>12. \A i \in DOMAIN list : list[i].status = db[list[i].id].status
  BY <1>6
<1>13. S # {} => list # <<>> /\ 1 \in 0..Len(list)
  <2>1. S # {} => n # 0
    BY <1>1, FS_EmptySet
  <2>2. Len(list) = n
    BY <1>6, <1>9, <1>1, LenProperties
  <2>3. QED
    BY <1>1, <1>9, <2>1, <2>2, RowFacts
<1>14. QED
  BY <1>9, <1>10, <1>11, <1>12, <1>13

(* A restarted console shows what the database holds, or a default profile  *)
(* that was never there.                                                    *)
LEMMA LoadProfilesWorks ==
  ASSUME ListType, gone \cap DOMAIN stored = {}, loadProfiles, UNCHANGED gone,
         selected' = IF rows' = <<>> THEN 0 ELSE 1
  PROVE  ListType' /\ StoredAsShown'
<1>1. /\ DOMAIN stored \subseteq Profiles /\ \A p \in DOMAIN stored : stored[p] \in SavedRows
      /\ behind \subseteq Profiles /\ gone \subseteq Profiles
  BY DEF ListType
<1>2. CASE /\ DOMAIN stored # {}
           /\ \E order \in Loaded(stored) : rows' = [i \in DOMAIN order |-> RowOf(stored, order[i])]
           /\ stored' = [p \in DOMAIN stored |-> [stored[p] EXCEPT !.current = TRUE]]
           /\ behind' = {}
  <2>1. PICK db : db = stored
    OBVIOUS
  <2>2. PICK order \in Loaded(db) : rows' = [i \in DOMAIN order |-> RowOf(db, order[i])]
    BY <1>2, <2>1
  <2>3. PICK list : list = rows'
    OBVIOUS
  <2>4. DOMAIN db \subseteq Profiles /\ \A p \in DOMAIN db : db[p] \in SavedRows
    BY <1>1, <2>1
  <2>5. /\ list \in Seq(Rows) /\ Distinct(list)
        /\ IdsOf(list) = DOMAIN db
        /\ \A i \in DOMAIN list : list[i].status = db[list[i].id].status
        /\ DOMAIN db # {} => list # <<>> /\ 1 \in 0..Len(list)
    BY <2>2, <2>3, <2>4, LoadedRows
  <2>6. \A p \in DOMAIN db : stored'[p] = [status |-> db[p].status, current |-> TRUE]
    BY <1>2, <2>1, <2>4 DEF SavedRows
  <2>7. DOMAIN stored' = DOMAIN db /\ \A p \in DOMAIN stored' : stored'[p] \in SavedRows
    BY <1>2, <2>1, <2>4, <2>6 DEF SavedRows
  <2>8. selected' = 1
    BY <1>2, <2>1, <2>3, <2>5
  <2>9. ListType'
    BY <1>1, <1>2, <2>1, <2>3, <2>5, <2>7, <2>8 DEF ListType
  <2>10. \A i \in DOMAIN list : list[i].id \in DOMAIN db
    BY <2>5 DEF IdsOf
  <2>11. \A i \in DOMAIN list : stored'[list[i].id] = InDb(list[i])
    BY <2>5, <2>6, <2>10 DEF InDb
  <2>12. gone' \cap (Listed' \cup DOMAIN stored') = {}
    BY <2>1, <2>3, <2>5, <2>7 DEF Listed, IdsOf
  <2>13. StoredAsShown'
    BY <2>3, <2>7, <2>10, <2>11, <2>12 DEF StoredAsShown
  <2>14. QED
    BY <2>9, <2>13
<1>3. ASSUME NEW p \in New, rows' = <<makeDefault(p)>>,
             \/ stored' = stored /\ behind' = {p}
             \/ stored' = [q \in DOMAIN stored \cup {p} |->
                             IF q = p THEN InDb(makeDefault(p)) ELSE stored[q]] /\ behind' = {}
      PROVE  ListType' /\ StoredAsShown'
  <2>1. p \in Profiles /\ p \notin gone
    BY DEF New, Known
  <2>2. makeDefault(p) \in Rows /\ makeDefault(p).id = p /\ InDb(makeDefault(p)) \in SavedRows
    BY <2>1 DEF makeDefault, Rows, InDb, SavedRows, Statuses
  <2>3. PICK row \in Rows : row = makeDefault(p)
    BY <2>2
  <2>4. /\ rows' \in Seq(Rows) /\ Len(rows') = 1 /\ rows' # <<>>
        /\ DOMAIN rows' = {1} /\ rows'[1] = row
    BY <1>3, <2>3
  <2>5. /\ DOMAIN stored' \subseteq DOMAIN stored \cup {p}
        /\ \A q \in DOMAIN stored' : stored'[q] \in SavedRows
        /\ behind' \subseteq {p}
        /\ p \notin behind' => p \in DOMAIN stored' /\ stored'[p] = InDb(row)
    BY <1>1, <1>3, <2>2, <2>3
  <2>6. selected' = 1
    BY <2>4
  <2>7. ListType'
    <3>1. Distinct(rows')
      BY <2>4 DEF Distinct
    <3>2. selected' \in 0..Len(rows')
      BY <2>4, <2>6
    <3>3. QED
      BY <1>1, <2>1, <2>4, <2>5, <2>6, <3>1, <3>2 DEF ListType
  <2>8. Listed' = {p}
    BY <2>2, <2>3, <2>4 DEF Listed
  <2>9. StoredAsShown'
    BY <2>1, <2>2, <2>3, <2>4, <2>5, <2>8 DEF StoredAsShown
  <2>10. QED
    BY <2>7, <2>9
<1>4. CASE rows' = <<>> /\ behind' = {} /\ UNCHANGED stored
  <2>1. rows' \in Seq(Rows) /\ Len(rows') = 0 /\ DOMAIN rows' = {}
    <3>1. <<>> \in Seq(Rows) /\ Len(<<>>) = 0
      BY EmptySeq
    <3>2. DOMAIN <<>> = {}
      BY <3>1, RowFacts
    <3>3. QED
      BY <1>4, <3>1, <3>2
  <2>2. selected' = 0
    BY <1>4
  <2>3. ListType'
    BY <1>1, <1>4, <2>1, <2>2 DEF ListType, Distinct
  <2>4. StoredAsShown'
    BY <1>4, <2>1 DEF StoredAsShown, Listed
  <2>5. QED
    BY <2>3, <2>4
<1>5. QED
  BY <1>2, <1>3, <1>4 DEF loadProfiles

-----------------------------------------------------------------------------
(* The checked profiles.                                                   *)

(* All copies are set to ids, or are ids already. *)
LEMMA EmitWorks ==
  ASSUME ViewType, ViewsAgree, NEW ids \in SUBSET Profiles, ids \subseteq Listed',
         emitCheckedProfileIds(ids)
  PROVE  ViewType' /\ ViewsAgree'
<1>1. /\ onlyChecked \in BOOLEAN /\ filter \in [checked : SUBSET Profiles, only : BOOLEAN]
      /\ filter.only \in BOOLEAN
      /\ filter.checked = checkedIds /\ filter.only = onlyChecked
  BY DEF ViewType, ViewsAgree
<1>2. checkedSet' = ids /\ checkedIds' = ids
  BY DEF emitCheckedProfileIds
<1>3. CASE ids = checkedIds
  <2>1. onlyChecked' = onlyChecked /\ filter' = filter
    BY <1>3 DEF emitCheckedProfileIds
  <2>2. QED
    BY <1>1, <1>2, <1>3, <2>1 DEF ViewType, ViewsAgree
<1>4. CASE ids # checkedIds
  <2>1. PICK off \in BOOLEAN : off = (onlyChecked /\ ids = {})
    OBVIOUS
  <2>2. /\ onlyChecked' = (onlyChecked /\ ~off)
        /\ filter' = [checked |-> ids, only |-> filter.only /\ ~off]
    BY <1>4, <2>1 DEF emitCheckedProfileIds
  <2>3. onlyChecked' \in BOOLEAN
    BY <2>2
  <2>4. filter' = [checked |-> ids, only |-> onlyChecked']
    BY <1>1, <2>2
  <2>5. filter' \in [checked : SUBSET Profiles, only : BOOLEAN]
    BY <2>3, <2>4
  <2>6. filter'.checked = ids /\ filter'.only = onlyChecked'
    BY <2>4
  <2>7. QED
    BY <1>2, <2>3, <2>5, <2>6 DEF ViewType, ViewsAgree
<1>5. QED
  BY <1>3, <1>4

(* Nothing is checked or unchecked, and no listed profile is lost. *)
LEMMA ViewsSame ==
  ASSUME ViewType, ViewsAgree, UNCHANGED checkVars, Listed \subseteq Listed'
  PROVE  ViewType' /\ ViewsAgree'
BY DEF ViewType, ViewsAgree, checkVars

(* The console, just started, satisfies the inductive invariant. *)
LEMMA InitIInv == Init => IInv
<1> SUFFICES ASSUME Init PROVE IInv
  OBVIOUS
<1>1. PICK imported \in (SUBSET Profiles) \ {{}}, s \in {"ended", "running"} :
        stored = [p \in imported |-> [status |-> s, current |-> TRUE]]
  BY DEF Init
<1>2. PICK db : db = stored
  OBVIOUS
<1>3. PICK order \in Loaded(db) : rows = [i \in DOMAIN order |-> RowOf(db, order[i])]
  BY <1>2 DEF Init
<1>4. DOMAIN db = imported /\ imported \subseteq Profiles /\ imported # {}
  BY <1>1, <1>2
<1>5. \A p \in DOMAIN db : db[p] \in SavedRows /\ db[p].current = TRUE
  BY <1>1, <1>2 DEF SavedRows, Statuses
<1>6. PICK list : list = rows
  OBVIOUS
<1>7. /\ list \in Seq(Rows) /\ Distinct(list)
      /\ IdsOf(list) = DOMAIN db
      /\ \A i \in DOMAIN list : list[i].status = db[list[i].id].status
      /\ DOMAIN db # {} => list # <<>> /\ 1 \in 0..Len(list)
  BY <1>3, <1>4, <1>5, <1>6, LoadedRows
<1>8. ListType
  <2>1. selected = 1 /\ behind = {} /\ gone = {}
    BY DEF Init
  <2>2. QED
    BY <1>2, <1>4, <1>5, <1>6, <1>7, <2>1 DEF ListType
<1>9. ViewType /\ ViewsAgree
  <2>1. /\ checkedSet = {} /\ checkedIds = {} /\ onlyChecked = FALSE
        /\ filter = [checked |-> {}, only |-> FALSE]
    BY DEF Init
  <2>2. QED
    BY <2>1 DEF ViewType, ViewsAgree
<1>10. AgentType
  <2>1. <<>> \in Seq({"start", "stop"}) /\ <<>> \in Seq(Statuses)
    BY EmptySeq
  <2>2. QED
    BY <2>1 DEF Init, AgentType, NoProcess
<1>11. events \in 0..MaxEvents
  BY ConsoleBounds DEF Init
<1>12. StoredAsShown
  <2>1. \A i \in DOMAIN list : list[i].id \in DOMAIN db
    BY <1>7 DEF IdsOf
  <2>2. \A i \in DOMAIN list : db[list[i].id] = InDb(list[i])
    BY <1>5, <1>7, <2>1 DEF InDb, SavedRows
  <2>3. gone = {}
    BY DEF Init
  <2>4. QED
    BY <1>2, <1>6, <2>1, <2>2, <2>3 DEF StoredAsShown
<1>13. OnlyOfKnown
  BY DEF Init, OnlyOfKnown, Alive, NoProcess
<1>14. LastReportIsTrue
  BY DEF Init, LastReportIsTrue
<1>15. QED
  BY <1>8, <1>9, <1>10, <1>11, <1>12, <1>13, <1>14, TypeParts DEF IInv

-----------------------------------------------------------------------------
(* Steps of the console.                                                   *)

LEMMA Parts ==
  IInv <=> /\ ListType /\ ViewType /\ AgentType /\ events \in 0..MaxEvents
           /\ ViewsAgree /\ StoredAsShown /\ OnlyOfKnown /\ LastReportIsTrue
BY TypeParts DEF IInv

LEMMA PartsNext ==
  IInv' <=> /\ ListType' /\ ViewType' /\ AgentType' /\ events' \in 0..MaxEvents
            /\ ViewsAgree' /\ StoredAsShown' /\ OnlyOfKnown' /\ LastReportIsTrue'
<1>1. TypeOK' <=> ListType' /\ ViewType' /\ AgentType' /\ events' \in 0..MaxEvents
  BY DEF TypeOK, ListType, ViewType, AgentType, Distinct, Rows, SavedRows
<1>2. QED
  BY <1>1 DEF IInv

(* The bound on events. *)
LEMMA EventCounts ==
  ASSUME IInv, Event
  PROVE  events' \in 0..MaxEvents
<1>1. Known \subseteq Profiles
  BY Parts, RowFacts DEF Known, Listed, IdsOf, ListType
<1>2. Cardinality(Known) \in Nat
  BY <1>1, ProfilesFinite, FS_Subset, FS_CardinalityType
<1>3. events \in 0..MaxEvents /\ MaxEvents \in Nat
  BY Parts, ConsoleBounds
<1>4. QED
  BY <1>2, <1>3 DEF Event, WithinBound

(* Nothing happens with the agent and the connection, and every row is an   *)
(* old one or one of a profile that is not known to them.                   *)
LEMMA AgentSame ==
  ASSUME IInv, UNCHANGED agentVars, Known \subseteq Known',
         \A i \in DOMAIN rows' : \/ \E j \in DOMAIN rows : rows'[i] = rows[j]
                                 \/ rows'[i].id \in Profiles \ Known
  PROVE  AgentType' /\ OnlyOfKnown' /\ LastReportIsTrue'
<1>1. AgentType /\ OnlyOfKnown /\ LastReportIsTrue
  BY Parts
<1>2. UNCHANGED <<link, toAgent, toConsole, proc, stopReq, synced>>
  BY DEF agentVars, tableVars
<1>3. AgentType'
  BY <1>1, <1>2 DEF AgentType
<1>4. OnlyOfKnown'
  BY <1>1, <1>2 DEF OnlyOfKnown, Alive
<1>5. LastReportIsTrue'
  <2>1. SUFFICES ASSUME NEW i \in DOMAIN rows', NEW p, p = rows'[i].id,
                        link = "peer", toAgent[p] = <<>>, p \in synced \/ toConsole[p] # <<>>
                 PROVE  Fits(p, IF toConsole[p] = <<>> THEN rows'[i].status
                                ELSE toConsole[p][Len(toConsole[p])])
    BY <1>2 DEF LastReportIsTrue, Reported, Fits, Alive
  <2>2. p \in Known \/ p \notin Profiles
    BY <1>1, <2>1 DEF OnlyOfKnown
  <2>3. PICK j \in DOMAIN rows : rows'[i] = rows[j]
    BY <2>1, <2>2
  <2>4. QED
    BY <1>1, <2>1, <2>3 DEF LastReportIsTrue, Reported
<1>6. QED
  BY <1>3, <1>4, <1>5

(* Profiles are checked or unchecked, or the view is changed. *)
LEMMA ViewStep ==
  ASSUME IInv,
         \/ \E ids \in SUBSET Listed : Check(ids)
         \/ setShowOnlyChecked
         \/ \E i \in DOMAIN rows : select(i)
  PROVE  IInv'
<1>1. /\ ListType /\ ViewType /\ ViewsAgree /\ StoredAsShown /\ events \in 0..MaxEvents
      /\ rows \in Seq(Rows)
  BY Parts DEF ListType
<1>2. /\ UNCHANGED <<rows, stored, behind, agentVars, events, gone>>
      /\ selected' = selected \/ selected' \in DOMAIN rows
  BY DEF Check, setShowOnlyChecked, select, listVars
<1>3. Listed' = Listed /\ Known' = Known
  BY <1>2 DEF Listed, Known
<1>4. ListType'
  <2>1. DOMAIN rows = 1..Len(rows) /\ Len(rows) \in Nat
    BY <1>1, RowFacts
  <2>2. selected' \in 0..Len(rows) /\ (rows # <<>> => selected' # 0)
    BY <1>1, <1>2, <2>1 DEF ListType
  <2>3. QED
    BY <1>1, <1>2, <2>2 DEF ListType
<1>5. StoredAsShown'
  BY <1>1, <1>2, <1>3 DEF StoredAsShown
<1>6. ViewType' /\ ViewsAgree'
  <2>1. CASE \E ids \in SUBSET Listed : Check(ids)
    <3>1. PICK ids \in SUBSET Listed : Check(ids)
      BY <2>1
    <3>2. ids \in SUBSET Profiles
      BY <1>1, RowFacts DEF Listed, IdsOf
    <3>3. QED
      BY <1>1, <1>3, <3>1, <3>2, EmitWorks DEF Check
  <2>2. CASE setShowOnlyChecked
    <3>1. /\ onlyChecked' = ~onlyChecked
          /\ filter' = [checked |-> checkedIds, only |-> ~onlyChecked]
          /\ UNCHANGED <<checkedSet, checkedIds>>
      BY <2>2 DEF setShowOnlyChecked
    <3>2. onlyChecked' \in BOOLEAN /\ filter' = [checked |-> checkedIds, only |-> onlyChecked']
      BY <3>1
    <3>3. checkedIds \in SUBSET Profiles
      BY <1>1 DEF ViewType
    <3>4. /\ filter' \in [checked : SUBSET Profiles, only : BOOLEAN]
          /\ filter'.checked = checkedIds /\ filter'.only = onlyChecked'
      BY <3>2, <3>3
    <3>5. QED
      BY <1>1, <1>3, <3>1, <3>2, <3>4 DEF ViewType, ViewsAgree
  <2>3. CASE \E i \in DOMAIN rows : select(i)
    BY <1>1, <1>3, <2>3, ViewsSame DEF select
  <2>4. QED
    BY <2>1, <2>2, <2>3
<1>7. AgentType' /\ OnlyOfKnown' /\ LastReportIsTrue'
  BY <1>2, <1>3, AgentSame
<1>8. QED
  BY <1>1, <1>2, <1>4, <1>5, <1>6, <1>7, PartsNext

LEMMA CreateStep ==
  ASSUME IInv, createProfile
  PROVE  IInv'
<1>1. /\ ListType /\ ViewType /\ ViewsAgree /\ StoredAsShown /\ events \in 0..MaxEvents
      /\ rows \in Seq(Rows) /\ Distinct(rows)
  BY Parts DEF ListType
<1>2. PICK p \in New :
        /\ rows' = Append(rows, makeDefault(p))
        /\ stored' = [q \in DOMAIN stored \cup {p} |->
                        IF q = p THEN InDb(makeDefault(p)) ELSE stored[q]]
        /\ selected' = Len(rows')
        /\ UNCHANGED <<behind, checkVars, agentVars, events, gone>>
  BY DEF createProfile
<1>3. p \in Profiles /\ p \notin Known
  BY DEF New
<1>4. PICK row \in Rows : row = makeDefault(p) /\ row.id = p /\ InDb(row) \in SavedRows
  <2>1. makeDefault(p) \in Rows /\ makeDefault(p).id = p /\ InDb(makeDefault(p)) \in SavedRows
    BY <1>3 DEF makeDefault, Rows, InDb, SavedRows, Statuses
  <2>2. QED
    BY <2>1
<1>5. /\ rows' \in Seq(Rows) /\ Len(rows') = Len(rows) + 1
      /\ \A i \in 1..Len(rows) : rows'[i] = rows[i]
      /\ rows'[Len(rows) + 1] = row
  BY <1>1, <1>2, <1>4, AppendProperties
<1>6. /\ DOMAIN rows = 1..Len(rows) /\ Len(rows) \in Nat
      /\ DOMAIN rows' = DOMAIN rows \cup {Len(rows) + 1}
  BY <1>1, <1>5, RowFacts
<1>7. \A i \in DOMAIN rows : rows'[i] = rows[i] /\ rows[i].id # p
  BY <1>3, <1>5, <1>6 DEF Known, Listed
<1>8. Distinct(rows')
  BY <1>1, <1>4, <1>5, <1>6, <1>7 DEF Distinct
<1>9. /\ DOMAIN stored' = DOMAIN stored \cup {p}
      /\ stored'[p] = InDb(row)
      /\ \A q \in DOMAIN stored : q # p => stored'[q] = stored[q]
  BY <1>2, <1>4
<1>10. ListType'
  <2>1. \A q \in DOMAIN stored' : stored'[q] \in SavedRows
    BY <1>1, <1>4, <1>9 DEF ListType
  <2>2. selected' = Len(rows) + 1 /\ selected' \in 0..Len(rows') /\ selected' # 0
    BY <1>2, <1>5, <1>6
  <2>3. /\ DOMAIN stored' \subseteq Profiles
        /\ behind' \subseteq Profiles /\ gone' \subseteq Profiles
    BY <1>1, <1>2, <1>3, <1>9 DEF ListType
  <2>4. rows' \in Seq(Rows) /\ Distinct(rows')
    BY <1>5, <1>8
  <2>5. QED
    BY <2>1, <2>2, <2>3, <2>4 DEF ListType
<1>11. Listed' = Listed \cup {p}
  BY <1>4, <1>5, <1>6, <1>7 DEF Listed
<1>12. StoredAsShown'
  <2>1. ASSUME NEW i \in DOMAIN rows', rows'[i].id \notin behind'
        PROVE  rows'[i].id \in DOMAIN stored' /\ stored'[rows'[i].id] = InDb(rows'[i])
    <3>1. CASE i \in DOMAIN rows
      BY <1>1, <1>2, <1>7, <1>9, <2>1, <3>1 DEF StoredAsShown
    <3>2. CASE i = Len(rows) + 1
      BY <1>4, <1>5, <1>9, <3>2
    <3>3. QED
      BY <1>6, <3>1, <3>2
  <2>2. gone' \cap (Listed' \cup DOMAIN stored') = {}
    BY <1>1, <1>2, <1>3, <1>9, <1>11 DEF StoredAsShown, Known
  <2>3. QED
    BY <2>1, <2>2 DEF StoredAsShown
<1>13. ViewType' /\ ViewsAgree'
  BY <1>1, <1>2, <1>11, ViewsSame
<1>14. AgentType' /\ OnlyOfKnown' /\ LastReportIsTrue'
  <2>1. Known \subseteq Known'
    BY <1>2, <1>9, <1>11 DEF Known
  <2>2. \A i \in DOMAIN rows' : \/ \E j \in DOMAIN rows : rows'[i] = rows[j]
                                \/ rows'[i].id \in Profiles \ Known
    BY <1>3, <1>4, <1>5, <1>6, <1>7
  <2>3. QED
    BY <1>2, <2>1, <2>2, AgentSame
<1>15. QED
  BY <1>1, <1>2, <1>10, <1>12, <1>13, <1>14, PartsNext

(* The profiles of a bulk operation are listed. *)
LEMMA TargetsListed ==
  ASSUME ViewsAgree
  PROVE  Targets \subseteq Listed
BY DEF ViewsAgree, Targets, Selected, Listed

LEMMA DeleteStep ==
  ASSUME IInv, deleteProfiles
  PROVE  IInv'
<1>1. /\ ListType /\ ViewType /\ ViewsAgree /\ StoredAsShown /\ events \in 0..MaxEvents
      /\ rows \in Seq(Rows) /\ Listed \subseteq Profiles
  BY Parts, RowFacts DEF ListType, Listed, IdsOf
<1>2. PICK removed \in SUBSET Listed :
        /\ rows' = without(removed)
        /\ stored' = [p \in DOMAIN stored \ removed |-> stored[p]]
        /\ behind' = behind \ removed
        /\ gone' = gone \cup removed
        /\ emitCheckedProfileIds(unchecked(removed))
        /\ selected' = newIndex(Len(rows'))
        /\ UNCHANGED <<agentVars, events>>
  BY DEF deleteProfiles
<1>3. /\ rows' \in Seq(Rows) /\ Distinct(rows')
      /\ Len(rows') \in Nat /\ Len(rows') <= Len(rows)
      /\ Listed' = Listed \ removed
      /\ \A i \in DOMAIN rows' : \E j \in DOMAIN rows : rows'[i] = rows[j]
  BY <1>1, <1>2, DeletedRows
<1>4. /\ DOMAIN stored' = DOMAIN stored \ removed
      /\ \A p \in DOMAIN stored' : stored'[p] = stored[p]
  BY <1>2
<1>5. ListType'
  <2>1. selected' \in 0..Len(rows') /\ (rows' # <<>> => selected' # 0)
    <3>1. selected \in Nat /\ (rows # <<>> => selected # 0) /\ Len(rows) \in Nat
      BY <1>1, RowFacts DEF ListType
    <3>2. rows' # <<>> => Len(rows') # 0 /\ rows # <<>>
      BY <1>1, <1>3, <3>1, RowFacts
    <3>3. QED
      BY <1>2, <1>3, <3>1, <3>2 DEF newIndex
  <2>2. /\ DOMAIN stored' \subseteq Profiles
        /\ \A p \in DOMAIN stored' : stored'[p] \in SavedRows
        /\ behind' \subseteq Profiles /\ gone' \subseteq Profiles
    BY <1>1, <1>2, <1>4 DEF ListType
  <2>3. QED
    BY <1>3, <2>1, <2>2 DEF ListType
<1>6. StoredAsShown'
  <2>1. ASSUME NEW i \in DOMAIN rows', rows'[i].id \notin behind'
        PROVE  rows'[i].id \in DOMAIN stored' /\ stored'[rows'[i].id] = InDb(rows'[i])
    <3>1. rows'[i].id \notin removed
      BY <1>3 DEF Listed
    <3>2. PICK j \in DOMAIN rows : rows'[i] = rows[j]
      BY <1>3
    <3>3. QED
      BY <1>1, <1>2, <1>4, <2>1, <3>1, <3>2 DEF StoredAsShown
  <2>2. gone' \cap (Listed' \cup DOMAIN stored') = {}
    BY <1>1, <1>2, <1>3, <1>4 DEF StoredAsShown
  <2>3. QED
    BY <2>1, <2>2 DEF StoredAsShown
<1>7. ViewType' /\ ViewsAgree'
  <2>1. PICK ids \in SUBSET Profiles : ids = unchecked(removed)
    BY <1>1 DEF unchecked, ViewType
  <2>2. ids \subseteq Listed'
    BY <1>1, <1>3, <2>1 DEF unchecked, ViewsAgree
  <2>3. QED
    BY <1>1, <1>2, <2>1, <2>2, EmitWorks
<1>8. AgentType' /\ OnlyOfKnown' /\ LastReportIsTrue'
  <2>1. Known \subseteq Known'
    BY <1>2, <1>3, <1>4 DEF Known
  <2>2. QED
    BY <1>2, <1>3, <2>1, AgentSame
<1>9. QED
  BY <1>1, <1>2, <1>5, <1>6, <1>7, <1>8, PartsNext

LEMMA EditStep ==
  ASSUME IInv, updateSelectedProfileItem \/ setGroupForCheckedProfiles
  PROVE  IInv'
<1>1. ListType /\ ViewType /\ ViewsAgree /\ StoredAsShown /\ events \in 0..MaxEvents
  BY Parts
<1>2. PICK ids : /\ edit(ids)
                 /\ UNCHANGED <<selected, checkVars, agentVars, events, gone>>
  BY DEF updateSelectedProfileItem, setGroupForCheckedProfiles
<1>3. ListType' /\ StoredAsShown' /\ rows' = rows /\ Known \subseteq Known'
  BY <1>1, <1>2, Edited
<1>4. Listed' = Listed
  BY <1>3 DEF Listed
<1>5. ViewType' /\ ViewsAgree'
  BY <1>1, <1>2, <1>4, ViewsSame
<1>6. AgentType' /\ OnlyOfKnown' /\ LastReportIsTrue'
  BY <1>2, <1>3, AgentSame
<1>7. QED
  BY <1>1, <1>2, <1>3, <1>5, <1>6, PartsNext

-----------------------------------------------------------------------------
(* Requests and reports.                                                   *)

(* The list, the view and the database are left alone. *)
LEMMA ListSame ==
  ASSUME IInv, UNCHANGED <<listVars, selected, checkVars, gone>>
  PROVE  /\ ListType' /\ ViewType' /\ ViewsAgree' /\ StoredAsShown'
         /\ Known' = Known /\ rows' = rows
<1>1. ListType /\ ViewType /\ ViewsAgree /\ StoredAsShown
  BY Parts
<1>2. UNCHANGED <<rows, stored, behind, selected, gone>>
  BY DEF listVars
<1>3. Listed' = Listed /\ Known' = Known
  BY <1>2 DEF Listed, Known
<1>4. ListType' /\ StoredAsShown'
  BY <1>1, <1>2, <1>3 DEF ListType, StoredAsShown
<1>5. ViewType' /\ ViewsAgree'
  BY <1>1, <1>3, ViewsSame
<1>6. QED
  BY <1>2, <1>3, <1>4, <1>5

LEMMA LastOfTail ==
  ASSUME NEW S, NEW c \in Seq(S), c # <<>>
  PROVE  /\ Head(c) \in S /\ Tail(c) \in Seq(S)
         /\ Tail(c) = <<>> => Head(c) = c[Len(c)]
         /\ Tail(c) # <<>> => Tail(c)[Len(Tail(c))] = c[Len(c)]
<1>1. /\ Head(c) \in S /\ Tail(c) \in Seq(S)
      /\ Len(Tail(c)) = Len(c) - 1
      /\ \A i \in 1..Len(Tail(c)) : Tail(c)[i] = c[i + 1]
  BY HeadTailProperties
<1>2. Len(c) \in Nat \ {0} /\ Head(c) = c[1]
  BY EmptySeq
<1>3. Tail(c) = <<>> => Len(c) = 1
  <2>1. Tail(c) = <<>> => Len(Tail(c)) = 0
    BY EmptySeq
  <2>2. QED
    BY <1>1, <1>2, <2>1
<1>4. Tail(c) # <<>> => Len(Tail(c)) \in 1..Len(Tail(c))
  BY <1>1, EmptySeq
<1>5. QED
  BY <1>1, <1>2, <1>3, <1>4

LEMMA LastOfConcat ==
  ASSUME NEW S, NEW c \in Seq(S), NEW more \in Seq(S), more # <<>>
  PROVE  /\ c \o more \in Seq(S) /\ c \o more # <<>>
         /\ (c \o more)[Len(c \o more)] = more[Len(more)]
<1>1. Len(c) \in Nat /\ Len(more) \in Nat \ {0}
  BY EmptySeq, LenProperties
<1>2. /\ c \o more \in Seq(S) /\ Len(c \o more) = Len(c) + Len(more)
      /\ \A i \in 1..(Len(c) + Len(more)) :
           (c \o more)[i] = IF i <= Len(c) THEN c[i] ELSE more[i - Len(c)]
  BY ConcatProperties
<1>3. c \o more # <<>>
  BY <1>1, <1>2, EmptySeq
<1>4. Len(c) + Len(more) \in 1..(Len(c) + Len(more))
  BY <1>1
<1>5. (c \o more)[Len(c) + Len(more)] = more[(Len(c) + Len(more)) - Len(c)]
  BY <1>1, <1>2, <1>4
<1>6. QED
  BY <1>1, <1>2, <1>3, <1>5

(* The status is written ahead: until the agent has taken the request, the  *)
(* row need not be true.                                                    *)
LEMMA RequestStep ==
  ASSUME IInv, NEW what \in {"start", "stop"}, NEW status \in Statuses,
         requestProfiles(what, status)
  PROVE  IInv'
<1>1. /\ ListType /\ ViewType /\ ViewsAgree /\ StoredAsShown /\ AgentType
      /\ OnlyOfKnown /\ LastReportIsTrue /\ Listed \subseteq Profiles
  BY Parts, RowFacts DEF ListType, Listed, IdsOf
<1>2. PICK ids \in SUBSET Listed : ids = Targets
  BY <1>1, TargetsListed
<1>3. /\ request(ids, what) /\ updateStatus(ids, status)
      /\ synced' = synced \cup ids /\ Event
      /\ UNCHANGED <<selected, checkVars, link, toConsole, proc, stopReq, gone>>
  BY <1>2 DEF requestProfiles, tableVars
<1>4. /\ ListType' /\ StoredAsShown'
      /\ Listed' = Listed /\ Known \subseteq Known'
      /\ DOMAIN rows' = DOMAIN rows
      /\ \A i \in DOMAIN rows :
           /\ rows'[i].id = rows[i].id
           /\ rows'[i].status = IF rows[i].id \in ids THEN status ELSE rows[i].status
  BY <1>1, <1>3, StatusWritten
<1>5. ViewType' /\ ViewsAgree'
  BY <1>1, <1>3, <1>4, ViewsSame
<1>6. \A p \in Profiles :
        /\ toAgent[p] \in Seq({"start", "stop"})
        /\ Append(toAgent[p], what) \in Seq({"start", "stop"})
        /\ Append(toAgent[p], what) # <<>>
        /\ toAgent'[p] = IF p \in ids /\ link \in {"peer", "replaced"} THEN Append(toAgent[p], what)
                         ELSE toAgent[p]
  <2>1. TAKE p \in Profiles
  <2>2. toAgent[p] \in Seq({"start", "stop"})
    BY <1>1 DEF AgentType
  <2>3. /\ Append(toAgent[p], what) \in Seq({"start", "stop"})
        /\ Len(Append(toAgent[p], what)) = Len(toAgent[p]) + 1 /\ Len(toAgent[p]) \in Nat
    BY <2>2, AppendProperties, LenProperties
  <2>4. Append(toAgent[p], what) # <<>>
    BY <2>3, EmptySeq
  <2>5. QED
    BY <1>3, <2>2, <2>3, <2>4 DEF request
<1>7. AgentType'
  <2>1. toAgent' \in [Profiles -> Seq({"start", "stop"})]
    BY <1>3, <1>6 DEF request
  <2>2. QED
    BY <1>1, <1>3, <2>1 DEF AgentType
<1>8. OnlyOfKnown'
  <2>1. ids \subseteq Known
    BY DEF Known
  <2>2. QED
    BY <1>1, <1>3, <1>4, <1>6, <2>1 DEF OnlyOfKnown, Alive
<1>9. LastReportIsTrue'
  <2>1. SUFFICES ASSUME NEW i \in DOMAIN rows, NEW p \in Profiles, p = rows[i].id,
                        link = "peer", toAgent'[p] = <<>>, p \in synced' \/ toConsole[p] # <<>>
                 PROVE  Fits(p, IF toConsole[p] = <<>> THEN rows'[i].status
                                ELSE toConsole[p][Len(toConsole[p])])
    <3>1. \A i \in DOMAIN rows : rows[i].id \in Profiles
      BY <1>1, RowFacts DEF ListType
    <3>2. QED
      BY <1>3, <1>4, <3>1 DEF LastReportIsTrue, Reported, Fits, Alive
  <2>2. p \notin ids /\ toAgent[p] = <<>>
    BY <1>6, <2>1
  <2>3. rows'[i].status = rows[i].status /\ (p \in synced \/ toConsole[p] # <<>>)
    BY <1>3, <1>4, <2>1, <2>2
  <2>4. QED
    BY <1>1, <2>1, <2>2, <2>3 DEF LastReportIsTrue, Reported
<1>10. events' \in 0..MaxEvents
  BY <1>3, EventCounts
<1>11. QED
  BY <1>4, <1>5, <1>7, <1>8, <1>9, <1>10, PartsNext

(* A report that is shown was the last one, or another is the last still. *)
LEMMA StatusStep ==
  ASSUME IInv, NEW p \in Profiles, onProfileStatus(p)
  PROVE  IInv'
<1>1. /\ ListType /\ ViewType /\ ViewsAgree /\ StoredAsShown /\ AgentType
      /\ OnlyOfKnown /\ LastReportIsTrue /\ events \in 0..MaxEvents
  BY Parts
<1>2. PICK c \in Seq(Statuses) : c = toConsole[p] /\ c # <<>>
  BY <1>1 DEF AgentType, onProfileStatus
<1>3. /\ Head(c) \in Statuses /\ Tail(c) \in Seq(Statuses)
      /\ Tail(c) = <<>> => Head(c) = c[Len(c)]
      /\ Tail(c) # <<>> => Tail(c)[Len(Tail(c))] = c[Len(c)]
  BY <1>2, LastOfTail
<1>4. PICK status \in Statuses : status = Head(c)
  BY <1>3
<1>5. PICK ids : ids = rowsOf(p)
  OBVIOUS
<1>6. /\ updateStatus(ids, status)
      /\ toConsole' = [toConsole EXCEPT ![p] = Tail(c)]
      /\ synced' = synced \cup {p}
      /\ UNCHANGED <<selected, checkVars, link, toAgent, proc, stopReq, events, gone>>
  BY <1>2, <1>4, <1>5 DEF onProfileStatus, tableVars
<1>7. /\ ListType' /\ StoredAsShown'
      /\ Listed' = Listed /\ Known \subseteq Known'
      /\ DOMAIN rows' = DOMAIN rows
      /\ \A i \in DOMAIN rows :
           /\ rows'[i].id = rows[i].id
           /\ rows'[i].status = IF rows[i].id \in ids THEN status ELSE rows[i].status
  BY <1>1, <1>6, StatusWritten
<1>8. ViewType' /\ ViewsAgree'
  BY <1>1, <1>6, <1>7, ViewsSame
<1>9. \A q \in Profiles : toConsole'[q] = IF q = p THEN Tail(c) ELSE toConsole[q]
  BY <1>1, <1>6 DEF AgentType
<1>10. AgentType'
  BY <1>1, <1>3, <1>6 DEF AgentType
<1>11. OnlyOfKnown'
  BY <1>1, <1>2, <1>6, <1>7, <1>9 DEF OnlyOfKnown, Alive
<1>12. LastReportIsTrue'
  <2>1. SUFFICES ASSUME NEW i \in DOMAIN rows, NEW q \in Profiles, q = rows[i].id,
                        link = "peer", toAgent[q] = <<>>, q \in synced' \/ toConsole'[q] # <<>>
                 PROVE  Fits(q, IF toConsole'[q] = <<>> THEN rows'[i].status
                                ELSE toConsole'[q][Len(toConsole'[q])])
    <3>1. \A i \in DOMAIN rows : rows[i].id \in Profiles
      BY <1>1, RowFacts DEF ListType
    <3>2. QED
      BY <1>6, <1>7, <3>1 DEF LastReportIsTrue, Reported, Fits, Alive
  <2>2. CASE q = p
    <3>1. q \in ids
      BY <1>5, <2>1, <2>2 DEF rowsOf, Listed
    <3>2. rows'[i].status = Head(c) /\ toConsole'[q] = Tail(c)
      BY <1>4, <1>7, <1>9, <2>1, <2>2, <3>1
    <3>3. Fits(q, c[Len(c)])
      BY <1>1, <1>2, <2>1, <2>2 DEF LastReportIsTrue, Reported
    <3>4. QED
      BY <1>3, <3>2, <3>3
  <2>3. CASE q # p
    <3>1. q \notin ids
      BY <1>5, <2>3 DEF rowsOf
    <3>2. /\ rows'[i].status = rows[i].status /\ toConsole'[q] = toConsole[q]
          /\ q \in synced \/ toConsole[q] # <<>>
      BY <1>6, <1>7, <1>9, <2>1, <2>3, <3>1
    <3>3. QED
      BY <1>1, <2>1, <3>2 DEF LastReportIsTrue, Reported
  <2>4. QED
    BY <2>2, <2>3
<1>13. QED
  BY <1>1, <1>6, <1>7, <1>8, <1>10, <1>11, <1>12, PartsNext

-----------------------------------------------------------------------------
(* Steps of the agent.                                                     *)

LEMMA OneReport ==
  ASSUME NEW s \in Statuses
  PROVE  <<s>> \in Seq(Statuses) /\ <<s>> # <<>> /\ <<s>>[Len(<<s>>)] = s
OBVIOUS

LEMMA TwoReports ==
  /\ <<"starting", "ended">> \in Seq(Statuses) /\ <<"starting", "ended">> # <<>>
  /\ <<"starting", "ended">>[Len(<<"starting", "ended">>)] = "ended"
BY DEF Statuses

(* What is reported of p comes last, and nothing of others. *)
LEMMA Reporting ==
  ASSUME AgentType, NEW p \in Profiles,
         NEW reports \in Seq(Statuses), reports # <<>>, report(p, reports)
  PROVE  /\ toConsole' \in [Profiles -> Seq(Statuses)]
         /\ \A q \in Profiles : q # p => toConsole'[q] = toConsole[q]
         /\ link = "peer" => /\ toConsole'[p] # <<>>
                             /\ toConsole'[p][Len(toConsole'[p])] = reports[Len(reports)]
<1>1. toConsole \in [Profiles -> Seq(Statuses)]
  BY DEF AgentType
<1>2. PICK c \in Seq(Statuses) : c = toConsole[p]
  BY <1>1
<1>3. /\ c \o reports \in Seq(Statuses) /\ c \o reports # <<>>
      /\ (c \o reports)[Len(c \o reports)] = reports[Len(reports)]
  BY LastOfConcat
<1>4. toConsole' = IF link = "peer" THEN [toConsole EXCEPT ![p] = c \o reports] ELSE toConsole
  BY <1>2 DEF report
<1>5. CASE link = "peer"
  <2>1. toConsole' = [toConsole EXCEPT ![p] = c \o reports]
    BY <1>4, <1>5
  <2>2. toConsole'[p] = c \o reports
    BY <1>1, <2>1
  <2>3. QED
    BY <1>1, <1>3, <2>1, <2>2
<1>6. CASE link # "peer"
  BY <1>1, <1>4, <1>6
<1>7. QED
  BY <1>5, <1>6

(* A request is taken from its queue. *)
LEMMA Taking ==
  ASSUME IInv, NEW p \in Profiles, NEW what, takes(p, what)
  PROVE  /\ p \in Known
         /\ toAgent' \in [Profiles -> Seq({"start", "stop"})]
         /\ \A q \in Profiles : q # p => toAgent'[q] = toAgent[q]
<1>1. AgentType /\ OnlyOfKnown
  BY Parts
<1>2. toAgent \in [Profiles -> Seq({"start", "stop"})] /\ toAgent[p] # <<>>
  BY <1>1 DEF AgentType, takes
<1>3. Tail(toAgent[p]) \in Seq({"start", "stop"})
  BY <1>2, LastOfTail
<1>4. toAgent' = [toAgent EXCEPT ![p] = Tail(toAgent[p])]
  BY DEF takes
<1>5. QED
  BY <1>1, <1>2, <1>3, <1>4 DEF OnlyOfKnown

(* Something happens to the process of p, and the console is told of it, or *)
(* is not told what remains true.                                           *)
LEMMA AgentStep ==
  ASSUME IInv, NEW p \in Profiles, p \in Known,
         UNCHANGED <<listVars, selected, checkVars, link, synced, events, gone>>,
         AgentType',
         \A q \in Profiles : q # p => /\ toAgent'[q] = toAgent[q] /\ toConsole'[q] = toConsole[q]
                                      /\ proc'[q] = proc[q] /\ (q \in stopReq' <=> q \in stopReq),
         \/ link # "peer"
         \/ /\ toConsole'[p] # <<>>
            /\ \A s \in Statuses : s = toConsole'[p][Len(toConsole'[p])] => Fits(p, s)'
         \/ /\ toAgent'[p] = toAgent[p] /\ toConsole'[p] = toConsole[p]
            /\ \A s \in Statuses : Fits(p, s) => Fits(p, s)'
  PROVE  IInv'
<1>1. AgentType /\ OnlyOfKnown /\ LastReportIsTrue /\ ListType /\ events' \in 0..MaxEvents
  BY Parts
<1>2. /\ ListType' /\ ViewType' /\ ViewsAgree' /\ StoredAsShown'
      /\ Known' = Known /\ rows' = rows /\ link' = link /\ synced' = synced
  BY ListSame
<1>3. OnlyOfKnown'
  BY <1>1, <1>2 DEF OnlyOfKnown, Alive
<1>4. LastReportIsTrue'
  <2>1. SUFFICES ASSUME NEW i \in DOMAIN rows, NEW q \in Profiles, q = rows[i].id,
                        link = "peer", toAgent'[q] = <<>>, q \in synced \/ toConsole'[q] # <<>>,
                        NEW s, s = IF toConsole'[q] = <<>> THEN rows[i].status
                                   ELSE toConsole'[q][Len(toConsole'[q])]
                 PROVE  Fits(q, s)'
    <3>1. \A i \in DOMAIN rows : rows[i].id \in Profiles
      BY <1>1, RowFacts DEF ListType
    <3>2. QED
      BY <1>2, <3>1 DEF LastReportIsTrue, Reported, Fits, Alive
  <2>2. s \in Statuses
    <3>1. rows[i].status \in Statuses
      BY <1>1, RowFacts DEF ListType
    <3>2. toConsole'[q] \in Seq(Statuses)
      BY DEF AgentType
    <3>3. toConsole'[q] # <<>> => toConsole'[q][Len(toConsole'[q])] \in Statuses
      BY <3>2, LenProperties, ElementOfSeq, EmptySeq
    <3>4. QED
      BY <2>1, <3>1, <3>3
  <2>3. CASE toAgent'[q] = toAgent[q] /\ toConsole'[q] = toConsole[q]
    <3>1. Fits(q, s)
      BY <1>1, <2>1, <2>3 DEF LastReportIsTrue, Reported
    <3>2. CASE q # p
      BY <2>1, <3>1, <3>2 DEF Fits, Alive
    <3>3. CASE /\ q = p /\ toConsole'[p] # <<>>
               /\ \A t \in Statuses : t = toConsole'[p][Len(toConsole'[p])] => Fits(p, t)'
      BY <2>1, <2>2, <3>3
    <3>4. CASE q = p /\ \A t \in Statuses : Fits(p, t) => Fits(p, t)'
      BY <2>2, <3>1, <3>4
    <3>5. QED
      BY <2>1, <3>2, <3>3, <3>4
  <2>4. CASE ~(toAgent'[q] = toAgent[q] /\ toConsole'[q] = toConsole[q])
    <3>1. q = p /\ toConsole'[p] # <<>>
      BY <2>1, <2>4
    <3>2. \A t \in Statuses : t = toConsole'[p][Len(toConsole'[p])] => Fits(p, t)'
      BY <2>1, <2>4, <3>1
    <3>3. QED
      BY <2>1, <2>2, <3>1, <3>2
  <2>5. QED
    BY <2>3, <2>4
<1>5. QED
  BY <1>1, <1>2, <1>3, <1>4, PartsNext

(* The process of p becomes state. *)
LEMMA Becoming ==
  ASSUME AgentType, NEW p \in Profiles, NEW state \in {"NotRunning", "Starting", "Running"},
         becomes(p, state)
  PROVE  /\ proc' \in [Profiles -> {"NotRunning", "Starting", "Running"}]
         /\ \A q \in Profiles : q # p => proc'[q] = proc[q]
         /\ proc'[p] = state
BY DEF AgentType, becomes

LEMMA ReportStep ==
  ASSUME IInv, NEW p \in Profiles, p \in Known,
         UNCHANGED <<listVars, selected, checkVars, link, synced, events, gone>>,
         NEW reports \in Seq(Statuses), reports # <<>>, report(p, reports),
         toAgent' \in [Profiles -> Seq({"start", "stop"})],
         proc' \in [Profiles -> {"NotRunning", "Starting", "Running"}],
         stopReq' \subseteq Profiles,
         \A q \in Profiles : q # p => /\ toAgent'[q] = toAgent[q]
                                      /\ proc'[q] = proc[q] /\ (q \in stopReq' <=> q \in stopReq),
         NEW last, last = reports[Len(reports)],
         \/ last \in {"starting", "stopping"}
         \/ last = "running" /\ proc'[p] # "NotRunning"
         \/ last = "ended" /\ proc'[p] = "NotRunning"
  PROVE  IInv'
<1>1. AgentType
  BY Parts
<1>2. /\ toConsole' \in [Profiles -> Seq(Statuses)]
      /\ \A q \in Profiles : q # p => toConsole'[q] = toConsole[q]
      /\ link = "peer" => /\ toConsole'[p] # <<>>
                          /\ toConsole'[p][Len(toConsole'[p])] = last
  BY <1>1, Reporting
<1>3. AgentType'
  BY <1>1, <1>2 DEF AgentType
<1>4. Fits(p, last)'
  BY DEF Fits, Alive
<1>5. \/ link # "peer"
      \/ /\ toConsole'[p] # <<>>
         /\ \A s \in Statuses : s = toConsole'[p][Len(toConsole'[p])] => Fits(p, s)'
  BY <1>2, <1>4
<1>6. QED
  BY <1>2, <1>3, <1>5, AgentStep

LEMMA OneReportStep ==
  ASSUME IInv, NEW p \in Profiles, p \in Known,
         UNCHANGED <<listVars, selected, checkVars, link, synced, events, gone>>,
         NEW last \in Statuses, report(p, <<last>>),
         toAgent' \in [Profiles -> Seq({"start", "stop"})],
         proc' \in [Profiles -> {"NotRunning", "Starting", "Running"}],
         stopReq' \subseteq Profiles,
         \A q \in Profiles : q # p => /\ toAgent'[q] = toAgent[q]
                                      /\ proc'[q] = proc[q] /\ (q \in stopReq' <=> q \in stopReq),
         \/ last \in {"starting", "stopping"}
         \/ last = "running" /\ proc'[p] # "NotRunning"
         \/ last = "ended" /\ proc'[p] = "NotRunning"
  PROVE  IInv'
<1>1. PICK reports : reports = <<last>>
  OBVIOUS
<1>2. reports \in Seq(Statuses) /\ reports # <<>> /\ reports[Len(reports)] = last
  BY <1>1, OneReport
<1>3. report(p, reports)
  BY <1>1
<1>4. QED
  BY <1>2, <1>3, ReportStep

LEMMA AgentStartStep ==
  ASSUME IInv, NEW p \in Profiles, agentStart(p)
  PROVE  IInv'
<1>1. AgentType /\ stopReq \subseteq Profiles
  BY Parts DEF AgentType
<1>2. /\ p \in Known
      /\ toAgent' \in [Profiles -> Seq({"start", "stop"})]
      /\ \A q \in Profiles : q # p => toAgent'[q] = toAgent[q]
  BY Taking DEF agentStart
<1>3. UNCHANGED <<listVars, selected, checkVars, link, stopReq, synced, events, gone>>
  BY DEF agentStart
<1>4. proc \in [Profiles -> {"NotRunning", "Starting", "Running"}]
  BY <1>1 DEF AgentType
<1>5. CASE Alive(p) /\ report(p, <<"running">>) /\ UNCHANGED proc
  <2>1. "running" \in Statuses /\ proc'[p] # "NotRunning"
    BY <1>5 DEF Statuses, Alive
  <2>2. QED
    BY <1>1, <1>2, <1>3, <1>4, <1>5, <2>1, OneReportStep
<1>6. CASE ~Alive(p) /\ report(p, <<"starting", "ended">>) /\ UNCHANGED proc
  <2>1. proc'[p] = "NotRunning"
    BY <1>6 DEF Alive
  <2>2. QED
    BY <1>1, <1>2, <1>3, <1>4, <1>6, <2>1, TwoReports, ReportStep
<1>7. CASE ~Alive(p) /\ report(p, <<"starting">>) /\ becomes(p, "Starting")
  <2>1. "starting" \in Statuses
    BY DEF Statuses
  <2>2. /\ proc' \in [Profiles -> {"NotRunning", "Starting", "Running"}]
        /\ \A q \in Profiles : q # p => proc'[q] = proc[q]
    BY <1>1, <1>7, Becoming
  <2>3. QED
    BY <1>1, <1>2, <1>3, <1>7, <2>1, <2>2, OneReportStep
<1>8. CASE ~Alive(p) /\ p \in stopReq /\ report(p, <<"starting">>) /\ UNCHANGED proc
  <2>1. "starting" \in Statuses
    BY DEF Statuses
  <2>2. QED
    BY <1>1, <1>2, <1>3, <1>4, <1>8, <2>1, OneReportStep
<1>9. QED
  BY <1>5, <1>6, <1>7, <1>8 DEF agentStart

LEMMA AgentStopStep ==
  ASSUME IInv, NEW p \in Profiles, agentStop(p)
  PROVE  IInv'
<1>1. AgentType /\ stopReq \subseteq Profiles
  BY Parts DEF AgentType
<1>2. /\ p \in Known
      /\ toAgent' \in [Profiles -> Seq({"start", "stop"})]
      /\ \A q \in Profiles : q # p => toAgent'[q] = toAgent[q]
  BY Taking DEF agentStop
<1>3. UNCHANGED <<listVars, selected, checkVars, link, proc, synced, events, gone>>
  BY DEF agentStop
<1>4. proc \in [Profiles -> {"NotRunning", "Starting", "Running"}]
  BY <1>1 DEF AgentType
<1>5. CASE Alive(p) /\ report(p, <<"stopping">>) /\ stopReq' = stopReq \cup {p}
  <2>1. "stopping" \in Statuses
    BY DEF Statuses
  <2>2. QED
    BY <1>1, <1>2, <1>3, <1>4, <1>5, <2>1, OneReportStep
<1>6. CASE ~Alive(p) /\ report(p, <<"ended">>) /\ UNCHANGED stopReq
  <2>1. "ended" \in Statuses /\ proc'[p] = "NotRunning"
    BY <1>3, <1>6 DEF Statuses, Alive
  <2>2. QED
    BY <1>1, <1>2, <1>3, <1>4, <1>6, <2>1, OneReportStep
<1>7. QED
  BY <1>5, <1>6 DEF agentStop

(* A profile with a process is known. *)
LEMMA BrowserStep ==
  ASSUME IInv, NEW p \in Profiles, browserStarts(p) \/ runningCheck(p) \/ browserEnds(p)
  PROVE  IInv'
<1>1. AgentType /\ OnlyOfKnown /\ stopReq \subseteq Profiles
  BY Parts DEF AgentType
<1>2. Alive(p) /\ p \in Known
  BY <1>1 DEF browserStarts, runningCheck, browserEnds, Alive, OnlyOfKnown
<1>3. /\ toAgent \in [Profiles -> Seq({"start", "stop"})]
      /\ proc \in [Profiles -> {"NotRunning", "Starting", "Running"}]
  BY <1>1 DEF AgentType
<1>4. UNCHANGED <<listVars, selected, checkVars, link, toAgent, synced, events, gone>>
  BY DEF browserStarts, runningCheck, browserEnds
<1>5. "starting" \in Statuses /\ "running" \in Statuses /\ "ended" \in Statuses
  BY DEF Statuses
<1>6. \A state \in {"NotRunning", "Starting", "Running"} : becomes(p, state) =>
        /\ proc' \in [Profiles -> {"NotRunning", "Starting", "Running"}]
        /\ \A q \in Profiles : q # p => proc'[q] = proc[q]
        /\ proc'[p] = state
  BY <1>1, Becoming
<1>7. CASE browserStarts(p)
  <2>1. stopReq' = stopReq
    BY <1>7 DEF browserStarts
  <2>2. CASE becomes(p, "NotRunning") /\ p \notin stopReq /\ report(p, <<"ended">>)
    BY <1>1, <1>2, <1>3, <1>4, <1>5, <1>6, <2>1, <2>2, OneReportStep
  <2>3. CASE \/ becomes(p, "Running") /\ UNCHANGED toConsole
             \/ becomes(p, "NotRunning") /\ p \in stopReq /\ UNCHANGED toConsole
    <3>1. /\ proc' \in [Profiles -> {"NotRunning", "Starting", "Running"}]
          /\ \A q \in Profiles : q # p => proc'[q] = proc[q]
          /\ proc'[p] # "NotRunning" \/ p \in stopReq
      BY <1>6, <2>3
    <3>2. \A s \in Statuses : Fits(p, s) => Fits(p, s)'
      BY <1>2, <2>1, <3>1 DEF Fits, Alive
    <3>3. AgentType'
      BY <1>1, <1>4, <2>1, <2>3, <3>1 DEF AgentType
    <3>4. QED
      BY <1>2, <1>4, <2>1, <2>3, <3>1, <3>2, <3>3, AgentStep
  <2>4. QED
    BY <1>7, <2>2, <2>3 DEF browserStarts
<1>8. CASE runningCheck(p)
  <2>1. /\ report(p, <<"running">>) /\ UNCHANGED <<proc, stopReq>>
        /\ proc[p] # "NotRunning"
    BY <1>8 DEF runningCheck, tableVars
  <2>2. QED
    BY <1>1, <1>2, <1>3, <1>4, <1>5, <2>1, OneReportStep
<1>9. CASE browserEnds(p)
  <2>1. stopReq' = stopReq \ {p}
    BY <1>9 DEF browserEnds
  <2>2. stopReq' \subseteq Profiles /\ \A q \in Profiles : q # p => (q \in stopReq' <=> q \in stopReq)
    BY <1>1, <2>1
  <2>3. CASE becomes(p, "NotRunning") /\ report(p, <<"ended">>)
    BY <1>2, <1>3, <1>4, <1>5, <1>6, <2>2, <2>3, OneReportStep
  <2>4. CASE becomes(p, "Starting") /\ report(p, <<"starting">>)
    BY <1>2, <1>3, <1>4, <1>5, <1>6, <2>2, <2>4, OneReportStep
  <2>5. CASE becomes(p, "NotRunning") /\ report(p, <<"starting", "ended">>)
    BY <1>2, <1>3, <1>4, <1>6, <2>2, <2>5, TwoReports, ReportStep
  <2>6. QED
    BY <1>9, <2>3, <2>4, <2>5 DEF browserEnds
<1>10. QED
  BY <1>7, <1>8, <1>9

-----------------------------------------------------------------------------
(* Connections and restarts.                                               *)

(* The connection is lost, or nothing was asked or reported on it yet.      *)
LEMMA LinkStep ==
  ASSUME IInv, replaced \/ oldPeerDeleted \/ agentDies \/ reconnect
  PROVE  IInv'
<1>1. AgentType /\ OnlyOfKnown /\ LastReportIsTrue /\ events \in 0..MaxEvents
  BY Parts
<1>2. UNCHANGED <<listVars, selected, checkVars, gone>>
  BY DEF replaced, oldPeerDeleted, agentDies, reconnect
<1>3. /\ ListType' /\ ViewType' /\ ViewsAgree' /\ StoredAsShown'
      /\ Known' = Known /\ rows' = rows
  BY <1>2, ListSame
<1>4. events' \in 0..MaxEvents
  BY <1>1, EventCounts DEF replaced, oldPeerDeleted, agentDies, reconnect
<1>5. \A p \in Profiles : NoMessages[p] = <<>>
  BY DEF NoMessages
<1>6. /\ NoMessages \in [Profiles -> Seq({"start", "stop"})]
      /\ NoMessages \in [Profiles -> Seq(Statuses)]
      /\ NoProcess \in [Profiles -> {"NotRunning", "Starting", "Running"}]
      /\ \A p \in Profiles : NoProcess[p] = "NotRunning"
  BY EmptySeq DEF NoMessages, NoProcess
<1>7. /\ link' \in {"none", "peer", "replaced", "dead"}
      /\ \/ link' # "peer"
         \/ synced' = {} /\ toConsole' = NoMessages
      /\ toAgent' \in {toAgent, NoMessages} /\ toConsole' \in {toConsole, NoMessages}
      /\ proc' \in {proc, NoProcess} /\ stopReq' \subseteq stopReq /\ synced' \subseteq synced
  BY DEF replaced, oldPeerDeleted, agentDies, reconnect, tableVars
<1>8. AgentType'
  BY <1>1, <1>6, <1>7 DEF AgentType
<1>9. OnlyOfKnown'
  <2>1. \A p \in Profiles : /\ toAgent'[p] # <<>> => toAgent[p] # <<>>
                            /\ toConsole'[p] # <<>> => toConsole[p] # <<>>
                            /\ proc'[p] # "NotRunning" => proc[p] # "NotRunning"
                            /\ p \in stopReq' => p \in stopReq
                            /\ p \in synced' => p \in synced
    BY <1>5, <1>6, <1>7
  <2>2. QED
    BY <1>1, <1>3, <2>1 DEF OnlyOfKnown, Alive
<1>10. LastReportIsTrue'
  <2>1. \A i \in DOMAIN rows : rows[i].id \in Profiles
    BY Parts, RowFacts DEF ListType
  <2>2. \A i \in DOMAIN rows :
          link' = "peer" => rows[i].id \notin synced' /\ toConsole'[rows[i].id] = <<>>
    BY <1>5, <1>7, <2>1
  <2>3. QED
    BY <1>3, <2>2 DEF LastReportIsTrue
<1>11. QED
  BY <1>3, <1>4, <1>8, <1>9, <1>10, PartsNext

(* A restarted console has the rows of the database and nothing else. *)
LEMMA RestartStep ==
  ASSUME IInv, restart
  PROVE  IInv'
<1>1. ListType /\ StoredAsShown
  BY Parts
<1>2. ListType' /\ StoredAsShown'
  BY <1>1, LoadProfilesWorks DEF restart, StoredAsShown
<1>3. ViewType' /\ ViewsAgree'
  <2>1. /\ checkedSet' = {} /\ checkedIds' = {} /\ onlyChecked' = FALSE
        /\ filter' = [checked |-> {}, only |-> FALSE]
    BY DEF restart
  <2>2. QED
    BY <2>1 DEF ViewType, ViewsAgree
<1>4. /\ link' = "none" /\ toAgent' = NoMessages /\ toConsole' = NoMessages
      /\ proc' = NoProcess /\ stopReq' = {} /\ synced' = {}
  BY DEF restart
<1>5. /\ NoMessages \in [Profiles -> Seq({"start", "stop"})]
      /\ NoMessages \in [Profiles -> Seq(Statuses)]
      /\ NoProcess \in [Profiles -> {"NotRunning", "Starting", "Running"}]
      /\ \A p \in Profiles : NoProcess[p] = "NotRunning" /\ NoMessages[p] = <<>>
  BY EmptySeq DEF NoMessages, NoProcess
<1>6. AgentType'
  BY <1>4, <1>5 DEF AgentType
<1>7. OnlyOfKnown'
  BY <1>4, <1>5 DEF OnlyOfKnown, Alive
<1>8. LastReportIsTrue'
  BY <1>4 DEF LastReportIsTrue
<1>9. events' \in 0..MaxEvents
  BY EventCounts DEF restart
<1>10. QED
  BY <1>2, <1>3, <1>6, <1>7, <1>8, <1>9, PartsNext

-----------------------------------------------------------------------------
(* Every step keeps the inductive invariant. *)
LEMMA NextIInv == IInv /\ [Next]_vars => IInv'
<1> SUFFICES ASSUME IInv, [Next]_vars PROVE IInv'
  OBVIOUS
<1>1. CASE createProfile
  BY <1>1, CreateStep
<1>2. CASE deleteProfiles
  BY <1>2, DeleteStep
<1>3. CASE runProfiles \/ stopProfiles
  <2>1. /\ "start" \in {"start", "stop"} /\ "stop" \in {"start", "stop"}
        /\ "starting" \in Statuses /\ "stopping" \in Statuses
    BY DEF Statuses
  <2>2. QED
    BY <1>3, <2>1, RequestStep DEF runProfiles, stopProfiles
<1>4. CASE replaced \/ oldPeerDeleted \/ agentDies \/ reconnect
  BY <1>4, LinkStep
<1>5. CASE restart
  BY <1>5, RestartStep
<1>6. CASE \/ clearCheckedProfiles
           \/ \E group \in SUBSET Listed :
                \/ checkGroupProfiles(group) \/ uncheckGroupProfiles(group)
                \/ invertCheckedGroupProfiles(group)
           \/ \E hits \in SUBSET Profiles :
                \/ checkAllVisibleProfiles(hits) \/ uncheckAllVisibleProfiles(hits)
                \/ invertCheckedVisibleProfiles(hits)
           \/ \E p \in Listed : setProfileChecked(p)
  <2>1. checkedSet \subseteq Listed
    BY Parts DEF ViewsAgree
  <2>2. \A hits : Visible(hits) \subseteq Listed
    BY DEF Visible
  <2>3. \E ids \in SUBSET Listed : Check(ids)
    <3>1. CASE clearCheckedProfiles
      BY <3>1 DEF clearCheckedProfiles
    <3>2. CASE \E group \in SUBSET Listed :
                 \/ checkGroupProfiles(group) \/ uncheckGroupProfiles(group)
                 \/ invertCheckedGroupProfiles(group)
      <4>1. PICK group \in SUBSET Listed :
                 \/ Check(checkedSet \cup group) \/ Check(checkedSet \ group)
                 \/ Check(Flip(group))
        BY <3>2 DEF checkGroupProfiles, uncheckGroupProfiles, invertCheckedGroupProfiles
      <4>2. /\ checkedSet \cup group \in SUBSET Listed /\ checkedSet \ group \in SUBSET Listed
            /\ Flip(group) \in SUBSET Listed
        BY <2>1 DEF Flip
      <4>3. QED
        BY <4>1, <4>2
    <3>3. CASE \E hits \in SUBSET Profiles :
                 \/ checkAllVisibleProfiles(hits) \/ uncheckAllVisibleProfiles(hits)
                 \/ invertCheckedVisibleProfiles(hits)
      <4>1. PICK hits \in SUBSET Profiles :
                 \/ Check(checkedSet \cup Visible(hits)) \/ Check(checkedSet \ Visible(hits))
                 \/ Check(Flip(Visible(hits)))
        BY <3>3 DEF checkAllVisibleProfiles, uncheckAllVisibleProfiles, invertCheckedVisibleProfiles
      <4>2. /\ checkedSet \cup Visible(hits) \in SUBSET Listed
            /\ checkedSet \ Visible(hits) \in SUBSET Listed
            /\ Flip(Visible(hits)) \in SUBSET Listed
        BY <2>1, <2>2 DEF Flip
      <4>3. QED
        BY <4>1, <4>2
    <3>4. CASE \E p \in Listed : setProfileChecked(p)
      <4>1. PICK p \in Listed : Check(checkedSet \cup {p}) \/ Check(checkedSet \ {p})
        BY <3>4 DEF setProfileChecked
      <4>2. checkedSet \cup {p} \in SUBSET Listed /\ checkedSet \ {p} \in SUBSET Listed
        BY <2>1
      <4>3. QED
        BY <4>1, <4>2
    <3>5. QED
      BY <1>6, <3>1, <3>2, <3>3, <3>4
  <2>4. QED
    BY <2>3, ViewStep
<1>7. CASE setShowOnlyChecked \/ \E i \in DOMAIN rows : select(i)
  BY <1>7, ViewStep
<1>8. CASE updateSelectedProfileItem \/ setGroupForCheckedProfiles
  BY <1>8, EditStep
<1>9. CASE \E p \in Profiles :
             \/ onProfileStatus(p)
             \/ agentStart(p) \/ agentStop(p)
             \/ browserStarts(p) \/ runningCheck(p) \/ browserEnds(p)
  BY <1>9, StatusStep, AgentStartStep, AgentStopStep, BrowserStep
<1>10. CASE UNCHANGED vars
  <2>1. /\ UNCHANGED <<listVars, selected, checkVars, gone>>
        /\ UNCHANGED agentVars /\ events' = events
    BY <1>10 DEF vars
  <2>2. /\ ListType' /\ ViewType' /\ ViewsAgree' /\ StoredAsShown'
        /\ Known' = Known /\ rows' = rows
    BY <2>1, ListSame
  <2>3. AgentType' /\ OnlyOfKnown' /\ LastReportIsTrue'
    BY <2>1, <2>2, AgentSame
  <2>4. QED
    BY <2>1, <2>2, <2>3, Parts, PartsNext
<1>11. QED
  BY <1>1, <1>2, <1>3, <1>4, <1>5, <1>6, <1>7, <1>8, <1>9, <1>10 DEF Next

(* The console, its database, the connection and the agent keep together    *)
(* what the four promises below need, in every reachable state.             *)
THEOREM Invariance == Spec => []IInv
<1>1. Init => IInv
  BY InitIInv
<1>2. IInv /\ [Next]_vars => IInv'
  BY NextIInv
<1>3. QED
  BY <1>1, <1>2, PTL DEF Spec

(* No row is listed twice, and the index of the selected row is one of the  *)
(* list whenever a row is listed, whatever is created, deleted or loaded    *)
(* (AppController.cpp, deleteCheckedProfiles and deleteSelectedProfile).    *)
THEOREM TypeCorrect == Spec => []TypeOK
<1>1. IInv => TypeOK
  BY DEF IInv
<1>2. QED
  BY <1>1, Invariance, PTL

(* What is checked is the same in the set, the list of ids and the filter,  *)
(* and of listed profiles only, so that a bulk operation reaches the        *)
(* profiles that are shown as checked (AppController.cpp:3282, 1702, 1853). *)
THEOREM ViewsStayInStep == Spec => []ViewsAgree
<1>1. IInv => ViewsAgree
  BY DEF IInv
<1>2. QED
  BY <1>1, Invariance, PTL

(* A profile whose last write did not fail is in the database as it is      *)
(* listed, and a report about a deleted profile does not bring it back      *)
(* (AppController.cpp:198-212, 455-468, 1717, 2304).                        *)
THEOREM StoredIsShown == Spec => []StoredAsShown
<1>1. IInv => StoredAsShown
  BY DEF IInv
<1>2. QED
  BY <1>1, Invariance, PTL

(* With nothing of a profile on its way, the status written ahead of the    *)
(* agent or after it is no lie about its browser (AppController.cpp:206,    *)
(* 1633, 1669).                                                             *)
THEOREM QuietStatusHolds == Spec => []QuietStatusIsTrue
<1>1. IInv => QuietStatusIsTrue
  BY DEF IInv, LastReportIsTrue, Reported, Fits, QuietStatusIsTrue, Quiet
<1>2. QED
  BY <1>1, Invariance, PTL
=============================================================================
