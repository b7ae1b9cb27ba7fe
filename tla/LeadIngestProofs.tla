--------------------------- MODULE LeadIngestProofs ---------------------------
(***************************************************************************)
(* Proofs about LeadIngest, for any set of requests, files, spellings and  *)
(* numbers of faults.  IngestInv ties the table of leads, the open         *)
(* transactions and the requests' summaries and background tasks together. *)
(***************************************************************************)
EXTENDS LeadIngest, FiniteSetTheorems, TLAPS

-----------------------------------------------------------------------------
(* The inductive invariant                                                   *)

Outcomes  == {"created", "skipped", "error"}
Locations == {"new", "row", "insert", "commit", "queue", "accepted", "dead"}
                \union Refused

\* The request works on a row of its own that has an address.
InHand(r) == row[r] \in DOMAIN Rows[r] /\ TypedNow(r) # Malformed

RowsInHand == \A r \in Requests : at[r] \in {"insert", "commit", "queue"} => InHand(r)

\* The unique index lets one open transaction at a time hold an address, and none that a
\* committed row has.
OneInserter ==
    /\ \A r \in Requests : at[r] = "commit" => pending[Address(r)] = r
    /\ \A a \in Addresses : pending[a] # Nobody =>
          /\ at[pending[a]] = "commit" /\ Address(pending[a]) = a
          /\ lead[a] = "absent"

\* A row has a creator once it is committed, and a request that has not begun has none.
CreatorIsKnown ==
    /\ \A a \in Addresses : lead[a] = "absent" <=> creator[a] = Nobody
    /\ \A r \in Requests : at[r] = "new" => StoredBy(r) = {}

\* The address that request r has stored as its row i, of those it counts as created.
ToldAddress(r, i) == Stored[Rows[r][i]]

\* Only rows with an address are counted as created.
ToldAreTyped ==
    \A r \in Requests : \A i \in Told(r) : i \in DOMAIN Rows[r] /\ Rows[r][i] \in Typed

\* A row just committed is its request's, and neither queued nor counted yet; short of a
\* database error it is the only one of the request's that is not counted.
FreshlyCommitted(r) ==
    /\ creator[Address(r)] = r /\ runs[Address(r)] = 0
    /\ Address(r) \notin Elements(tasks[r])
    /\ \A i \in Told(r) : ToldAddress(r, i) # Address(r)
    /\ dbErrors[r] = 0 =>
          \A a \in StoredBy(r) : a = Address(r) \/ \E i \in Told(r) : ToldAddress(r, i) = a

CommittedIsFresh == \A r \in Requests : at[r] = "queue" => FreshlyCommitted(r)

\* What SummaryIsHonest says of one request.
HonestTo(r) ==
    /\ \A i \in Told(r) : creator[ToldAddress(r, i)] = r
    /\ \A i, k \in Told(r) : ToldAddress(r, i) = ToldAddress(r, k) => i = k
    /\ at[r] \in {"row", "insert", "commit", "accepted"} /\ dbErrors[r] = 0 =>
          \A a \in StoredBy(r) : \E i \in Told(r) : ToldAddress(r, i) = a
    /\ at[r] \in Refused /\ dbErrors[r] = 0 => StoredBy(r) = {}

IngestInv ==
    /\ TypeOK /\ RowsInHand /\ OneInserter /\ CreatorIsKnown
    /\ ToldAreTyped /\ CommittedIsFresh
    /\ SummaryIsHonest /\ QueuedOnce /\ StrandedIsFault /\ OwnDuplicatesAreSkipped
-----------------------------------------------------------------------------
(* Rows, addresses and summaries                                             *)

\* A row of a request is an address as typed or a malformed one.
LEMMA RowsType ==
    ASSUME NEW r \in Requests
    PROVE  /\ Rows[r] \in Seq(Typed \union {Malformed})
           /\ Len(Rows[r]) \in Nat /\ DOMAIN Rows[r] = 1..Len(Rows[r])
           /\ \A i \in DOMAIN Rows[r] : Rows[r][i] \in Typed \union {Malformed}
<1>1. Rows[r] \in Seq(Typed \union {Malformed})
    BY IngestAssumption
<1> QED
    BY <1>1

\* What is stored for an address as typed is an address of the table.
LEMMA StoredType ==
    ASSUME NEW t \in Typed
    PROVE  Stored[t] \in Addresses
BY IngestAssumption

\* A row in hand has an address.
LEMMA AddressType ==
    ASSUME NEW r \in Requests, InHand(r)
    PROVE  TypedNow(r) \in Typed /\ Address(r) \in Addresses
<1>1. TypedNow(r) \in Typed
    BY RowsType DEF InHand, TypedNow
<1> QED
    BY <1>1, StoredType DEF Address

\* The shape of the requests' variables.
LEMMA RequestTypes ==
    ASSUME TypeOK, NEW r \in Requests
    PROVE  /\ at[r] \in Locations /\ row[r] \in Nat \ {0}
           /\ outcome[r] \in Seq(Outcomes) /\ tasks[r] \in Seq(Addresses)
           /\ Len(outcome[r]) = row[r] - 1 /\ row[r] <= Len(Rows[r]) + 1
           /\ DOMAIN outcome[r] = 1..(row[r] - 1)
           /\ DOMAIN tasks[r] = 1..Len(tasks[r]) /\ Len(tasks[r]) \in Nat
           /\ dbErrors[r] \in 0..MaxDbErrors
<1>1. /\ at[r] \in Locations /\ row[r] \in Nat \ {0}
      /\ outcome[r] \in Seq(Outcomes) /\ tasks[r] \in Seq(Addresses)
      /\ Len(outcome[r]) = row[r] - 1 /\ row[r] <= Len(Rows[r]) + 1
      /\ dbErrors[r] \in 0..MaxDbErrors
    BY DEF TypeOK, Locations, Outcomes
<1> QED
    BY <1>1

\* A request's history stands where its variables do.
LEMMA RequestStands ==
    ASSUME NEW r \in Requests, outcome'[r] = outcome[r]
    PROVE  Told(r)' = Told(r)
BY DEF Told

\* Noting a row adds it to the told ones exactly when it was created.
LEMMA NotedTold ==
    ASSUME TypeOK, NEW r \in Requests, NEW o \in Outcomes,
           outcome'[r] = Append(outcome[r], o)
    PROVE  /\ o = "created" => Told(r)' = Told(r) \union {row[r]}
           /\ o # "created" => Told(r)' = Told(r)
           /\ row[r] \notin Told(r)
<1> DEFINE s == outcome[r]
           t == Append(s, o)
<1>1. /\ s \in Seq(Outcomes) /\ Len(s) = row[r] - 1 /\ row[r] \in Nat \ {0}
      /\ DOMAIN s = 1..(row[r] - 1)
    BY RequestTypes
<1>2. /\ DOMAIN t = DOMAIN s \union {row[r]} /\ row[r] \notin DOMAIN s
      /\ t[row[r]] = o /\ \A i \in DOMAIN s : t[i] = s[i]
    BY <1>1
<1> HIDE DEF t
<1>3. /\ Told(r)' = {i \in DOMAIN t : t[i] = "created"}
      /\ Told(r) = {i \in DOMAIN s : s[i] = "created"}
    BY DEF Told, t
<1> HIDE DEF s
<1> QED
    BY <1>2, <1>3

\* The summaries are honest request by request, before and after a step.
LEMMA SummaryByRequest ==
    /\ SummaryIsHonest <=> \A r \in Requests : HonestTo(r)
    /\ SummaryIsHonest' <=> \A r \in Requests : HonestTo(r)'
BY DEF SummaryIsHonest, HonestTo, ToldAddress

\* So is what is said of the rows just committed.
LEMMA FreshByRequest ==
    /\ CommittedIsFresh <=> \A r \in Requests : at[r] = "queue" => FreshlyCommitted(r)
    /\ CommittedIsFresh' <=> \A r \in Requests : at'[r] = "queue" => FreshlyCommitted(r)'
BY DEF CommittedIsFresh

-----------------------------------------------------------------------------
(* Steps that only move on                                                   *)

\* The request goes from one point to another and nothing else changes.
Moves(r, l) ==
    /\ Goto(r, l)
    /\ UNCHANGED <<table, row, outcome, tasks, runs, dbErrors, crashes>>

LEMMA MoveKeepsInv ==
    ASSUME IngestInv, NEW r \in Requests, NEW l, Moves(r, l),
           \/ l = "row" /\ at[r] = "new"
           \/ /\ l = "insert" /\ at[r] = "row" /\ InHand(r)
              /\ Kind[r] = "raw" \/ ~Duplicate(r)
           \/ l = "accepted" /\ at[r] = "row"
    PROVE  IngestInv'
<1>1. /\ at \in [Requests -> Locations] /\ at' = [at EXCEPT ![r] = l]
      /\ UNCHANGED <<lead, creator, pending, row, outcome, tasks, runs, dbErrors, crashes>>
    BY DEF IngestInv, TypeOK, Moves, Goto, table, Locations
<1>2. at'[r] = l /\ \A q \in Requests \ {r} : at'[q] = at[q]
    BY <1>1
<1>3. \A q \in Requests : Told(q)' = Told(q) /\ Address(q)' = Address(q)
    BY <1>1 DEF Told, Address, TypedNow
<1>4. TypeOK'
    BY <1>1 DEF IngestInv, TypeOK, Locations, Refused
<1>5. RowsInHand'
    BY <1>1, <1>2 DEF IngestInv, RowsInHand, InHand, TypedNow
<1>6. OneInserter'
    BY <1>1, <1>2, <1>3 DEF IngestInv, OneInserter, TypeOK
<1>7. CreatorIsKnown'
    BY <1>1, <1>2 DEF IngestInv, CreatorIsKnown, StoredBy
<1>8. ToldAreTyped'
    BY <1>3 DEF IngestInv, ToldAreTyped
<1>9. CommittedIsFresh'
    BY <1>1, <1>2, <1>3
       DEF IngestInv, CommittedIsFresh, FreshlyCommitted, StoredBy, ToldAddress, Elements
<1>10. SummaryIsHonest'
    BY <1>1, <1>2, <1>3 DEF IngestInv, SummaryIsHonest, CreatorIsKnown, StoredBy, Refused
<1>11. QueuedOnce'
    BY <1>1 DEF IngestInv, QueuedOnce, Elements
<1>12. StrandedIsFault'
    BY <1>1, <1>2, <1>3 DEF IngestInv, StrandedIsFault, Stranded, Elements, TypeOK
<1>13. OwnDuplicatesAreSkipped'
    <2> SUFFICES ASSUME NEW q \in Requests, at'[q] = "insert", Kind[q] # "raw",
                        TypedNow(q)' \in Addresses, lead'[Address(q)'] = "active"
                 PROVE  creator'[Address(q)'] # q
        BY DEF OwnDuplicatesAreSkipped
    <2>1. /\ TypedNow(q)' = TypedNow(q) /\ Address(q)' = Address(q)
          /\ UNCHANGED <<lead, creator>>
        BY <1>1, <1>3 DEF TypedNow
    <2>2. CASE q = r
        <3>1. l = "insert" /\ ~Duplicate(r)
            BY <1>2, <2>2
        <3>2. Address(r) = TypedNow(r)
            BY <2>1, <2>2, IngestAssumption DEF Address
        <3> QED
            BY <2>1, <2>2, <3>1, <3>2 DEF Duplicate
    <2>3. CASE q # r
        <3>1. at[q] = "insert"
            BY <1>2, <2>3
        <3> QED
            BY <2>1, <3>1 DEF IngestInv, OwnDuplicatesAreSkipped
    <2> QED
        BY <2>2, <2>3
<1> QED
    BY <1>4, <1>5, <1>6, <1>7, <1>8, <1>9, <1>10, <1>11, <1>12, <1>13 DEF IngestInv

-----------------------------------------------------------------------------
(* Rows that are given up                                                    *)

\* The request's transaction, if one is open, is gone, and a database error that ended it
\* is counted; nothing else changes outside the request.
GivesUp(r) ==
    /\ pending' = [a \in Addresses |-> IF pending[a] = r THEN Nobody ELSE pending[a]]
    /\ UNCHANGED <<lead, creator, runs>>
    /\ dbErrors' \in [Requests -> 0..MaxDbErrors]
    /\ \A q \in Requests : dbErrors'[q] = dbErrors[q] \/ (q = r /\ dbErrors'[r] > 0)
    /\ crashes' \in 0..MaxCrashes

\* A request that has no transaction open loses none.
LEMMA NothingPending ==
    ASSUME IngestInv, NEW r \in Requests, at[r] # "commit"
    PROVE  pending = [a \in Addresses |-> IF pending[a] = r THEN Nobody ELSE pending[a]]
<1>1. pending \in [Addresses -> Requests \union {Nobody}]
    BY DEF IngestInv, TypeOK
<1>2. \A a \in Addresses : pending[a] # r
    BY NobodyAssumption DEF IngestInv, OneInserter
<1> QED
    BY <1>1, <1>2

\* Giving up leaves the other transactions as they were.
LEMMA GivenUp ==
    ASSUME IngestInv, NEW r \in Requests, GivesUp(r),
           at' \in [Requests -> Locations], at'[r] # "commit",
           \A q \in Requests \ {r} : at'[q] = at[q] /\ Address(q)' = Address(q)
    PROVE  /\ pending' \in [Addresses -> Requests \union {Nobody}]
           /\ OneInserter'
<1>1. pending \in [Addresses -> Requests \union {Nobody}] /\ lead' = lead
    BY DEF IngestInv, TypeOK, GivesUp
<1>2. \A a \in Addresses :
         pending'[a] = IF pending[a] = r THEN Nobody ELSE pending[a]
    BY DEF GivesUp
<1>3. pending' \in [Addresses -> Requests \union {Nobody}]
    BY <1>1 DEF GivesUp
<1>4. ASSUME NEW q \in Requests, at'[q] = "commit"
      PROVE  pending'[Address(q)'] = q
    <2>1. q # r /\ at[q] = "commit" /\ Address(q)' = Address(q)
        BY <1>4
    <2>2. Address(q) \in Addresses /\ pending[Address(q)] = q
        BY <2>1, AddressType DEF IngestInv, OneInserter, RowsInHand
    <2> QED
        BY <1>2, <2>1, <2>2
<1>5. ASSUME NEW a \in Addresses, pending'[a] # Nobody
      PROVE  (at[pending[a]] = "commit" /\ Address(pending[a]) = a /\ lead[a] = "absent")'
    <2>1. PICK q \in Requests : q = pending[a] /\ q # r /\ pending'[a] = q
        BY <1>1, <1>2, <1>5
    <2>2. at[q] = "commit" /\ Address(q) = a /\ lead[a] = "absent"
        BY <1>5, <2>1, NobodyAssumption DEF IngestInv, OneInserter
    <2>3. at'[q] = "commit" /\ Address(q)' = a
        BY <2>1, <2>2
    <2> QED
        BY <1>1, <2>1, <2>2, <2>3 DEF Address, TypedNow
<1> QED
    BY <1>3, <1>4, <1>5 DEF OneInserter

\* An import notes that it skipped a row, or failed on it, and goes on.  A row that was
\* already committed is only given up to a database error.
LEMMA NoteKeepsInv ==
    ASSUME IngestInv, NEW r \in Requests, NEW o \in {"skipped", "error"},
           Note(r, o), GivesUp(r), tasks' = tasks,
           row[r] \in DOMAIN Rows[r],
           \/ at[r] \in {"row", "insert", "commit"}
           \/ at[r] = "queue" /\ dbErrors'[r] > 0
    PROVE  IngestInv'
<1>1. /\ at \in [Requests -> Locations] /\ row \in [Requests -> Nat \ {0}]
      /\ outcome \in [Requests -> Seq(Outcomes)]
    BY DEF IngestInv, TypeOK, Locations, Outcomes
<1>2. /\ at' \in [Requests -> Locations] /\ at'[r] = "row"
      /\ row' \in [Requests -> Nat \ {0}] /\ row'[r] = row[r] + 1
      /\ outcome' \in [Requests -> Seq(Outcomes)] /\ outcome'[r] = Append(outcome[r], o)
      /\ \A q \in Requests \ {r} :
            at'[q] = at[q] /\ row'[q] = row[q] /\ outcome'[q] = outcome[q]
      /\ UNCHANGED <<lead, creator, runs, tasks>>
    <2>1. row[r] + 1 \in Nat \ {0} /\ Append(outcome[r], o) \in Seq(Outcomes)
        BY <1>1 DEF Outcomes
    <2> QED
        BY <1>1, <2>1 DEF Note, Goto, Locations, GivesUp
<1>3. /\ \A q \in Requests : Told(q)' = Told(q)
      /\ \A q \in Requests \ {r} : Address(q)' = Address(q) /\ TypedNow(q)' = TypedNow(q)
    <2>1. Told(r)' = Told(r)
        BY <1>2, NotedTold DEF IngestInv, Outcomes
    <2>2. ASSUME NEW q \in Requests \ {r}
          PROVE  /\ Told(q)' = Told(q) /\ TypedNow(q)' = TypedNow(q)
                 /\ Address(q)' = Address(q)
        BY <1>2 DEF Told, Address, TypedNow
    <2> QED
        BY <2>1, <2>2
<1>4. pending' \in [Addresses -> Requests \union {Nobody}] /\ OneInserter'
    BY <1>2, <1>3, GivenUp
<1>5. TypeOK'
    <2>1. \A q \in Requests :
             Len(outcome'[q]) = row'[q] - 1 /\ row'[q] <= Len(Rows[q]) + 1
        <3>1. Len(outcome'[r]) = row'[r] - 1 /\ row'[r] <= Len(Rows[r]) + 1
            BY <1>1, <1>2, RequestTypes, RowsType DEF IngestInv
        <3> QED
            BY <1>2, <3>1 DEF IngestInv, TypeOK
    <2> QED
        BY <1>2, <1>4, <2>1
           DEF IngestInv, TypeOK, GivesUp, Locations, Outcomes
<1>6. RowsInHand'
    BY <1>2, <1>3 DEF IngestInv, RowsInHand, InHand
<1>7. CreatorIsKnown'
    BY <1>2 DEF IngestInv, CreatorIsKnown, StoredBy
<1>8. ToldAreTyped'
    BY <1>3 DEF IngestInv, ToldAreTyped
<1>9. \A q \in Requests : dbErrors'[q] = 0 => dbErrors[q] = 0
    BY DEF GivesUp
<1>10. CommittedIsFresh'
    <2> SUFFICES ASSUME NEW q \in Requests, at'[q] = "queue"
                 PROVE  FreshlyCommitted(q)'
        BY FreshByRequest
    <2>1. q # r /\ at[q] = "queue"
        BY <1>2
    <2>2. /\ Address(q)' = Address(q) /\ Told(q)' = Told(q) /\ StoredBy(q)' = StoredBy(q)
          /\ Elements(tasks[q])' = Elements(tasks[q])
        BY <1>2, <1>3, <2>1 DEF StoredBy, Elements
    <2> QED
        BY <1>2, <1>9, <2>1, <2>2
           DEF IngestInv, CommittedIsFresh, FreshlyCommitted, ToldAddress
<1>11. SummaryIsHonest'
    <2> SUFFICES ASSUME NEW q \in Requests PROVE HonestTo(q)'
        BY SummaryByRequest
    <2>1. Told(q)' = Told(q) /\ StoredBy(q)' = StoredBy(q)
        BY <1>2, <1>3 DEF StoredBy
    <2>2. HonestTo(q)
        BY SummaryByRequest DEF IngestInv
    <2>3. CASE q = r
        BY <1>2, <1>9, <2>1, <2>2, <2>3 DEF HonestTo, Refused
    <2>4. CASE q # r
        BY <1>2, <1>9, <2>1, <2>2, <2>4 DEF HonestTo
    <2> QED
        BY <2>3, <2>4
<1>12. QueuedOnce'
    BY <1>2 DEF IngestInv, QueuedOnce, Elements
<1>13. StrandedIsFault'
    <2> SUFFICES ASSUME NEW a \in Addresses, Stranded(a)'
                 PROVE  at'[creator'[a]] = "dead" \/ dbErrors'[creator'[a]] > 0
        BY DEF StrandedIsFault
    <2>1. PICK q \in Requests : q = creator[a]
        BY <1>2 DEF IngestInv, TypeOK, Stranded
    <2>2. CASE q = r
        <3>1. /\ creator[a] = r /\ runs[a] = 0 /\ a \notin Elements(tasks[r])
              /\ r # Nobody
            BY <1>2, <2>1, <2>2, NobodyAssumption DEF Stranded, Elements
        <3>2. at[r] = "queue" \/ dbErrors[r] > 0
            BY <3>1 DEF IngestInv, StrandedIsFault, Stranded
        <3>3. dbErrors'[r] > 0
            BY <3>2 DEF GivesUp
        <3> QED
            BY <1>2, <2>1, <2>2, <3>3
    <2>3. CASE q # r
        <3>1. Stranded(a)
            BY <1>2, <1>3, <2>1, <2>3 DEF Stranded, Elements
        <3>2. at[q] = "dead" \/ dbErrors[q] > 0
            BY <2>1, <3>1 DEF IngestInv, StrandedIsFault
        <3> QED
            BY <1>2, <2>1, <2>3, <3>2 DEF GivesUp
    <2> QED
        BY <2>2, <2>3
<1>14. OwnDuplicatesAreSkipped'
    <2> SUFFICES ASSUME NEW q \in Requests, at'[q] = "insert", Kind[q] # "raw",
                        TypedNow(q)' \in Addresses, lead'[Address(q)'] = "active"
                 PROVE  creator'[Address(q)'] # q
        BY DEF OwnDuplicatesAreSkipped
    <2>1. q # r /\ at[q] = "insert"
        BY <1>2
    <2>2. /\ TypedNow(q)' = TypedNow(q) /\ Address(q)' = Address(q)
          /\ UNCHANGED <<lead, creator>>
        BY <1>2, <1>3, <2>1
    <2> QED
        BY <2>1, <2>2 DEF IngestInv, OwnDuplicatesAreSkipped
<1> QED
    BY <1>4, <1>5, <1>6, <1>7, <1>8, <1>10, <1>11, <1>12, <1>13, <1>14 DEF IngestInv

\* A request is turned away, fails or dies: its tasks are gone.  Short of a database error
\* one that is refused has stored nothing.
LEMMA RefuseKeepsInv ==
    ASSUME IngestInv, NEW r \in Requests, NEW l \in Refused \union {"dead"},
           Refuse(r, l), GivesUp(r),
           l = "dead" \/ dbErrors'[r] > 0 \/ StoredBy(r) = {}
    PROVE  IngestInv'
<1>1. /\ at \in [Requests -> Locations]
      /\ tasks \in [Requests -> Seq(Addresses)]
    BY DEF IngestInv, TypeOK, Locations
<1>2. /\ at' \in [Requests -> Locations] /\ at'[r] = l
      /\ tasks' \in [Requests -> Seq(Addresses)] /\ tasks'[r] = <<>>
      /\ \A q \in Requests \ {r} : at'[q] = at[q] /\ tasks'[q] = tasks[q]
      /\ UNCHANGED <<lead, creator, runs, row, outcome>>
    <2>1. l \in Locations /\ <<>> \in Seq(Addresses)
        BY DEF Locations
    <2> QED
        BY <1>1, <2>1 DEF Refuse, Goto, GivesUp
<1>3. l \notin {"new", "row", "insert", "commit", "queue", "accepted"}
    BY DEF Refused
<1>4. \A q \in Requests :
         /\ Told(q)' = Told(q) /\ StoredBy(q)' = StoredBy(q)
         /\ Address(q)' = Address(q) /\ TypedNow(q)' = TypedNow(q)
    BY <1>2 DEF Told, StoredBy, Address, TypedNow
<1>5. pending' \in [Addresses -> Requests \union {Nobody}] /\ OneInserter'
    BY <1>2, <1>3, <1>4, GivenUp
<1>6. \A q \in Requests : dbErrors'[q] = 0 => dbErrors[q] = 0
    BY DEF GivesUp
<1>7. TypeOK'
    BY <1>2, <1>5 DEF IngestInv, TypeOK, GivesUp, Locations
<1>8. RowsInHand'
    BY <1>2, <1>3, <1>4 DEF IngestInv, RowsInHand, InHand
<1>9. CreatorIsKnown'
    BY <1>2, <1>3, <1>4 DEF IngestInv, CreatorIsKnown
<1>10. ToldAreTyped'
    BY <1>4 DEF IngestInv, ToldAreTyped
<1>11. CommittedIsFresh'
    <2> SUFFICES ASSUME NEW q \in Requests, at'[q] = "queue"
                 PROVE  FreshlyCommitted(q)'
        BY FreshByRequest
    <2>1. q # r /\ at[q] = "queue" /\ Elements(tasks[q])' = Elements(tasks[q])
        BY <1>2, <1>3 DEF Elements
    <2>2. FreshlyCommitted(q)
        BY <2>1, FreshByRequest DEF IngestInv
    <2> QED
        BY <1>2, <1>4, <1>6, <2>1, <2>2 DEF FreshlyCommitted, ToldAddress
<1>12. SummaryIsHonest'
    <2> SUFFICES ASSUME NEW q \in Requests PROVE HonestTo(q)'
        BY SummaryByRequest
    <2>1. HonestTo(q)
        BY SummaryByRequest DEF IngestInv
    <2>2. CASE q = r
        <3>1. l \in Refused /\ dbErrors'[r] = 0 => StoredBy(r) = {}
            BY DEF Refused
        <3> QED
            BY <1>2, <1>3, <1>4, <2>1, <2>2, <3>1 DEF HonestTo, ToldAddress
    <2>3. CASE q # r
        BY <1>2, <1>4, <1>6, <2>1, <2>3 DEF HonestTo, ToldAddress
    <2> QED
        BY <2>2, <2>3
<1>13. QueuedOnce'
    <2>1. \A q \in Requests :
             /\ \A a \in Elements(tasks'[q]) : creator[a] = q /\ runs[a] = 0
             /\ \A i, k \in DOMAIN tasks'[q] : tasks'[q][i] = tasks'[q][k] => i = k
        BY <1>2 DEF IngestInv, QueuedOnce, Elements
    <2> QED
        BY <1>2, <2>1 DEF IngestInv, QueuedOnce, Elements
<1>14. StrandedIsFault'
    <2> SUFFICES ASSUME NEW a \in Addresses, Stranded(a)'
                 PROVE  at'[creator'[a]] = "dead" \/ dbErrors'[creator'[a]] > 0
        BY DEF StrandedIsFault
    <2>1. PICK q \in Requests : q = creator[a] /\ q # Nobody
        BY <1>2 DEF IngestInv, TypeOK, Stranded
    <2>2. CASE q = r
        <3>1. StoredBy(r) # {}
            BY <2>1, <2>2 DEF StoredBy
        <3> QED
            BY <1>2, <2>1, <2>2, <3>1
    <2>3. CASE q # r
        <3>1. Stranded(a)
            BY <1>2, <1>4, <2>1, <2>3 DEF Stranded, Elements
        <3>2. at[q] = "dead" \/ dbErrors[q] > 0
            BY <2>1, <3>1 DEF IngestInv, StrandedIsFault
        <3> QED
            BY <1>2, <2>1, <2>3, <3>2 DEF GivesUp
    <2> QED
        BY <2>2, <2>3
<1>15. OwnDuplicatesAreSkipped'
    BY <1>2, <1>3, <1>4 DEF IngestInv, OwnDuplicatesAreSkipped
<1> QED
    BY <1>5, <1>7, <1>8, <1>9, <1>10, <1>11, <1>12, <1>13, <1>14, <1>15 DEF IngestInv

-----------------------------------------------------------------------------
(* The row's transaction                                                     *)

\* The insert opens the only transaction that holds the address.
LEMMA InsertKeepsInv ==
    ASSUME IngestInv, NEW r \in Requests, Insert(r)
    PROVE  IngestInv'
<1> DEFINE a == Address(r)
<1>1. /\ at \in [Requests -> Locations] /\ at' = [at EXCEPT ![r] = "commit"]
      /\ at[r] = "insert" /\ pending[a] = Nobody /\ lead[a] = "absent"
      /\ pending \in [Addresses -> Requests \union {Nobody}]
      /\ pending' = [pending EXCEPT ![a] = r]
      /\ UNCHANGED <<lead, creator, row, outcome, tasks, runs, dbErrors, crashes>>
    BY DEF IngestInv, TypeOK, Insert, Goto, Locations
<1>2. InHand(r) /\ a \in Addresses
    BY <1>1, AddressType DEF IngestInv, RowsInHand
<1>3. \A q \in Requests :
         /\ Told(q)' = Told(q) /\ StoredBy(q)' = StoredBy(q)
         /\ Address(q)' = Address(q) /\ TypedNow(q)' = TypedNow(q)
    BY <1>1 DEF Told, StoredBy, Address, TypedNow
<1>4. at'[r] = "commit" /\ \A q \in Requests \ {r} : at'[q] = at[q]
    BY <1>1
<1>5. TypeOK'
    BY <1>1 DEF IngestInv, TypeOK, Locations, Refused
<1>6. RowsInHand'
    BY <1>1, <1>2, <1>3, <1>4 DEF IngestInv, RowsInHand, InHand
<1>7. OneInserter'
    <2>1. ASSUME NEW q \in Requests, at'[q] = "commit"
          PROVE  pending'[Address(q)'] = q
        <3>1. CASE q = r
            BY <1>1, <1>2, <1>3, <3>1
        <3>2. CASE q # r
            <4>1. at[q] = "commit" /\ pending[Address(q)] = q /\ Address(q) \in Addresses
                BY <1>4, <2>1, <3>2, AddressType DEF IngestInv, OneInserter, RowsInHand
            <4>2. Address(q) # a
                BY <1>1, <4>1, NobodyAssumption
            <4> QED
                BY <1>1, <1>3, <4>1, <4>2
        <3> QED
            BY <3>1, <3>2
    <2>2. ASSUME NEW b \in Addresses, pending'[b] # Nobody
          PROVE  (/\ at[pending[b]] = "commit" /\ Address(pending[b]) = b
                  /\ lead[b] = "absent")'
        <3>1. CASE b = a
            BY <1>1, <1>2, <1>3, <1>4, <3>1 DEF Address, TypedNow
        <3>2. CASE b # a
            <4>1. PICK q \in Requests : q = pending[b] /\ pending'[b] = q
                BY <1>1, <2>2, <3>2
            <4>2. at[q] = "commit" /\ Address(q) = b /\ lead[b] = "absent"
                BY <4>1, NobodyAssumption DEF IngestInv, OneInserter
            <4>3. at'[q] = "commit" /\ Address(q)' = b
                BY <1>3, <1>4, <4>2
            <4> QED
                BY <1>1, <4>1, <4>2, <4>3 DEF Address, TypedNow
        <3> QED
            BY <3>1, <3>2
    <2> QED
        BY <2>1, <2>2 DEF OneInserter
<1>8. CreatorIsKnown' /\ ToldAreTyped'
    BY <1>1, <1>3, <1>4 DEF IngestInv, CreatorIsKnown, ToldAreTyped
<1>9. CommittedIsFresh'
    BY <1>1, <1>3, <1>4
       DEF IngestInv, CommittedIsFresh, FreshlyCommitted, ToldAddress, Elements
<1>10. SummaryIsHonest'
    BY <1>1, <1>3, <1>4 DEF IngestInv, SummaryIsHonest, Refused
<1>11. QueuedOnce'
    BY <1>1 DEF IngestInv, QueuedOnce, Elements
<1>12. StrandedIsFault'
    BY <1>1, <1>3, <1>4 DEF IngestInv, StrandedIsFault, Stranded, Elements, TypeOK
<1>13. OwnDuplicatesAreSkipped'
    BY <1>1, <1>3, <1>4 DEF IngestInv, OwnDuplicatesAreSkipped
<1> QED
    BY <1>5, <1>6, <1>7, <1>8, <1>9, <1>10, <1>11, <1>12, <1>13 DEF IngestInv

\* The commit stores a row nobody stored before; whoever waited for it collides with it.
LEMMA CommitKeepsInv ==
    ASSUME IngestInv, NEW r \in Requests, Commit(r)
    PROVE  IngestInv'
<1> DEFINE a == Address(r)
<1>1. /\ at \in [Requests -> Locations] /\ at' = [at EXCEPT ![r] = "queue"]
      /\ at[r] = "commit"
      /\ lead \in [Addresses -> {"absent", "active", "deleted"}]
      /\ lead' = [lead EXCEPT ![a] = "active"]
      /\ creator \in [Addresses -> Requests \union {Nobody}]
      /\ creator' = [creator EXCEPT ![a] = r]
      /\ pending \in [Addresses -> Requests \union {Nobody}]
      /\ pending' = [pending EXCEPT ![a] = Nobody]
      /\ UNCHANGED <<row, outcome, tasks, runs, dbErrors, crashes>>
    BY DEF IngestInv, TypeOK, Commit, Goto, Locations
<1>2. InHand(r) /\ a \in Addresses /\ pending[a] = r /\ lead[a] = "absent"
    BY <1>1, AddressType, NobodyAssumption DEF IngestInv, RowsInHand, OneInserter
<1>3. creator[a] = Nobody /\ runs[a] = 0
    <2>1. creator[a] = Nobody
        BY <1>2 DEF IngestInv, CreatorIsKnown
    <2>2. runs[a] \in Nat /\ runs[a] <= 1 /\ runs[a] # 1
        BY <1>2 DEF IngestInv, TypeOK, QueuedOnce
    <2> QED
        BY <2>1, <2>2
<1>4. \A q \in Requests :
         /\ Told(q)' = Told(q)
         /\ Address(q)' = Address(q) /\ TypedNow(q)' = TypedNow(q)
         /\ Elements(tasks[q])' = Elements(tasks[q])
    BY <1>1 DEF Told, Address, TypedNow, Elements
<1>5. /\ StoredBy(r)' = StoredBy(r) \union {a}
      /\ \A q \in Requests \ {r} : StoredBy(q)' = StoredBy(q)
    BY <1>1, <1>2, <1>3, NobodyAssumption DEF StoredBy
<1>6. at'[r] = "queue" /\ \A q \in Requests \ {r} : at'[q] = at[q]
    BY <1>1
<1>7. TypeOK'
    BY <1>1 DEF IngestInv, TypeOK, Locations, Refused
<1>8. RowsInHand'
    BY <1>1, <1>2, <1>4, <1>6 DEF IngestInv, RowsInHand, InHand
<1>9. OneInserter'
    <2>1. ASSUME NEW q \in Requests, at'[q] = "commit"
          PROVE  pending'[Address(q)'] = q
        <3>1. q # r /\ at[q] = "commit"
            BY <1>6, <2>1
        <3>2. pending[Address(q)] = q /\ Address(q) \in Addresses
            BY <3>1, AddressType DEF IngestInv, OneInserter, RowsInHand
        <3>3. Address(q) # a
            BY <1>2, <3>1, <3>2
        <3> QED
            BY <1>1, <1>4, <3>2, <3>3
    <2>2. ASSUME NEW b \in Addresses, pending'[b] # Nobody
          PROVE  (/\ at[pending[b]] = "commit" /\ Address(pending[b]) = b
                  /\ lead[b] = "absent")'
        <3>1. PICK q \in Requests : q = pending[b] /\ pending'[b] = q /\ b # a
            BY <1>1, <1>2, <2>2
        <3>2. at[q] = "commit" /\ Address(q) = b /\ lead[b] = "absent"
            BY <3>1, NobodyAssumption DEF IngestInv, OneInserter
        <3>3. at'[q] = "commit" /\ Address(q)' = b /\ lead'[b] = "absent"
            BY <1>1, <1>4, <1>6, <3>1, <3>2
        <3> QED
            BY <3>1, <3>3 DEF Address, TypedNow
    <2> QED
        BY <2>1, <2>2 DEF OneInserter
<1>10. CreatorIsKnown'
    <2>1. \A b \in Addresses : lead'[b] = "absent" <=> creator'[b] = Nobody
        BY <1>1, <1>2, NobodyAssumption DEF IngestInv, CreatorIsKnown
    <2>2. \A q \in Requests : at'[q] = "new" => StoredBy(q)' = {}
        BY <1>5, <1>6 DEF IngestInv, CreatorIsKnown
    <2> QED
        BY <2>1, <2>2 DEF CreatorIsKnown
<1>11. ToldAreTyped'
    BY <1>4 DEF IngestInv, ToldAreTyped
<1>12. \A q \in Requests : \A i \in Told(q) :
          ToldAddress(q, i) \in Addresses /\ creator[ToldAddress(q, i)] = q
    BY StoredType DEF IngestInv, ToldAreTyped, SummaryIsHonest, ToldAddress
<1>13. CommittedIsFresh'
    <2> SUFFICES ASSUME NEW q \in Requests, at'[q] = "queue"
                 PROVE  FreshlyCommitted(q)'
        BY FreshByRequest
    <2>1. CASE q = r
        <3>1. a \notin Elements(tasks[r])
            BY <1>2, <1>3, NobodyAssumption DEF IngestInv, QueuedOnce
        <3>2. \A i \in Told(r) : ToldAddress(r, i) # a
            BY <1>3, <1>12, NobodyAssumption
        <3>3. dbErrors[r] = 0 =>
                  \A b \in StoredBy(r) : \E i \in Told(r) : ToldAddress(r, i) = b
            BY <1>1 DEF IngestInv, SummaryIsHonest, ToldAddress
        <3> QED
            BY <1>1, <1>2, <1>3, <1>4, <1>5, <2>1, <3>1, <3>2, <3>3
               DEF FreshlyCommitted, ToldAddress
    <2>2. CASE q # r
        <3>1. at[q] = "queue" /\ FreshlyCommitted(q)
            BY <1>6, <2>2, FreshByRequest DEF IngestInv
        <3>2. Address(q) # a
            BY <1>3, <3>1, NobodyAssumption DEF FreshlyCommitted
        <3>3. creator'[Address(q)] = creator[Address(q)]
            BY <1>1, <3>2
        <3> QED
            BY <1>1, <1>4, <1>5, <2>2, <3>1, <3>3 DEF FreshlyCommitted, ToldAddress
    <2> QED
        BY <2>1, <2>2
<1>14. SummaryIsHonest'
    <2> SUFFICES ASSUME NEW q \in Requests PROVE HonestTo(q)'
        BY SummaryByRequest
    <2>1. HonestTo(q)
        BY SummaryByRequest DEF IngestInv
    <2>2. \A i \in Told(q) : creator'[ToldAddress(q, i)] = q
        BY <1>1, <1>3, <1>12, NobodyAssumption
    <2>3. CASE q = r
        BY <1>4, <1>6, <2>1, <2>2, <2>3 DEF HonestTo, ToldAddress, Refused
    <2>4. CASE q # r
        BY <1>1, <1>4, <1>5, <1>6, <2>1, <2>2, <2>4 DEF HonestTo, ToldAddress
    <2> QED
        BY <2>3, <2>4
<1>15. QueuedOnce'
    <2>1. ASSUME NEW q \in Requests, NEW b \in Elements(tasks[q])
          PROVE  creator'[b] = q /\ runs'[b] = 0
        <3>1. creator[b] = q /\ runs[b] = 0
            BY DEF IngestInv, QueuedOnce
        <3> QED
            BY <1>1, <1>3, <3>1, NobodyAssumption
    <2>2. \A b \in Addresses : runs'[b] <= 1 /\ (runs'[b] = 1 => lead'[b] # "absent")
        BY <1>1 DEF IngestInv, QueuedOnce
    <2> QED
        BY <1>1, <1>4, <2>1, <2>2 DEF IngestInv, QueuedOnce
<1>16. StrandedIsFault'
    <2> SUFFICES ASSUME NEW b \in Addresses, Stranded(b)'
                 PROVE  at'[creator'[b]] = "dead" \/ dbErrors'[creator'[b]] > 0
        BY DEF StrandedIsFault
    <2>1. b # a
        BY <1>1, <1>2, <1>4, <1>6 DEF Stranded
    <2>2. PICK q \in Requests : q = creator[b] /\ creator'[b] = q
        BY <1>1, <2>1 DEF Stranded
    <2>3. Stranded(b)
        BY <1>1, <1>4, <1>6, <2>2 DEF Stranded
    <2>4. at[q] = "dead" \/ dbErrors[q] > 0
        BY <2>2, <2>3 DEF IngestInv, StrandedIsFault
    <2> QED
        BY <1>1, <1>6, <2>2, <2>4
<1>17. OwnDuplicatesAreSkipped'
    <2> SUFFICES ASSUME NEW q \in Requests, at'[q] = "insert", Kind[q] # "raw",
                        TypedNow(q)' \in Addresses, lead'[Address(q)'] = "active"
                 PROVE  creator'[Address(q)'] # q
        BY DEF OwnDuplicatesAreSkipped
    <2>1. q # r /\ at[q] = "insert" /\ Address(q)' = Address(q) /\ Address(q) \in Addresses
        BY <1>4, <1>6, AddressType DEF IngestInv, RowsInHand
    <2>2. CASE Address(q) = a
        BY <1>1, <1>2, <2>1, <2>2
    <2>3. CASE Address(q) # a
        BY <1>1, <1>4, <2>1, <2>3 DEF IngestInv, OwnDuplicatesAreSkipped
    <2> QED
        BY <2>2, <2>3
<1> QED
    BY <1>7, <1>8, <1>9, <1>10, <1>11, <1>13, <1>14, <1>15, <1>16, <1>17 DEF IngestInv

\* The committed row is counted and its workflow queued, once.
LEMMA QueueKeepsInv ==
    ASSUME IngestInv, NEW r \in Requests, Queue(r)
    PROVE  IngestInv'
<1> DEFINE a == Address(r)
<1>1. /\ at \in [Requests -> Locations] /\ row \in [Requests -> Nat \ {0}]
      /\ outcome \in [Requests -> Seq(Outcomes)] /\ tasks \in [Requests -> Seq(Addresses)]
    BY DEF IngestInv, TypeOK, Locations, Outcomes
<1>2. /\ at[r] = "queue" /\ InHand(r) /\ a \in Addresses /\ FreshlyCommitted(r)
      /\ row[r] \in DOMAIN Rows[r] /\ Rows[r][row[r]] \in Typed
    BY AddressType, FreshByRequest DEF Queue, IngestInv, RowsInHand, InHand, TypedNow
<1>3. /\ at' \in [Requests -> Locations] /\ at'[r] = "row"
      /\ row' \in [Requests -> Nat \ {0}] /\ row'[r] = row[r] + 1
      /\ outcome' \in [Requests -> Seq(Outcomes)]
      /\ outcome'[r] = Append(outcome[r], "created")
      /\ tasks' \in [Requests -> Seq(Addresses)] /\ tasks'[r] = Append(tasks[r], a)
      /\ \A q \in Requests \ {r} : /\ at'[q] = at[q] /\ row'[q] = row[q]
                                   /\ outcome'[q] = outcome[q] /\ tasks'[q] = tasks[q]
      /\ UNCHANGED <<lead, creator, pending, runs, dbErrors, crashes>>
    <2>1. /\ row[r] + 1 \in Nat \ {0} /\ Append(outcome[r], "created") \in Seq(Outcomes)
          /\ Append(tasks[r], a) \in Seq(Addresses)
        BY <1>1, <1>2 DEF Outcomes
    <2> QED
        BY <1>1, <2>1 DEF Queue, Note, Goto, Locations, table
<1>4. /\ Told(r)' = Told(r) \union {row[r]} /\ ToldAddress(r, row[r]) = a
      /\ \A q \in Requests \ {r} :
            /\ Told(q)' = Told(q) /\ Address(q)' = Address(q)
            /\ TypedNow(q)' = TypedNow(q) /\ Elements(tasks[q])' = Elements(tasks[q])
    <2>1. Told(r)' = Told(r) \union {row[r]}
        BY <1>3, NotedTold DEF IngestInv, Outcomes
    <2>2. ToldAddress(r, row[r]) = a
        BY DEF ToldAddress, Address, TypedNow
    <2>3. ASSUME NEW q \in Requests \ {r}
          PROVE  /\ Told(q)' = Told(q) /\ Elements(tasks[q])' = Elements(tasks[q])
                 /\ TypedNow(q)' = TypedNow(q) /\ Address(q)' = Address(q)
        BY <1>3 DEF Told, Address, TypedNow, Elements
    <2> QED
        BY <2>1, <2>2, <2>3
<1>5. /\ DOMAIN tasks'[r] = DOMAIN tasks[r] \union {Len(tasks[r]) + 1}
      /\ tasks'[r][Len(tasks[r]) + 1] = a
      /\ \A i \in DOMAIN tasks[r] : tasks'[r][i] = tasks[r][i]
      /\ Elements(tasks[r])' = Elements(tasks[r]) \union {a}
    <2>1. /\ DOMAIN tasks'[r] = DOMAIN tasks[r] \union {Len(tasks[r]) + 1}
          /\ tasks'[r][Len(tasks[r]) + 1] = a
          /\ \A i \in DOMAIN tasks[r] : tasks'[r][i] = tasks[r][i]
        BY <1>1, <1>2, <1>3
    <2> HIDE DEF a
    <2> QED
        BY <2>1 DEF Elements
<1>6. \A q \in Requests : StoredBy(q)' = StoredBy(q)
    BY <1>3 DEF StoredBy
<1>7. TypeOK'
    <2>1. \A q \in Requests :
             Len(outcome'[q]) = row'[q] - 1 /\ row'[q] <= Len(Rows[q]) + 1
        <3>1. Len(outcome'[r]) = row'[r] - 1 /\ row'[r] <= Len(Rows[r]) + 1
            BY <1>1, <1>2, <1>3, RequestTypes, RowsType DEF IngestInv
        <3> QED
            BY <1>3, <3>1 DEF IngestInv, TypeOK
    <2> QED
        BY <1>3, <2>1 DEF IngestInv, TypeOK, Locations, Outcomes
<1>8. RowsInHand'
    BY <1>3, <1>4 DEF IngestInv, RowsInHand, InHand
<1>9. OneInserter'
    <2>1. ASSUME NEW b \in Addresses, pending'[b] # Nobody
          PROVE  (/\ at[pending[b]] = "commit" /\ Address(pending[b]) = b
                  /\ lead[b] = "absent")'
        <3>1. PICK q \in Requests : q = pending[b]
            BY <1>3, <2>1 DEF IngestInv, TypeOK
        <3>2. at[q] = "commit" /\ Address(q) = b /\ lead[b] = "absent"
            BY <1>3, <2>1, <3>1 DEF IngestInv, OneInserter
        <3> QED
            BY <1>2, <1>3, <1>4, <3>1, <3>2 DEF Address, TypedNow
    <2>2. ASSUME NEW q \in Requests, at'[q] = "commit"
          PROVE  pending'[Address(q)'] = q
        <3>1. q # r /\ at[q] = "commit"
            BY <1>3, <2>2
        <3>2. pending[Address(q)] = q /\ Address(q)' = Address(q)
            BY <1>4, <3>1 DEF IngestInv, OneInserter
        <3> QED
            BY <1>3, <3>2
    <2> QED
        BY <2>1, <2>2 DEF OneInserter
<1>10. CreatorIsKnown'
    BY <1>3, <1>6 DEF IngestInv, CreatorIsKnown
<1>11. ToldAreTyped'
    BY <1>2, <1>4 DEF IngestInv, ToldAreTyped
<1>12. CommittedIsFresh'
    <2> SUFFICES ASSUME NEW q \in Requests, at'[q] = "queue"
                 PROVE  FreshlyCommitted(q)'
        BY FreshByRequest
    <2>1. q # r /\ at[q] = "queue" /\ FreshlyCommitted(q)
        BY <1>3, FreshByRequest DEF IngestInv
    <2> QED
        BY <1>3, <1>4, <1>6, <2>1 DEF FreshlyCommitted, ToldAddress
<1>13. SummaryIsHonest'
    <2> SUFFICES ASSUME NEW q \in Requests PROVE HonestTo(q)'
        BY SummaryByRequest
    <2>1. HonestTo(q)
        BY SummaryByRequest DEF IngestInv
    <2>2. CASE q = r
        <3>1. \A i \in Told(r)' : i \in Told(r) \/ i = row[r]
            BY <1>4
        <3>2. \A i \in Told(r) : creator[ToldAddress(r, i)] = r /\ ToldAddress(r, i) # a
            BY <1>2, <2>1, <2>2 DEF HonestTo, FreshlyCommitted
        <3>3. \A i \in Told(r)' : creator'[ToldAddress(r, i)] = r
            BY <1>2, <1>3, <1>4, <3>1, <3>2 DEF FreshlyCommitted
        <3>4. \A i, k \in Told(r)' : ToldAddress(r, i) = ToldAddress(r, k) => i = k
            BY <1>4, <2>1, <2>2, <3>1, <3>2 DEF HonestTo
        <3>5. dbErrors'[r] = 0 =>
                 \A b \in StoredBy(r)' : \E i \in Told(r)' : ToldAddress(r, i) = b
            BY <1>2, <1>3, <1>4, <1>6 DEF FreshlyCommitted
        <3> HIDE DEF a
        <3> QED
            BY <1>3, <2>2, <3>3, <3>4, <3>5 DEF HonestTo, ToldAddress, Refused
    <2>3. CASE q # r
        BY <1>3, <1>4, <1>6, <2>1, <2>3 DEF HonestTo, ToldAddress
    <2> QED
        BY <2>2, <2>3
<1>14. QueuedOnce'
    <2>1. ASSUME NEW q \in Requests
          PROVE  (/\ \A b \in Elements(tasks[q]) : creator[b] = q /\ runs[b] = 0
                  /\ \A i, k \in DOMAIN tasks[q] : tasks[q][i] = tasks[q][k] => i = k)'
        <3>1. CASE q = r
            <4>1. /\ \A b \in Elements(tasks[r]) : creator[b] = r /\ runs[b] = 0
                  /\ \A i, k \in DOMAIN tasks[r] : tasks[r][i] = tasks[r][k] => i = k
                BY DEF IngestInv, QueuedOnce
            <4>2. creator[a] = r /\ runs[a] = 0 /\ a \notin Elements(tasks[r])
                BY <1>2 DEF FreshlyCommitted
            <4> HIDE DEF a
            <4>3. \A b \in Elements(tasks[r])' : creator'[b] = r /\ runs'[b] = 0
                BY <1>3, <1>5, <4>1, <4>2
            <4>4. \A i \in DOMAIN tasks[r] : tasks[r][i] # a
                BY <4>2 DEF Elements
            <4>5. \A i, k \in DOMAIN tasks'[r] : tasks'[r][i] = tasks'[r][k] => i = k
                BY <1>5, <4>1, <4>4
            <4> QED
                BY <3>1, <4>3, <4>5
        <3>2. CASE q # r
            <4>1. tasks'[q] = tasks[q] /\ Elements(tasks[q])' = Elements(tasks[q])
                BY <1>3, <1>4, <3>2
            <4>2. /\ \A b \in Elements(tasks[q]) : creator[b] = q /\ runs[b] = 0
                  /\ \A i, k \in DOMAIN tasks[q] : tasks[q][i] = tasks[q][k] => i = k
                BY DEF IngestInv, QueuedOnce
            <4> QED
                BY <1>3, <4>1, <4>2
        <3> QED
            BY <3>1, <3>2
    <2> QED
        BY <1>3, <2>1 DEF IngestInv, QueuedOnce
<1>15. StrandedIsFault'
    <2> SUFFICES ASSUME NEW b \in Addresses, Stranded(b)'
                 PROVE  at'[creator'[b]] = "dead" \/ dbErrors'[creator'[b]] > 0
        BY DEF StrandedIsFault
    <2>1. PICK q \in Requests : q = creator[b]
        BY <1>3 DEF IngestInv, TypeOK, Stranded
    <2>2. Stranded(b)
        BY <1>3, <1>4, <1>5, <2>1 DEF Stranded
    <2> QED
        BY <1>2, <1>3, <2>1, <2>2 DEF IngestInv, StrandedIsFault
<1>16. OwnDuplicatesAreSkipped'
    <2> SUFFICES ASSUME NEW q \in Requests, at'[q] = "insert", Kind[q] # "raw",
                        TypedNow(q)' \in Addresses, lead'[Address(q)'] = "active"
                 PROVE  creator'[Address(q)'] # q
        BY DEF OwnDuplicatesAreSkipped
    <2>1. q # r /\ at[q] = "insert"
        BY <1>3
    <2>2. /\ TypedNow(q)' = TypedNow(q) /\ Address(q)' = Address(q)
          /\ UNCHANGED <<lead, creator>>
        BY <1>3, <1>4, <2>1
    <2> QED
        BY <2>1, <2>2 DEF IngestInv, OwnDuplicatesAreSkipped
<1> QED
    BY <1>7, <1>8, <1>9, <1>10, <1>11, <1>12, <1>13, <1>14, <1>15, <1>16 DEF IngestInv

-----------------------------------------------------------------------------
(* Background tasks and deletions                                            *)

\* A workflow that starts was queued, once, by the request that stored the lead.
LEMMA RunTaskKeepsInv ==
    ASSUME IngestInv, NEW r \in Requests, RunTask(r)
    PROVE  IngestInv'
<1> DEFINE s == tasks[r]
           a == Head(s)
<1>1. /\ at[r] = "accepted" /\ tasks \in [Requests -> Seq(Addresses)]
      /\ runs \in [Addresses -> Nat]
      /\ s \in Seq(Addresses) /\ s # <<>>
      /\ runs' = [runs EXCEPT ![a] = @ + 1]
      /\ tasks' = [tasks EXCEPT ![r] = Tail(s)]
      /\ UNCHANGED <<lead, creator, pending, at, row, outcome, dbErrors, crashes>>
    BY DEF IngestInv, TypeOK, RunTask, table
<1>2. /\ a \in Addresses /\ a \in Elements(s) /\ Tail(s) \in Seq(Addresses)
      /\ \A i \in DOMAIN Tail(s) : i + 1 \in DOMAIN s /\ i + 1 # 1 /\ Tail(s)[i] = s[i + 1]
      /\ DOMAIN Tail(s) \subseteq Nat
      /\ a = s[1] /\ 1 \in DOMAIN s
    BY <1>1 DEF Elements
<1>3. /\ creator[a] = r /\ runs[a] = 0
      /\ \A i, k \in DOMAIN s : s[i] = s[k] => i = k
      /\ lead[a] # "absent" /\ a \notin Elements(Tail(s))
      /\ Elements(Tail(s)) \subseteq Elements(s)
      /\ Elements(s) \subseteq Elements(Tail(s)) \union {a}
    <2>1. creator[a] = r /\ runs[a] = 0 /\ \A i, k \in DOMAIN s : s[i] = s[k] => i = k
        BY <1>2 DEF IngestInv, QueuedOnce
    <2>2. lead[a] # "absent"
        BY <1>2, <2>1, NobodyAssumption DEF IngestInv, CreatorIsKnown
    <2>3. Elements(Tail(s)) \subseteq Elements(s) /\ a \notin Elements(Tail(s))
        BY <1>2, <2>1 DEF Elements
    <2>4. ASSUME NEW i \in DOMAIN s, i # 1
          PROVE  i - 1 \in DOMAIN Tail(s) /\ Tail(s)[i - 1] = s[i]
        <3>1. Len(s) \in Nat /\ i \in 1..Len(s) /\ Len(Tail(s)) = Len(s) - 1
            BY <1>1
        <3>2. i - 1 \in 1..Len(Tail(s)) /\ (i - 1) + 1 = i
            BY <2>4, <3>1
        <3> QED
            BY <1>1, <1>2, <3>2
    <2>5. ASSUME NEW b \in Elements(s), b # a
          PROVE  b \in Elements(Tail(s))
        <3>1. PICK i \in DOMAIN s : s[i] = b
            BY DEF Elements
        <3>2. i # 1
            BY <1>2, <2>5, <3>1
        <3> QED
            BY <2>4, <3>1, <3>2 DEF Elements
    <2> QED
        BY <2>1, <2>2, <2>3, <2>5
<1> HIDE DEF a
<1>4. /\ tasks'[r] = Tail(s) /\ \A q \in Requests \ {r} : tasks'[q] = tasks[q]
      /\ runs' \in [Addresses -> Nat] /\ runs'[a] = 1
      /\ \A b \in Addresses \ {a} : runs'[b] = runs[b]
      /\ tasks' \in [Requests -> Seq(Addresses)]
    BY <1>1, <1>2, <1>3
<1> HIDE DEF s
<1>5. \A q \in Requests :
         /\ Told(q)' = Told(q) /\ StoredBy(q)' = StoredBy(q)
         /\ Address(q)' = Address(q) /\ TypedNow(q)' = TypedNow(q)
    BY <1>1 DEF Told, StoredBy, Address, TypedNow
<1>6. TypeOK'
    BY <1>1, <1>4 DEF IngestInv, TypeOK
<1>7. RowsInHand' /\ ToldAreTyped' /\ CreatorIsKnown'
    BY <1>1, <1>5 DEF IngestInv, RowsInHand, InHand, ToldAreTyped, CreatorIsKnown
<1>8. OneInserter'
    BY <1>1, <1>5 DEF IngestInv, OneInserter, Address, TypedNow
<1>9. CommittedIsFresh'
    <2> SUFFICES ASSUME NEW q \in Requests, at'[q] = "queue"
                 PROVE  FreshlyCommitted(q)'
        BY FreshByRequest
    <2>1. q # r /\ at[q] = "queue" /\ FreshlyCommitted(q) /\ Address(q) \in Addresses
        BY <1>1, FreshByRequest, AddressType DEF IngestInv, RowsInHand
    <2>2. Address(q) # a
        BY <1>3, <2>1 DEF FreshlyCommitted
    <2> QED
        BY <1>1, <1>4, <1>5, <2>1, <2>2 DEF FreshlyCommitted, ToldAddress, Elements
<1>10. SummaryIsHonest'
    BY <1>1, <1>5 DEF IngestInv, SummaryIsHonest
<1>11. QueuedOnce'
    <2>1. ASSUME NEW b \in Addresses
          PROVE  runs'[b] <= 1 /\ (runs'[b] = 1 => lead'[b] # "absent")
        BY <1>1, <1>3, <1>4 DEF IngestInv, QueuedOnce
    <2>2. ASSUME NEW q \in Requests
          PROVE  (/\ \A b \in Elements(tasks[q]) : creator[b] = q /\ runs[b] = 0
                  /\ \A i, k \in DOMAIN tasks[q] : tasks[q][i] = tasks[q][k] => i = k)'
        <3>1. CASE q = r
            <4>1. ASSUME NEW b \in Elements(Tail(s))
                  PROVE  creator'[b] = r /\ runs'[b] = 0
                <5>1. b \in Elements(tasks[r]) /\ b # a
                    BY <1>3 DEF s
                <5>2. b \in Addresses
                    BY <1>1, <5>1 DEF Elements
                <5>3. creator[b] = r /\ runs[b] = 0
                    BY <5>1 DEF IngestInv, QueuedOnce
                <5> QED
                    BY <1>1, <1>4, <5>1, <5>2, <5>3
            <4>2. \A i, k \in DOMAIN Tail(s) : Tail(s)[i] = Tail(s)[k] => i = k
                BY <1>2, <1>3
            <4> QED
                BY <1>4, <3>1, <4>1, <4>2
        <3>2. CASE q # r
            <4>1. tasks'[q] = tasks[q]
                BY <1>4, <3>2
            <4>2. ASSUME NEW b \in Elements(tasks[q])
                  PROVE  creator'[b] = q /\ runs'[b] = 0
                <5>1. b \in Addresses /\ creator[b] = q /\ runs[b] = 0
                    BY <1>1 DEF IngestInv, QueuedOnce, Elements
                <5> QED
                    BY <1>1, <1>3, <1>4, <3>2, <5>1
            <4>3. \A i, k \in DOMAIN tasks[q] : tasks[q][i] = tasks[q][k] => i = k
                BY DEF IngestInv, QueuedOnce
            <4> QED
                BY <4>1, <4>2, <4>3 DEF Elements
        <3> QED
            BY <3>1, <3>2
    <2> QED
        BY <2>1, <2>2 DEF QueuedOnce
<1>12. StrandedIsFault'
    <2> SUFFICES ASSUME NEW b \in Addresses, Stranded(b)'
                 PROVE  at'[creator'[b]] = "dead" \/ dbErrors'[creator'[b]] > 0
        BY DEF StrandedIsFault
    <2>1. PICK q \in Requests : q = creator[b] /\ q # Nobody
        BY <1>1 DEF IngestInv, TypeOK, Stranded
    <2>2. b # a /\ runs[b] = 0
        BY <1>4 DEF Stranded
    <2>3. b \notin Elements(tasks[q])
        <3>1. CASE q = r
            BY <1>1, <1>3, <1>4, <2>1, <2>2, <3>1 DEF Stranded, s
        <3>2. CASE q # r
            BY <1>1, <1>4, <2>1, <3>2 DEF Stranded
        <3> QED
            BY <3>1, <3>2
    <2>4. Stranded(b)
        BY <1>1, <1>5, <2>1, <2>2, <2>3 DEF Stranded
    <2> QED
        BY <1>1, <2>1, <2>4 DEF IngestInv, StrandedIsFault
<1>13. OwnDuplicatesAreSkipped'
    BY <1>1, <1>5 DEF IngestInv, OwnDuplicatesAreSkipped
<1> QED
    BY <1>6, <1>7, <1>8, <1>9, <1>10, <1>11, <1>12, <1>13 DEF IngestInv

\* A deletion keeps the row, so it neither frees the address nor loses the creator.
LEMMA DeleteKeepsInv ==
    ASSUME IngestInv, NEW a \in Addresses, DeleteLead(a)
    PROVE  IngestInv'
<1>1. /\ lead \in [Addresses -> {"absent", "active", "deleted"}]
      /\ lead[a] = "active" /\ lead' = [lead EXCEPT ![a] = "deleted"]
      /\ UNCHANGED <<creator, pending, at, row, outcome, tasks, runs, dbErrors, crashes>>
    BY DEF IngestInv, TypeOK, DeleteLead, request
<1>2. /\ \A b \in Addresses : lead'[b] = "absent" <=> lead[b] = "absent"
      /\ \A b \in Addresses : lead'[b] = "active" => lead[b] = "active"
    BY <1>1
<1>3. \A q \in Requests :
         /\ Told(q)' = Told(q) /\ StoredBy(q)' = StoredBy(q)
         /\ Address(q)' = Address(q) /\ TypedNow(q)' = TypedNow(q)
    BY <1>1 DEF Told, StoredBy, Address, TypedNow
<1>4. TypeOK'
    BY <1>1 DEF IngestInv, TypeOK
<1>5. RowsInHand' /\ ToldAreTyped' /\ CreatorIsKnown'
    BY <1>1, <1>2, <1>3
       DEF IngestInv, RowsInHand, InHand, ToldAreTyped, CreatorIsKnown
<1>6. OneInserter'
    BY <1>1, <1>2, <1>3 DEF IngestInv, OneInserter, Address, TypedNow
<1>7. CommittedIsFresh'
    BY <1>1, <1>3
       DEF IngestInv, CommittedIsFresh, FreshlyCommitted, ToldAddress, Elements
<1>8. SummaryIsHonest'
    BY <1>1, <1>3 DEF IngestInv, SummaryIsHonest
<1>9. QueuedOnce'
    BY <1>1, <1>2 DEF IngestInv, QueuedOnce, Elements
<1>10. StrandedIsFault'
    BY <1>1, <1>3 DEF IngestInv, StrandedIsFault, Stranded, Elements, TypeOK
<1>11. OwnDuplicatesAreSkipped'
    <2> SUFFICES ASSUME NEW q \in Requests, at'[q] = "insert", Kind[q] # "raw",
                        TypedNow(q)' \in Addresses, lead'[Address(q)'] = "active"
                 PROVE  creator'[Address(q)'] # q
        BY DEF OwnDuplicatesAreSkipped
    <2>1. Address(q) \in Addresses /\ Address(q)' = Address(q) /\ at[q] = "insert"
        BY <1>1, <1>3, AddressType DEF IngestInv, RowsInHand
    <2> QED
        BY <1>1, <1>2, <1>3, <2>1 DEF IngestInv, OwnDuplicatesAreSkipped
<1> QED
    BY <1>4, <1>5, <1>6, <1>7, <1>8, <1>9, <1>10, <1>11 DEF IngestInv

-----------------------------------------------------------------------------
(* A row that raises, and the steps together                                 *)

\* A request without a database error that leaves others' rows and transactions alone gives
\* nothing up that it had.
LEMMA NothingGivenUp ==
    ASSUME IngestInv, NEW r \in Requests, at[r] # "commit",
           UNCHANGED <<table, runs, dbErrors, crashes>>
    PROVE  GivesUp(r)
<1>1. pending' = [a \in Addresses |-> IF pending[a] = r THEN Nobody ELSE pending[a]]
    BY NothingPending DEF table
<1>2. /\ UNCHANGED <<lead, creator, runs, dbErrors, crashes>>
      /\ dbErrors \in [Requests -> 0..MaxDbErrors] /\ crashes \in 0..MaxCrashes
    BY DEF IngestInv, TypeOK, table
<1>3. /\ dbErrors' \in [Requests -> 0..MaxDbErrors] /\ crashes' \in 0..MaxCrashes
      /\ \A q \in Requests : dbErrors'[q] = dbErrors[q]
    BY <1>2
<1> QED
    BY <1>1, <1>2, <1>3 DEF GivesUp

\* What a database error changes outside the request: the request's transaction is rolled
\* back and the error counted.
LEMMA ErrorGivesUp ==
    ASSUME IngestInv, NEW r \in Requests, DatabaseError(r), UNCHANGED <<lead, creator>>,
           pending' = [a \in Addresses |-> IF pending[a] = r THEN Nobody ELSE pending[a]]
    PROVE  GivesUp(r) /\ dbErrors'[r] > 0
<1>1. /\ dbErrors \in [Requests -> 0..MaxDbErrors] /\ crashes \in 0..MaxCrashes
      /\ dbErrors[r] < MaxDbErrors /\ dbErrors' = [dbErrors EXCEPT ![r] = @ + 1]
      /\ UNCHANGED <<runs, crashes>>
    BY DEF IngestInv, TypeOK, DatabaseError
<1>2. dbErrors[r] + 1 \in 0..MaxDbErrors /\ dbErrors[r] + 1 > 0
    BY <1>1, IngestAssumption
<1>3. /\ dbErrors'[r] = dbErrors[r] + 1 /\ dbErrors' \in [Requests -> 0..MaxDbErrors]
      /\ \A q \in Requests : q # r => dbErrors'[q] = dbErrors[q]
    BY <1>1, <1>2
<1> QED
    BY <1>1, <1>2, <1>3 DEF GivesUp

\* A request of one row that is still at it has stored nothing.
LEMMA OneRowStoresLast ==
    ASSUME IngestInv, NEW r \in Requests, Kind[r] # "bulk", row[r] \in DOMAIN Rows[r],
           at[r] \in {"row", "insert", "commit"}, dbErrors[r] = 0
    PROVE  StoredBy(r) = {}
<1>1. row[r] = 1
    BY RowsType, IngestAssumption
<1>2. Told(r) = {}
    BY <1>1, RequestTypes DEF IngestInv, Told
<1>3. HonestTo(r)
    BY SummaryByRequest DEF IngestInv
<1> QED
    BY <1>2, <1>3 DEF HonestTo

\* A row that raises costs an import one row and another request its answer.
LEMMA RaiseKeepsInv ==
    ASSUME IngestInv, NEW r \in Requests, RowRaises(r), GivesUp(r),
           row[r] \in DOMAIN Rows[r],
           \/ at[r] \in {"row", "insert", "commit"}
           \/ at[r] = "queue" /\ dbErrors'[r] > 0
    PROVE  IngestInv'
<1>1. CASE Kind[r] = "bulk"
    <2>1. Note(r, "error") /\ tasks' = tasks
        BY <1>1 DEF RowRaises
    <2> QED
        BY <2>1, NoteKeepsInv
<1>2. CASE Kind[r] # "bulk"
    <2>1. Refuse(r, "500") /\ "500" \in Refused \union {"dead"}
        BY <1>2 DEF RowRaises, Refused
    <2>2. dbErrors'[r] > 0 \/ StoredBy(r) = {}
        <3>1. CASE dbErrors[r] = 0
            BY <1>2, <3>1, OneRowStoresLast
        <3>2. CASE dbErrors[r] # 0
            BY <3>2, RequestTypes DEF IngestInv, GivesUp
        <3> QED
            BY <3>1, <3>2
    <2> QED
        BY <2>1, <2>2, RefuseKeepsInv
<1> QED
    BY <1>1, <1>2

\* The summary of an import skips a known address, the single request is turned away.
LEMMA ConflictKeepsInv ==
    ASSUME IngestInv, NEW r \in Requests, CheckConflicts(r)
    PROVE  IngestInv'
<1>1. at[r] = "row" /\ row[r] \in DOMAIN Rows[r] /\ GivesUp(r)
    BY NothingGivenUp DEF CheckConflicts, HasRow
<1>2. CASE Kind[r] = "bulk"
    <2>1. Note(r, "skipped") /\ tasks' = tasks
        BY <1>2 DEF CheckConflicts
    <2> QED
        BY <1>1, <2>1, NoteKeepsInv
<1>3. CASE Kind[r] # "bulk"
    <2>1. Refuse(r, "409") /\ "409" \in Refused \union {"dead"}
        BY <1>3 DEF CheckConflicts, Refused
    <2>2. dbErrors'[r] > 0 \/ StoredBy(r) = {}
        <3>1. CASE dbErrors[r] = 0
            BY <1>1, <1>3, <3>1, OneRowStoresLast
        <3>2. CASE dbErrors[r] # 0
            BY <1>1, <3>2, RequestTypes DEF IngestInv, GivesUp
        <3> QED
            BY <3>1, <3>2
    <2> QED
        BY <1>1, <2>1, <2>2, RefuseKeepsInv
<1> QED
    BY <1>2, <1>3

\* Too many rows: refused before anything is done.
LEMMA TooManyKeepsInv ==
    ASSUME IngestInv, NEW r \in Requests, TooManyRows(r)
    PROVE  IngestInv'
<1>1. at[r] = "new" /\ Refuse(r, "413") /\ "413" \in Refused \union {"dead"}
    BY DEF TooManyRows, Refused
<1>2. GivesUp(r)
    BY <1>1, NothingGivenUp DEF TooManyRows
<1>3. StoredBy(r) = {}
    BY <1>1 DEF IngestInv, CreatorIsKnown
<1> QED
    BY <1>1, <1>2, <1>3, RefuseKeepsInv

\* A death takes the open transaction and the tasks with it.
LEMMA CrashKeepsInv ==
    ASSUME IngestInv, NEW r \in Requests, Crash(r)
    PROVE  IngestInv'
<1>1. Refuse(r, "dead") /\ "dead" \in Refused \union {"dead"}
    BY DEF Crash
<1>2. crashes' \in 0..MaxCrashes
    BY IngestAssumption DEF IngestInv, TypeOK, Crash
<1>3. GivesUp(r)
    <2>1. UNCHANGED <<lead, creator, runs, dbErrors>>
        BY DEF Crash
    <2>2. pending' = [a \in Addresses |-> IF pending[a] = r THEN Nobody ELSE pending[a]]
        BY DEF Crash
    <2>3. /\ dbErrors' \in [Requests -> 0..MaxDbErrors]
          /\ \A q \in Requests : dbErrors'[q] = dbErrors[q]
        BY <2>1 DEF IngestInv, TypeOK
    <2> QED
        BY <1>2, <2>1, <2>2, <2>3 DEF GivesUp
<1> QED
    BY <1>1, <1>3, RefuseKeepsInv

\* Every step of a request keeps the invariant.
LEMMA RequestKeepsInv ==
    ASSUME IngestInv, NEW r \in Requests, Step(r)
    PROVE  IngestInv'
<1>1. CASE Begin(r)
    BY <1>1, MoveKeepsInv DEF Begin, Moves
<1>2. CASE Invalid(r)
    <2>1. at[r] = "row" /\ row[r] \in DOMAIN Rows[r] /\ RowRaises(r) /\ GivesUp(r)
        BY <1>2, NothingGivenUp DEF Invalid, HasRow
    <2> QED
        BY <2>1, RaiseKeepsInv
<1>3. CASE CheckPasses(r)
    <2>1. Moves(r, "insert") /\ at[r] = "row" /\ InHand(r)
        BY <1>3 DEF CheckPasses, Moves, HasRow, InHand
    <2> QED
        BY <1>3, <2>1, MoveKeepsInv DEF CheckPasses
<1>4. CASE InsertCollides(r)
    <2>1. at[r] = "insert" /\ RowRaises(r) /\ GivesUp(r)
        BY <1>4, NothingGivenUp DEF InsertCollides
    <2>2. row[r] \in DOMAIN Rows[r]
        BY <2>1 DEF IngestInv, RowsInHand, InHand
    <2> QED
        BY <2>1, <2>2, RaiseKeepsInv
<1>5. CASE Respond(r)
    BY <1>5, MoveKeepsInv DEF Respond, Moves
<1> QED
    BY <1>1, <1>2, <1>3, <1>4, <1>5, TooManyKeepsInv, ConflictKeepsInv, InsertKeepsInv,
       CommitKeepsInv, QueueKeepsInv, RunTaskKeepsInv DEF Step

\* So does every fault.
LEMMA FaultKeepsInv ==
    ASSUME IngestInv, NEW r \in Requests, Fault(r)
    PROVE  IngestInv'
<1>1. CASE StoreFails(r)
    <2>1. /\ at[r] \in {"row", "insert", "commit"} /\ row[r] \in DOMAIN Rows[r]
          /\ RowRaises(r)
        BY <1>1 DEF StoreFails, HasRow, IngestInv, RowsInHand, InHand
    <2>2. GivesUp(r)
        BY <1>1, ErrorGivesUp DEF StoreFails
    <2> QED
        BY <2>1, <2>2, RaiseKeepsInv
<1>2. CASE RefreshFails(r)
    <2>1. at[r] = "queue" /\ row[r] \in DOMAIN Rows[r] /\ RowRaises(r)
        BY <1>2 DEF RefreshFails, IngestInv, RowsInHand, InHand
    <2>2. pending' = [a \in Addresses |-> IF pending[a] = r THEN Nobody ELSE pending[a]]
        BY <1>2, <2>1, NothingPending DEF RefreshFails, table
    <2>3. GivesUp(r) /\ dbErrors'[r] > 0
        BY <1>2, <2>2, ErrorGivesUp DEF RefreshFails, table
    <2> QED
        BY <2>1, <2>3, RaiseKeepsInv
<1> QED
    BY <1>1, <1>2, CrashKeepsInv DEF Fault

\* Any step of the specification keeps the invariant.
LEMMA NextKeepsInv ==
    ASSUME IngestInv, [Next]_vars
    PROVE  IngestInv'
<1>1. CASE UNCHANGED vars
    <2>1. /\ UNCHANGED <<lead, creator, pending, at, row, outcome, tasks>>
          /\ UNCHANGED <<runs, dbErrors, crashes>>
        BY <1>1 DEF vars, table, request
    <2>2. /\ TypeOK' /\ RowsInHand' /\ OneInserter' /\ CreatorIsKnown' /\ ToldAreTyped'
          /\ OwnDuplicatesAreSkipped'
        BY <2>1 DEF IngestInv, TypeOK, RowsInHand, InHand, TypedNow, OneInserter, Address,
                    CreatorIsKnown, StoredBy, ToldAreTyped, Told, OwnDuplicatesAreSkipped
    <2>3. CommittedIsFresh'
        BY <2>1 DEF IngestInv, CommittedIsFresh, FreshlyCommitted, Address, TypedNow,
                    Elements, Told, ToldAddress, StoredBy
    <2>4. SummaryIsHonest' /\ QueuedOnce' /\ StrandedIsFault'
        BY <2>1 DEF IngestInv, SummaryIsHonest, Told, StoredBy, QueuedOnce, Elements,
                    StrandedIsFault, Stranded, Address, TypedNow
    <2> QED
        BY <2>2, <2>3, <2>4 DEF IngestInv
<1> QED
    BY <1>1, RequestKeepsInv, FaultKeepsInv, DeleteKeepsInv DEF Next

-----------------------------------------------------------------------------
(* The theorems                                                              *)

\* No interleaving of requests, deletions, database errors and deaths breaks the bond
\* between the table, the open transactions, the summaries and the background tasks.
THEOREM IngestInvariant == Spec => []IngestInv
<1>1. Init => IngestInv
    <2> SUFFICES ASSUME Init PROVE IngestInv
        OBVIOUS
    <2>1. TypeOK
        <3>1. /\ lead \in [Addresses -> {"absent", "active", "deleted"}]
              /\ creator \in [Addresses -> Requests \union {Nobody}]
              /\ pending \in [Addresses -> Requests \union {Nobody}]
              /\ runs \in [Addresses -> Nat] /\ row \in [Requests -> Nat \ {0}]
            BY DEF Init
        <3>2. /\ at \in [Requests -> Locations] /\ tasks \in [Requests -> Seq(Addresses)]
              /\ outcome \in [Requests -> Seq(Outcomes)]
              /\ dbErrors \in [Requests -> 0..MaxDbErrors] /\ crashes \in 0..MaxCrashes
            BY IngestAssumption DEF Init, Locations, Outcomes
        <3>3. \A r \in Requests : Len(outcome[r]) = row[r] - 1 /\ row[r] <= Len(Rows[r]) + 1
            <4>1. \A r \in Requests : Len(Rows[r]) \in Nat
                BY RowsType
            <4>2. \A r \in Requests : outcome[r] = <<>> /\ row[r] = 1
                BY DEF Init
            <4>3. ASSUME NEW r \in Requests
                  PROVE  Len(outcome[r]) = row[r] - 1 /\ row[r] <= Len(Rows[r]) + 1
                <5>1. Len(outcome[r]) = 0 /\ row[r] = 1 /\ Len(Rows[r]) \in Nat
                    BY <4>1, <4>2
                <5> QED
                    BY <5>1
            <4> QED
                BY <4>3
        <3> QED
            BY <3>1, <3>2, <3>3 DEF TypeOK, Locations, Outcomes
    <2>2. /\ \A r \in Requests : Told(r) = {} /\ StoredBy(r) = {} /\ at[r] = "new"
          /\ \A r \in Requests : DOMAIN tasks[r] = {} /\ Elements(tasks[r]) = {}
        BY NobodyAssumption DEF Init, Told, StoredBy, Elements
    <2>3. RowsInHand /\ OneInserter /\ CreatorIsKnown /\ ToldAreTyped /\ CommittedIsFresh
        BY <2>2 DEF Init, RowsInHand, OneInserter, CreatorIsKnown, ToldAreTyped,
                    CommittedIsFresh
    <2>4. SummaryIsHonest /\ QueuedOnce /\ StrandedIsFault /\ OwnDuplicatesAreSkipped
        BY <2>2 DEF Init, SummaryIsHonest, QueuedOnce, StrandedIsFault, Stranded,
                    OwnDuplicatesAreSkipped, Refused
    <2> QED
        BY <2>1, <2>3, <2>4 DEF IngestInv
<1> QED
    BY <1>1, NextKeepsInv, PTL DEF Spec

\* Type correctness: rows, summaries and fault counters stay in step and in range.
THEOREM IngestTypeCorrect == Spec => []TypeOK
<1>1. IngestInv => TypeOK
    BY DEF IngestInv
<1> QED
    BY <1>1, IngestInvariant, PTL

\* What a client is told is what happened, for any files and any faults (_bulk_ingest).
THEOREM SummaryTheorem == Spec => []SummaryIsHonest
<1>1. IngestInv => SummaryIsHonest
    BY DEF IngestInv
<1> QED
    BY <1>1, IngestInvariant, PTL

\* No duplicate, whoever sent it, starts a lead's workflow a second time.
THEOREM QueuedOnceTheorem == Spec => []QueuedOnce
<1>1. IngestInv => QueuedOnce
    BY DEF IngestInv
<1> QED
    BY <1>1, IngestInvariant, PTL

\* A stored lead goes unprocessed only where a death or a database error stranded it: the
\* failure of one row of an import does not cost another row its workflow.
THEOREM StrandedTheorem == Spec => []StrandedIsFault
<1>1. IngestInv => StrandedIsFault
    BY DEF IngestInv
<1> QED
    BY <1>1, IngestInvariant, PTL

\* An import never collides with a live row of its own that it spells as stored.
THEOREM OwnDuplicatesTheorem == Spec => []OwnDuplicatesAreSkipped
<1>1. IngestInv => OwnDuplicatesAreSkipped
    BY DEF IngestInv
<1> QED
    BY <1>1, IngestInvariant, PTL

-----------------------------------------------------------------------------
(* Counting and waiting                                                      *)

\* The number of leads a client is told were created is the number its request stored,
\* unless the database failed it on the way (the summary's "created" of _bulk_ingest).
CountIsRight ==
    \A r \in Requests :
        at[r] = "accepted" /\ dbErrors[r] = 0 =>
            /\ IsFiniteSet(StoredBy(r))
            /\ Cardinality(StoredBy(r)) = Cardinality(Told(r))

\* Whoever waits for another's open transaction waits for one that is about to commit and
\* waits for nobody: the unique index deadlocks no requests.
WaitsAreShort ==
    \A r \in Requests :
        at[r] = "insert" /\ pending[Address(r)] # Nobody =>
            /\ pending[Address(r)] \in Requests \ {r}
            /\ at[pending[Address(r)]] = "commit"

\* The rows counted as created and the leads stored correspond one to one.
THEOREM CountTheorem == Spec => []CountIsRight
<1>1. IngestInv => CountIsRight
    <2> SUFFICES ASSUME IngestInv, NEW r \in Requests, at[r] = "accepted", dbErrors[r] = 0
                 PROVE  /\ IsFiniteSet(StoredBy(r))
                        /\ Cardinality(StoredBy(r)) = Cardinality(Told(r))
        BY DEF CountIsRight
    <2> DEFINE f == [i \in Told(r) |-> ToldAddress(r, i)]
    <2>1. IsFiniteSet(Told(r))
        <3>1. row[r] - 1 \in Int /\ DOMAIN outcome[r] = 1..(row[r] - 1)
            BY RequestTypes DEF IngestInv
        <3>2. IsFiniteSet(1..(row[r] - 1))
            BY <3>1, FS_Interval
        <3>3. Told(r) \in SUBSET (1..(row[r] - 1))
            BY <3>1 DEF Told
        <3> QED
            BY <3>2, <3>3, FS_Subset
    <2>2. HonestTo(r)
        BY SummaryByRequest DEF IngestInv
    <2>3. \A i \in Told(r) : ToldAddress(r, i) \in StoredBy(r)
        <3> SUFFICES ASSUME NEW i \in Told(r) PROVE ToldAddress(r, i) \in StoredBy(r)
            OBVIOUS
        <3>1. Rows[r][i] \in Typed
            BY DEF IngestInv, ToldAreTyped
        <3>2. ToldAddress(r, i) \in Addresses
            BY <3>1, StoredType DEF ToldAddress
        <3> QED
            BY <2>2, <3>2 DEF HonestTo, StoredBy
    <2>4. f \in [Told(r) -> StoredBy(r)]
        BY <2>3
    <2>5. \A i, k \in Told(r) : f[i] = f[k] => i = k
        BY <2>2 DEF HonestTo
    <2>6. \A a \in StoredBy(r) : \E i \in Told(r) : f[i] = a
        BY <2>2 DEF HonestTo
    <2>7. ExistsBijection(Told(r), StoredBy(r))
        BY <2>4, <2>5, <2>6 DEF ExistsBijection, Bijection, Injection, IsInjective, Surjection
    <2> QED
        BY <2>1, <2>7, FS_Bijection
<1> QED
    BY <1>1, IngestInvariant, PTL

\* No circle of requests waits for one another's rows.
THEOREM WaitsTheorem == Spec => []WaitsAreShort
<1>1. IngestInv => WaitsAreShort
    <2> SUFFICES ASSUME IngestInv, NEW r \in Requests, at[r] = "insert",
                        pending[Address(r)] # Nobody
                 PROVE  /\ pending[Address(r)] \in Requests \ {r}
                        /\ at[pending[Address(r)]] = "commit"
        BY DEF WaitsAreShort
    <2>1. Address(r) \in Addresses
        BY AddressType DEF IngestInv, RowsInHand
    <2>2. at[pending[Address(r)]] = "commit"
        BY <2>1 DEF IngestInv, OneInserter
    <2> QED
        BY <2>1, <2>2 DEF IngestInv, TypeOK
<1> QED
    BY <1>1, IngestInvariant, PTL

-----------------------------------------------------------------------------
(* The length of a request                                                   *)

\* How far a request is with its row.
Progress(l) == CASE l = "insert" -> 1 [] l = "commit" -> 2 [] l = "queue" -> 3 [] OTHER -> 0

\* The rows a request has still to finish.
RowsLeft(r) == Len(Rows[r]) + 1 - row[r]

\* The steps a request can still take: four for each row, one to start each workflow, one
\* to begin and one to respond.
StepsLeft(r) ==
    IF at[r] \in Refused \union {"dead"} THEN 0
    ELSE IF at[r] = "accepted" THEN Len(tasks[r])
    ELSE 5 * RowsLeft(r) - Progress(at[r]) + Len(tasks[r]) + (IF at[r] = "new" THEN 2 ELSE 1)

MaxSteps(r) == 5 * Len(Rows[r]) + 2

\* The values of the stages.
LEMMA ProgressValues ==
    /\ \A l : Progress(l) \in 0..3
    /\ Progress("new") = 0 /\ Progress("row") = 0
    /\ Progress("insert") = 1 /\ Progress("commit") = 2 /\ Progress("queue") = 3
BY DEF Progress

Working == {"new", "row", "insert", "commit", "queue"}

\* A request that works on its rows has a step left for each thing it has to do.
LEMMA WorkingMeasure ==
    ASSUME IngestInv, NEW r \in Requests
    PROVE  /\ RowsLeft(r) \in Nat /\ Len(tasks[r]) \in Nat
           /\ Progress(at[r]) > 0 => RowsLeft(r) > 0
           /\ at[r] \in Working \union Refused \union {"dead", "accepted"}
           /\ at[r] \in Working =>
                 StepsLeft(r) = 5 * RowsLeft(r) - Progress(at[r]) + Len(tasks[r])
                                   + (IF at[r] = "new" THEN 2 ELSE 1)
<1>1. /\ Len(Rows[r]) \in Nat /\ row[r] \in Nat \ {0} /\ row[r] <= Len(Rows[r]) + 1
      /\ Len(tasks[r]) \in Nat /\ at[r] \in Locations
    BY RequestTypes, RowsType DEF IngestInv
<1>2. RowsLeft(r) \in Nat /\ (row[r] <= Len(Rows[r]) => RowsLeft(r) > 0)
    BY <1>1 DEF RowsLeft
<1>3. Progress(at[r]) > 0 => row[r] <= Len(Rows[r])
    <2>1. Progress(at[r]) > 0 => at[r] \in {"insert", "commit", "queue"}
        BY DEF Progress
    <2> QED
        BY <1>1, <2>1, RowsType DEF IngestInv, RowsInHand, InHand
<1>4. at[r] \in Working \union Refused \union {"dead", "accepted"}
    BY <1>1 DEF Locations, Working
<1>5. at[r] \in Working => at[r] \notin Refused \union {"dead", "accepted"}
    BY DEF Working, Refused
<1> QED
    BY <1>1, <1>2, <1>3, <1>4, <1>5 DEF StepsLeft

\* The measure is a natural number, positive while a request works on its rows.
LEMMA MeasureType ==
    ASSUME IngestInv, NEW r \in Requests
    PROVE  /\ StepsLeft(r) \in Nat
           /\ at[r] \in Working => StepsLeft(r) > 0
<1>1. CASE at[r] \in Working
    <2> DEFINE n == RowsLeft(r)
               p == Progress(at[r])
               t == Len(tasks[r])
    <2>1. p \in 0..3 /\ n \in Nat /\ t \in Nat /\ (p > 0 => n > 0)
        BY ProgressValues, WorkingMeasure
    <2>2. StepsLeft(r) = 5 * n - p + t + (IF at[r] = "new" THEN 2 ELSE 1)
        BY <1>1, WorkingMeasure
    <2> HIDE DEF n, p, t
    <2> QED
        BY <2>1, <2>2
<1>2. CASE at[r] \notin Working
    <2>1. at[r] \in Refused \union {"dead", "accepted"} /\ Len(tasks[r]) \in Nat
        BY <1>2, WorkingMeasure
    <2> QED
        BY <1>2, <2>1 DEF StepsLeft
<1> QED
    BY <1>1, <1>2

\* So it is after a step.
LEMMA NaturalAfter == (IngestInv => \A r \in Requests : StepsLeft(r) \in Nat)'
<1>1. IngestInv => \A r \in Requests : StepsLeft(r) \in Nat
    BY MeasureType
<1> QED
    BY <1>1, PTL

\* A row that is noted or a request that is turned away leaves less to do.
LEMMA NoteShortens ==
    ASSUME IngestInv, NEW r \in Requests, NEW o, Note(r, o),
           Len(tasks'[r]) <= Len(tasks[r]) \/ at[r] = "queue",
           Len(tasks'[r]) <= Len(tasks[r]) + 1, Len(tasks'[r]) \in Nat,
           row[r] \in DOMAIN Rows[r], at[r] \in {"row", "insert", "commit", "queue"}
    PROVE  StepsLeft(r)' < StepsLeft(r)
<1>1. at'[r] = "row" /\ row'[r] = row[r] + 1
    BY DEF IngestInv, TypeOK, Note, Goto
<1>2. RowsLeft(r)' = RowsLeft(r) - 1
    <2>1. Len(Rows[r]) \in Nat /\ row[r] \in Nat
        BY RequestTypes, RowsType DEF IngestInv
    <2> QED
        BY <1>1, <2>1 DEF RowsLeft
<1>3. StepsLeft(r)' = 5 * RowsLeft(r)' + Len(tasks'[r]) + 1
    <2>1. StepsLeft(r)' = 5 * RowsLeft(r)' - Progress("row") + Len(tasks'[r]) + 1
        BY <1>1 DEF StepsLeft, Refused
    <2>2. RowsLeft(r)' \in Int
        BY <1>2, WorkingMeasure
    <2> QED
        BY <2>1, <2>2, ProgressValues
<1>4. /\ StepsLeft(r) = 5 * RowsLeft(r) - Progress(at[r]) + Len(tasks[r]) + 1
      /\ RowsLeft(r) \in Nat /\ Len(tasks[r]) \in Nat /\ Progress(at[r]) \in 0..3
    BY WorkingMeasure, ProgressValues DEF Working
<1> DEFINE k == RowsLeft(r)
           p == Progress(at[r])
           t == Len(tasks[r])
           u == Len(tasks'[r])
<1>5. k \in Nat /\ t \in Nat /\ p \in 0..3 /\ u \in Nat /\ u <= t + 1
    BY <1>4
<1> HIDE DEF k, p, t, u
<1>6. 5 * (k - 1) + u + 1 < 5 * k - p + t + 1
    BY <1>5
<1> QED
    BY <1>2, <1>3, <1>4, <1>6 DEF k, p, t, u

\* So does a refusal or a death, which end the request.
LEMMA RefuseShortens ==
    ASSUME IngestInv, NEW r \in Requests, NEW l \in Refused \union {"dead"}, Refuse(r, l),
           StepsLeft(r) > 0
    PROVE  StepsLeft(r)' < StepsLeft(r)
<1>1. at'[r] = l
    BY DEF IngestInv, TypeOK, Refuse, Goto
<1> QED
    BY <1>1 DEF StepsLeft

\* A row that raises ends its request or its turn.
LEMMA RaiseShortens ==
    ASSUME IngestInv, NEW r \in Requests, RowRaises(r), row[r] \in DOMAIN Rows[r],
           at[r] \in {"row", "insert", "commit", "queue"}
    PROVE  StepsLeft(r)' < StepsLeft(r)
<1>1. StepsLeft(r) > 0 /\ Len(tasks[r]) \in Nat
    BY MeasureType, RequestTypes DEF Working, IngestInv
<1>2. CASE Note(r, "error") /\ UNCHANGED tasks
    BY <1>1, <1>2, NoteShortens
<1>3. CASE Refuse(r, "500")
    BY <1>1, <1>3, RefuseShortens DEF Refused
<1> QED
    BY <1>2, <1>3 DEF RowRaises

\* A request that only moves on to a place nearer its end.
LEMMA MoveShortens ==
    ASSUME IngestInv, NEW r \in Requests, NEW l, Goto(r, l), UNCHANGED <<row, tasks>>,
           \/ at[r] = "new" /\ l = "row"
           \/ at[r] = "row" /\ l = "insert"
           \/ at[r] = "insert" /\ l = "commit"
           \/ at[r] = "commit" /\ l = "queue"
           \/ at[r] = "row" /\ l = "accepted"
    PROVE  StepsLeft(r)' < StepsLeft(r)
<1>1. at'[r] = l
    BY DEF IngestInv, TypeOK, Goto
<1>2. /\ RowsLeft(r)' = RowsLeft(r) /\ tasks'[r] = tasks[r]
      /\ RowsLeft(r) \in Nat /\ Len(tasks[r]) \in Nat
    BY WorkingMeasure DEF RowsLeft
<1>3. StepsLeft(r) = 5 * RowsLeft(r) - Progress(at[r]) + Len(tasks[r])
                        + (IF at[r] = "new" THEN 2 ELSE 1)
    BY WorkingMeasure DEF Working
<1>4. CASE l = "accepted"
    <2>1. StepsLeft(r)' = Len(tasks[r])
        BY <1>1, <1>2, <1>4 DEF StepsLeft, Refused
    <2>2. at[r] = "row" /\ Progress(at[r]) = 0
        BY <1>4, ProgressValues
    <2> QED
        BY <1>2, <1>3, <2>1, <2>2
<1>5. CASE l # "accepted"
    <2> DEFINE n == RowsLeft(r)
               t == Len(tasks[r])
    <2>1. StepsLeft(r)' = 5 * n - Progress(l) + t + 1
        BY <1>1, <1>2, <1>5 DEF StepsLeft, Refused
    <2>2. n \in Nat /\ t \in Nat
        BY <1>2
    <2>3. StepsLeft(r) = 5 * n - Progress(at[r]) + t + (IF at[r] = "new" THEN 2 ELSE 1)
        BY <1>3
    <2>4. /\ Progress(l) \in 0..3 /\ Progress(at[r]) \in 0..3
          /\ Progress(l) > Progress(at[r]) \/ (at[r] = "new" /\ Progress(l) = Progress(at[r]))
        BY <1>5, ProgressValues
    <2> HIDE DEF n, t
    <2> QED
        BY <2>1, <2>2, <2>3, <2>4
<1> QED
    BY <1>4, <1>5

\* Every step of a request, and every fault that hits it, uses up a step it has left.
LEMMA StepShortens ==
    ASSUME IngestInv, NEW r \in Requests, Step(r) \/ Fault(r)
    PROVE  StepsLeft(r)' < StepsLeft(r)
<1>1. at[r] \in {"insert", "commit", "queue"} => row[r] \in DOMAIN Rows[r]
    BY DEF IngestInv, RowsInHand, InHand
<1>2. CASE TooManyRows(r)
    BY <1>2, MeasureType, RefuseShortens DEF TooManyRows, Refused, Working
<1>3. CASE Begin(r) \/ CheckPasses(r) \/ Insert(r) \/ Commit(r) \/ Respond(r)
    BY <1>3, MoveShortens DEF Begin, CheckPasses, HasRow, Insert, Commit, Respond
<1>4. CASE Invalid(r) \/ InsertCollides(r) \/ StoreFails(r) \/ RefreshFails(r)
    BY <1>1, <1>4, RaiseShortens DEF Invalid, HasRow, InsertCollides, StoreFails, RefreshFails
<1>5. CASE CheckConflicts(r)
    <2>1. at[r] = "row" /\ row[r] \in DOMAIN Rows[r] /\ Len(tasks[r]) \in Nat
        BY <1>5, RequestTypes DEF CheckConflicts, HasRow, IngestInv
    <2>2. CASE Note(r, "skipped") /\ UNCHANGED tasks
        BY <2>1, <2>2, NoteShortens
    <2>3. CASE Refuse(r, "409")
        BY <2>1, <2>3, MeasureType, RefuseShortens DEF Refused, Working
    <2> QED
        BY <1>5, <2>2, <2>3 DEF CheckConflicts
<1>6. CASE Queue(r)
    <2>1. at[r] = "queue" /\ Note(r, "created") /\ tasks[r] \in Seq(Addresses)
          /\ Address(r) \in Addresses
        BY <1>6, AddressType, RequestTypes DEF Queue, IngestInv, RowsInHand
    <2>2. tasks'[r] = Append(tasks[r], Address(r))
        BY <1>6 DEF Queue, IngestInv, TypeOK
    <2>3. Len(tasks'[r]) = Len(tasks[r]) + 1 /\ Len(tasks[r]) \in Nat
        BY <2>1, <2>2
    <2> QED
        BY <1>1, <2>1, <2>3, NoteShortens
<1>7. CASE RunTask(r)
    <2>1. tasks[r] \in Seq(Addresses) /\ tasks[r] # <<>> /\ at[r] = "accepted" /\ at' = at
        BY <1>7, RequestTypes DEF RunTask, IngestInv
    <2>2. tasks'[r] = Tail(tasks[r])
        BY <1>7 DEF RunTask, IngestInv, TypeOK
    <2>3. Len(tasks'[r]) < Len(tasks[r])
        BY <2>1, <2>2
    <2> QED
        BY <2>1, <2>3 DEF StepsLeft, Refused
<1>8. CASE Crash(r)
    <2>1. StepsLeft(r) > 0
        <3>1. CASE at[r] = "accepted"
            <4>1. tasks[r] # <<>> /\ tasks[r] \in Seq(Addresses)
                BY <1>8, <3>1, RequestTypes DEF Crash, IngestInv
            <4>2. Len(tasks[r]) > 0
                BY <4>1
            <4> QED
                BY <3>1, <4>2 DEF StepsLeft, Refused
        <3>2. CASE at[r] # "accepted"
            BY <1>8, <3>2, MeasureType DEF Crash, Working
        <3> QED
            BY <3>1, <3>2
    <2> QED
        BY <1>8, <2>1, RefuseShortens DEF Crash
<1> QED
    BY <1>2, <1>3, <1>4, <1>5, <1>6, <1>7, <1>8 DEF Step, Fault

\* What other requests and deletions do leaves a request's variables alone.
LEMMA OthersUntouched ==
    ASSUME IngestInv, NEW r \in Requests, NEW q \in Requests, q # r, Step(r) \/ Fault(r)
    PROVE  at'[q] = at[q] /\ row'[q] = row[q] /\ tasks'[q] = tasks[q]
BY DEF IngestInv, TypeOK, Step, Fault, TooManyRows, Begin, Invalid, CheckConflicts, CheckPasses,
       Insert, InsertCollides, Commit, Queue, Respond, RunTask, StoreFails, RefreshFails, Crash,
       RowRaises, Note, Refuse, Goto

\* A request of n rows is over, its workflows started, after 5 n + 2 steps of its own at the
\* latest, whatever the others and the database do: with WaitsAreShort, what is left of
\* StoredIsProcessedOrStranded when scheduling is left out.
THEOREM RequestIsBounded ==
    Spec => /\ [](\A r \in Requests : StepsLeft(r) \in 0..MaxSteps(r))
            /\ [][\A r \in Requests :
                    /\ Step(r) \/ Fault(r) => StepsLeft(r)' < StepsLeft(r)
                    /\ ~(Step(r) \/ Fault(r)) => StepsLeft(r)' = StepsLeft(r)]_vars
<1> DEFINE Bounded == \A r \in Requests : StepsLeft(r) \in 0..MaxSteps(r)
           Shortens == \A r \in Requests :
                         /\ Step(r) \/ Fault(r) => StepsLeft(r)' < StepsLeft(r)
                         /\ ~(Step(r) \/ Fault(r)) => StepsLeft(r)' = StepsLeft(r)
<1>1. IngestInv /\ [Next]_vars => [Shortens]_vars
    <2> SUFFICES ASSUME IngestInv, Next, NEW q \in Requests, ~(Step(q) \/ Fault(q))
                 PROVE  StepsLeft(q)' = StepsLeft(q)
        BY StepShortens
    <2>1. at'[q] = at[q] /\ row'[q] = row[q] /\ tasks'[q] = tasks[q]
        <3>1. CASE \E r \in Requests : Step(r) \/ Fault(r)
            BY <3>1, OthersUntouched
        <3>2. CASE \E a \in Addresses : DeleteLead(a)
            BY <3>2 DEF DeleteLead, request
        <3> QED
            BY <3>1, <3>2 DEF Next
    <2> QED
        BY <2>1 DEF StepsLeft, RowsLeft
<1>2. Init => Bounded
    <2> SUFFICES ASSUME Init, NEW r \in Requests PROVE StepsLeft(r) \in 0..MaxSteps(r)
        OBVIOUS
    <2>1. at[r] = "new" /\ row[r] = 1 /\ tasks[r] = <<>> /\ Len(Rows[r]) \in Nat
        BY RowsType DEF Init
    <2>2. Len(tasks[r]) = 0
        BY <2>1
    <2> QED
        BY <2>1, <2>2 DEF StepsLeft, RowsLeft, Progress, MaxSteps, Refused
<1>3. IngestInv /\ IngestInv' /\ Bounded /\ [Shortens]_vars => Bounded'
    <2> SUFFICES ASSUME IngestInv, IngestInv', Bounded, [Shortens]_vars, NEW r \in Requests
                 PROVE  StepsLeft(r)' \in 0..MaxSteps(r)'
        OBVIOUS
    <2>1. /\ MaxSteps(r) \in Nat /\ MaxSteps(r)' = MaxSteps(r)
          /\ StepsLeft(r) \in 0..MaxSteps(r)
        BY RowsType DEF MaxSteps
    <2>2. StepsLeft(r)' <= StepsLeft(r)
        <3>1. StepsLeft(r) \in Nat /\ StepsLeft(r)' \in Nat
            BY <2>1, NaturalAfter
        <3>2. CASE Shortens
            <4>1. StepsLeft(r)' < StepsLeft(r) \/ StepsLeft(r)' = StepsLeft(r)
                BY <3>2
            <4> QED
                BY <3>1, <4>1
        <3>3. CASE UNCHANGED vars
            BY <3>1, <3>3 DEF StepsLeft, RowsLeft, vars, request
        <3> QED
            BY <3>2, <3>3
    <2>3. StepsLeft(r)' \in Nat
        BY NaturalAfter
    <2> QED
        BY <2>1, <2>2, <2>3
<1> QED
    BY <1>1, <1>2, <1>3, IngestInvariant, PTL DEF Spec
=============================================================================
