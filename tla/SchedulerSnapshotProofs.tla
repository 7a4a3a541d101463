----------------------- MODULE SchedulerSnapshotProofs -----------------------
(***************************************************************************)
(* SchedulerSnapshot for any number of editors, charges, pollers, full     *)
(* rebuilds and requests.  The inductive invariant adds to TypeOK:         *)
(*   PlaceInv  who can be where, and what a poller has there;              *)
(*   RowInv    a transaction's rows are its own until it ends; what the    *)
(*             watermark and the batches name is visible;                  *)
(*   EventInv  the newest change is covered (it is in the list, or was in  *)
(*             one that an overlapping rebuild replaced or kept out, or it *)
(*             is one that the outbox may miss), or it has an event beyond *)
(*             the watermark, or one is about to be enqueued.  The same    *)
(*             holds beyond every batch that has rebuilt the bucket or has *)
(*             skipped it: this is why the watermark may pass the batch;   *)
(*   ListInv   a list, once there is one, is of some revision.             *)
(***************************************************************************)
EXTENDS SchedulerSnapshot, SequenceTheorems, TLAPS

Loaded == {"version", "write", "activate"}

PlaceInv ==
  /\ \A e \in Editors : pc[e] \in {"idle", "enqueue", "syncRead", "syncWrite"}
  /\ \A b \in Billers : pc[b] \in {"idle", "commit"}
  /\ \A w \in Writers : pc[w] \in {"idle", "account", "setAccount", "lock", "watermark"} \cup Locked
  /\ \A q \in Requests : pc[q] # "lock"
  /\ \A w \in Writers : pc[w] \in {"account", "setAccount", "watermark"} => w \in Pollers
  /\ \A p \in Pollers :
       /\ pc[p] \in {"account", "setAccount", "watermark"} => batch[p] # {}
       /\ pc[p] = "idle" => batch[p] = {}
       /\ batch[p] = {} => ~rebuilt[p]

RowInv ==
  /\ \A b \in Billers : \A i \in batch[b] : outbox[i] = "open"
  /\ \A b, c \in Billers : batch[b] \cap batch[c] # {} => b = c
  /\ watermark # 0 => Visible(watermark)
  /\ \A p \in Pollers : \A i \in batch[p] : Visible(i)

Covered == db.rev = 1 \/ db.rev <= snap \/ db.rev <= newest \/ db.rev <= missed
Enqueuing == \E e \in Editors : pc[e] = "enqueue"
Beyond(ids) == \E j \in DOMAIN outbox : Visible(j) /\ \A i \in ids : j > i
Ahead(ids) == Covered \/ Enqueuing \/ Beyond(ids)

PollerAhead(p) ==
  /\ pc[p] = "watermark" \/ (pc[p] \in {"account", "setAccount"} /\ rebuilt[p]) => Ahead(batch[p])
  /\ pc[p] \in Loaded \cup {"setAccount"} /\ batch[p] # {} => Ahead(batch[p]) \/ db.rev <= loaded[p].rev

EventInv == Ahead({watermark}) /\ \A p \in Pollers : PollerAhead(p)

ListInv ==
  /\ db.rev >= 1
  /\ \A w \in Writers : pc[w] \in Loaded => loaded[w].rev >= 1
  /\ Active => snap >= 1

VersionInv ==
  /\ versions \in Seq(Writers \cup {"active"})
  /\ \A i, j \in DOMAIN versions : versions[i] = versions[j] => i = j
  /\ \A i \in DOMAIN versions :
       versions[i] = "active" \/ (versions[i] \in Writers /\ pc[versions[i]] \in {"write", "activate"})

Types ==
  /\ db \in Contents /\ outbox \in Seq(Rows)
  /\ watermark \in 0..Len(outbox) /\ lock \in Pollers \cup Rebuilders \cup {None}
  /\ snap \in Revisions /\ meta \in Revisions
  /\ pc \in [Actors -> Pcs] /\ loaded \in [Actors -> Contents]
  /\ batch \in [Billers \cup Pollers -> SUBSET DOMAIN outbox]
  /\ rebuilt \in [Pollers -> BOOLEAN]
  /\ faults \in 0..MaxFaults /\ newest \in Revisions /\ missed \in Revisions

IInv == TypeOK /\ PlaceInv /\ RowInv /\ EventInv /\ ListInv

USE ActorAssumption

-----------------------------------------------------------------------------

\* A row or version that is appended: the others keep their place.
LEMMA Appended ==
  ASSUME NEW S, NEW s \in Seq(S), NEW x \in S
  PROVE  LET t == Append(s, x) IN
           /\ t \in Seq(S) /\ Len(s) \in Nat /\ Len(t) = Len(s) + 1 /\ Len(t) \in Nat
           /\ DOMAIN s = 1..Len(s) /\ DOMAIN t = 1..(Len(s) + 1)
           /\ DOMAIN s \subseteq DOMAIN t /\ Len(s) + 1 \in DOMAIN t \ DOMAIN s
           /\ \A j \in DOMAIN t : j \in DOMAIN s \/ j = Len(s) + 1
           /\ \A j \in DOMAIN s : t[j] = s[j]
           /\ t[Len(s) + 1] = x
<1> DEFINE t == Append(s, x)
<1>1. /\ Len(s) \in Nat /\ DOMAIN s = 1..Len(s)
      /\ t \in Seq(S) /\ Len(t) = Len(s) + 1 /\ \A i \in 1..Len(s) : t[i] = s[i]
  BY LenProperties, AppendProperties
<1> HIDE DEF t
<1>2. DOMAIN t = 1..(Len(s) + 1)
  BY <1>1, LenProperties
<1>3. t[Len(s) + 1] = x
  BY AppendProperties DEF t
<1>4. /\ Len(t) \in Nat /\ DOMAIN s \subseteq DOMAIN t /\ Len(s) + 1 \in DOMAIN t \ DOMAIN s
      /\ \A j \in DOMAIN t : j \in DOMAIN s \/ j = Len(s) + 1
  BY <1>1, <1>2
<1> QED
  BY <1>1, <1>2, <1>3, <1>4 DEF t

\* Removing an entry of a sequence without duplicates: the others keep their
\* order, and the entry is gone.
LEMMA WithoutEntry ==
  ASSUME NEW S, NEW s \in Seq(S), NEW v, 
         \A i, j \in DOMAIN s : s[i] = s[j] => i = j
  PROVE  LET t == Without(s, v) IN
           /\ t \in Seq(S)
           /\ \A i, j \in DOMAIN t : t[i] = t[j] => i = j
           /\ \A i \in DOMAIN t : t[i] # v /\ \E k \in DOMAIN s : t[i] = s[k]
<1> DEFINE t == Without(s, v)
<1>1. Len(s) \in Nat /\ DOMAIN s = 1..Len(s)
  BY LenProperties
<1>2. CASE ~ \E i \in DOMAIN s : s[i] = v
  <2>1. t = s
    BY <1>2 DEF Without
  <2> QED
    BY <1>2, <2>1
<1>3. CASE \E i \in DOMAIN s : s[i] = v
  <2>1. PICK at \in DOMAIN s : s[at] = v /\ t = SubSeq(s, 1, at - 1) \o SubSeq(s, at + 1, Len(s))
    BY <1>3 DEF Without
  <2> DEFINE a == SubSeq(s, 1, at - 1)
             b == SubSeq(s, at + 1, Len(s))
  <2>2. at \in 1..Len(s)
    BY <1>1
  <2>3. /\ a \in Seq(S) /\ Len(a) = at - 1
        /\ \A i \in 1..(at - 1) : a[i] = s[i]
    BY <1>1, <2>2, SubSeqProperties, ElementOfSeq
  <2>4. /\ b \in Seq(S) /\ Len(b) = Len(s) - at
        /\ \A i \in 1..(Len(s) - at) : b[i] = s[at + i]
    BY <1>1, <2>2, SubSeqProperties, ElementOfSeq
  <2> HIDE DEF a, b
  <2>5. /\ t \in Seq(S) /\ Len(t) = Len(s) - 1
        /\ \A i \in 1..(Len(s) - 1) : t[i] = IF i <= at - 1 THEN a[i] ELSE b[i - (at - 1)]
    <3>1. t = a \o b
      BY <2>1 DEF a, b
    <3>2. Len(a) + Len(b) = Len(s) - 1
      BY <1>1, <2>2, <2>3, <2>4
    <3> HIDE DEF t
    <3>3. /\ a \o b \in Seq(S) /\ Len(a \o b) = Len(a) + Len(b)
          /\ \A i \in 1..(Len(a) + Len(b)) : (a \o b)[i] = IF i <= Len(a) THEN a[i] ELSE b[i - Len(a)]
      <4>1. a \in Seq(S) /\ b \in Seq(S)
        BY <2>3, <2>4
      <4> QED
        BY <4>1
    <3> QED
      BY <2>3, <3>1, <3>2, <3>3
  <2> HIDE DEF t
  <2>6. DOMAIN t = 1..(Len(s) - 1)
    BY <2>5, LenProperties
  <2>7. \A i \in DOMAIN t : t[i] = s[IF i < at THEN i ELSE i + 1]
    <3> SUFFICES ASSUME NEW i \in DOMAIN t PROVE t[i] = s[IF i < at THEN i ELSE i + 1]
      OBVIOUS
    <3>1. i \in 1..(Len(s) - 1)
      BY <2>6
    <3>2. CASE i < at
      <4>1. i \in 1..(at - 1) /\ i <= at - 1
        BY <1>1, <2>2, <3>1, <3>2
      <4>2. t[i] = a[i]
        BY <2>5, <3>1, <4>1
      <4> QED
        BY <2>3, <3>2, <4>1, <4>2
    <3>3. CASE ~(i < at)
      <4>1. i - (at - 1) \in 1..(Len(s) - at) /\ at + (i - (at - 1)) = i + 1
        BY <1>1, <2>2, <3>1, <3>3
      <4>2. t[i] = b[i - (at - 1)]
        BY <1>1, <2>2, <2>5, <3>1, <3>3
      <4> QED
        BY <2>4, <3>3, <4>1, <4>2
    <3> QED
      BY <3>2, <3>3
  <2>8. \A i \in DOMAIN t : (IF i < at THEN i ELSE i + 1) \in DOMAIN s \ {at}
    BY <1>1, <2>2, <2>6
  <2>9. \A i \in DOMAIN t : t[i] # v /\ \E k \in DOMAIN s : t[i] = s[k]
    BY <2>1, <2>7, <2>8
  <2>10. \A i, j \in DOMAIN t : t[i] = t[j] => i = j
    <3> SUFFICES ASSUME NEW i \in DOMAIN t, NEW j \in DOMAIN t, t[i] = t[j] PROVE i = j
      OBVIOUS
    <3>1. (IF i < at THEN i ELSE i + 1) = (IF j < at THEN j ELSE j + 1)
      BY <2>7, <2>8
    <3> QED
      BY <1>1, <2>2, <2>6, <3>1
  <2> QED
    BY <2>5, <2>9, <2>10 DEF t
<1> QED
  BY <1>2, <1>3

-----------------------------------------------------------------------------

USE DEF Goto, Read, Forget, Fault, Miss, CanChange, Changes, cache, history, Writers, Actors

\* The type invariant in two parts.
LEMMA TypeParts ==
  (TypeOK <=> Types /\ VersionInv) /\ (TypeOK' <=> Types' /\ VersionInv')
BY DEF TypeOK, Types, VersionInv

\* What an actor that has read nothing has.
LEMMA NothingTyped == Nothing \in Contents
BY DEF Nothing, Contents, Revisions

\* A row is inserted, or none.
LEMMA Inserted ==
  ASSUME Types, NEW x \in Rows, outbox' = Append(outbox, x) \/ outbox' = outbox
  PROVE  /\ outbox' \in Seq(Rows) /\ Len(outbox) \in Nat /\ Len(outbox') \in Nat /\ Len(outbox) <= Len(outbox')
         /\ DOMAIN outbox = 1..Len(outbox) /\ DOMAIN outbox \subseteq DOMAIN outbox'
         /\ \A j \in DOMAIN outbox : outbox'[j] = outbox[j] /\ (Visible(j) => Visible(j)')
         /\ outbox' = Append(outbox, x) => /\ Len(outbox') = Len(outbox) + 1
                                          /\ Len(outbox') \in DOMAIN outbox' \ DOMAIN outbox
                                          /\ outbox'[Len(outbox')] = x
<1>1. outbox \in Seq(Rows)
  BY DEF Types
<1>2. Len(outbox) \in Nat /\ DOMAIN outbox = 1..Len(outbox)
  BY <1>1, LenProperties
<1>3. CASE outbox' = outbox
  <2> DEFINE t == Append(outbox, x)
  <2>1. Len(t) = Len(outbox) + 1
    BY <1>1, AppendProperties
  <2>2. t # outbox
    <3> HIDE DEF t
    <3> QED
      BY <1>2, <2>1
  <2>3. /\ Len(outbox') = Len(outbox) /\ DOMAIN outbox' = DOMAIN outbox
        /\ \A j \in DOMAIN outbox : outbox'[j] = outbox[j] /\ (Visible(j) => Visible(j)')
    BY <1>3 DEF Visible
  <2>4. outbox' # t
    BY <1>3, <2>2
  <2> HIDE DEF t
  <2>5. /\ outbox' \in Seq(Rows) /\ Len(outbox') \in Nat /\ Len(outbox) <= Len(outbox')
        /\ DOMAIN outbox \subseteq DOMAIN outbox'
    BY <1>1, <1>2, <1>3
  <2> QED
    BY <1>2, <2>3, <2>4, <2>5 DEF t
<1>4. CASE outbox' = Append(outbox, x)
  BY <1>1, <1>2, <1>4, Appended DEF Visible
<1> QED
  BY <1>3, <1>4

\* Versions stay in order while their holders stay between taking one and
\* activating it.
LEMMA VersionKept ==
  ASSUME VersionInv, versions' = versions,
         \A w \in Writers : pc[w] \in {"write", "activate"} => pc'[w] \in {"write", "activate"}
  PROVE  VersionInv'
BY DEF VersionInv

\* Who loses the version, or has none, may go anywhere.
LEMMA VersionDropped ==
  ASSUME VersionInv, NEW a \in Actors, versions' = Drop(a),
         \A w \in Writers \ {a} : pc'[w] = pc[w]
  PROVE  VersionInv' /\ (Active' => Active)
<1> DEFINE S == Writers \cup {"active"}
           t == Drop(a)
<1>1. versions \in Seq(S) /\ \A i, j \in DOMAIN versions : versions[i] = versions[j] => i = j
  BY DEF VersionInv
<1>2. /\ t \in Seq(S) /\ \A i, j \in DOMAIN t : t[i] = t[j] => i = j
      /\ \A i \in DOMAIN t : t[i] # a /\ \E k \in DOMAIN versions : t[i] = versions[k]
  BY <1>1, WithoutEntry DEF Drop
<1> HIDE DEF t
<1>3. versions' = t
  BY DEF t
<1>4. VersionInv'
  BY <1>2, <1>3 DEF VersionInv
<1>5. Active' => Active
  BY <1>2, <1>3 DEF Active
<1> QED
  BY <1>4, <1>5

\* Ids that the watermark or a batch can name.
Seen(ids) == ids \subseteq 0..Len(outbox) /\ \A i \in ids : i = 0 \/ Visible(i)

\* The watermark and the batches are such ids.
LEMMA SeenIds ==
  ASSUME IInv, Types
  PROVE  Seen({watermark}) /\ \A p \in Pollers : Seen(batch[p])
<1>1. DOMAIN outbox = 1..Len(outbox) /\ Len(outbox) \in Nat
  BY DEF Types
<1>2. watermark \in 0..Len(outbox) /\ \A p \in Pollers : batch[p] \subseteq 1..Len(outbox)
  BY <1>1 DEF Types
<1> QED
  BY <1>1, <1>2 DEF Seen, IInv, RowInv

\* A step that leaves the newest change as well covered as it was, beyond any
\* ids, keeps EventInv if it does so for the poller it moves, if any.
LEMMA EventKept ==
  ASSUME IInv, Types, NEW a,
         \A ids : Seen(ids) => Ahead(ids)' \/ (db' = db /\ ~Ahead(ids)),
         \A p \in Pollers \ {a} : /\ pc'[p] = pc[p] /\ batch'[p] = batch[p]
                                /\ loaded'[p] = loaded[p] /\ (rebuilt'[p] <=> rebuilt[p]),
         a \in Pollers => PollerAhead(a)', watermark' = watermark
  PROVE  EventInv'
<1>1. Seen({watermark}) /\ \A p \in Pollers : Seen(batch[p])
  BY SeenIds
<1>2. Ahead({watermark})'
  BY <1>1 DEF IInv, EventInv
<1>3. ASSUME NEW p \in Pollers PROVE PollerAhead(p)'
  <2>1. CASE p = a
    BY <2>1
  <2>2. CASE p # a
    <3>1. /\ pc'[p] = pc[p] /\ batch'[p] = batch[p]
          /\ loaded'[p] = loaded[p] /\ (rebuilt'[p] <=> rebuilt[p])
      BY <2>2
    <3> QED
      BY <1>1, <3>1 DEF IInv, EventInv, PollerAhead
  <2> QED
    BY <2>1, <2>2
<1> QED
  BY <1>2, <1>3 DEF EventInv

\* What is covered, about to be enqueued or visible stays so.
LEMMA AheadGrows ==
  ASSUME db' = db, Covered => Covered', Enqueuing => Covered' \/ Enqueuing',
         \A j \in DOMAIN outbox : Visible(j) => j \in DOMAIN outbox' /\ Visible(j)'
  PROVE  \A ids : Seen(ids) => Ahead(ids)' \/ (db' = db /\ ~Ahead(ids))
BY DEF Ahead, Beyond

\* So it does when neither database nor outbox nor history change.
LEMMA AheadSame ==
  ASSUME UNCHANGED <<db, outbox, snap, newest, missed>>, \A e \in Editors : pc'[e] = pc[e]
  PROVE  \A ids : Seen(ids) => Ahead(ids)' \/ (db' = db /\ ~Ahead(ids))
<1>1. (Covered => Covered') /\ (Enqueuing => Enqueuing')
  BY DEF Covered, Enqueuing
<1>2. \A j \in DOMAIN outbox : Visible(j) => j \in DOMAIN outbox' /\ Visible(j)'
  BY DEF Visible
<1> QED
  BY <1>1, <1>2, AheadGrows

\* A miss covers the newest change.
LEMMA AheadMiss ==
  ASSUME Types, db' = db, missed' = db.rev
  PROVE  Covered' /\ \A ids : Seen(ids) => Ahead(ids)' \/ (db' = db /\ ~Ahead(ids))
<1>1. Covered'
  BY DEF Types, Contents, Revisions, Covered
<1> QED
  BY <1>1 DEF Ahead

\* The invariant holds with an empty outbox and nothing cached.
LEMMA InitHolds == Init => IInv
<1> HAVE Init
<1>1. Types
  <2>1. db \in Contents /\ Nothing \in Contents
    BY DEF Init, Contents, Revisions, Nothing
  <2>2. rebuilt \in [Pollers -> BOOLEAN]
    BY Zenon DEF Init
  <2>3. outbox \in Seq(Rows) /\ watermark \in 0..Len(outbox)
    BY DEF Init
  <2> QED
    BY <2>1, <2>2, <2>3 DEF Init, Types, Revisions, Pcs
<1>2. VersionInv
  BY DEF Init, VersionInv
<1>3. PlaceInv
  BY DEF Init, PlaceInv
<1>4. RowInv
  BY DEF Init, RowInv
<1>5. EventInv
  BY DEF Init, EventInv, PollerAhead, Ahead, Covered, Loaded
<1>6. ListInv
  BY DEF Init, ListInv, Active, Loaded
<1> QED
  BY <1>1, <1>2, <1>3, <1>4, <1>5, <1>6, TypeParts DEF IInv

-----------------------------------------------------------------------------

\* A change is about to be enqueued, or is one the outbox never hears of.
LEMMA ChangeKeeps ==
  ASSUME IInv, NEW e \in Editors, Change(e)
  PROVE  IInv'
<1>0. Types /\ VersionInv
  BY TypeParts DEF IInv
<1>1. Types'
  <2>1. db' \in Contents /\ missed' \in Revisions
    BY <1>0 DEF Types, Contents, Revisions, Change
  <2>2. pc' \in [Actors -> Pcs]
    BY <1>0 DEF Types, Pcs, Change
  <2> QED
    BY <1>0, <2>1, <2>2 DEF Types, Change
<1>2. VersionInv'
  BY <1>0, VersionKept DEF Types, Change
<1>3. PlaceInv'
  BY <1>0 DEF IInv, PlaceInv, Types, Locked, Change
<1>4. RowInv'
  BY <1>0 DEF IInv, RowInv, Visible, Types, Rows, Change
<1>5. EventInv'
  <2>1. Enqueuing' \/ Covered'
    BY <1>0 DEF Types, Contents, Revisions, Enqueuing, Covered, Change
  <2>2. \A p \in Pollers : /\ pc'[p] = pc[p] /\ batch'[p] = batch[p]
                          /\ loaded'[p] = loaded[p] /\ (rebuilt'[p] <=> rebuilt[p])
    BY <1>0 DEF Types, Change
  <2>3. watermark' = watermark
    BY DEF Change
  <2> QED
    BY <1>0, <2>1, <2>2, <2>3, EventKept DEF Ahead
<1>6. ListInv'
  BY <1>0 DEF IInv, ListInv, Active, Loaded, Types, Contents, Revisions, Change
<1> QED
  BY <1>1, <1>2, <1>3, <1>4, <1>5, <1>6, TypeParts DEF IInv

\* The row gets the largest id, or the change counts as missed.
LEMMA EnqueueSchedulerOutboxKeeps ==
  ASSUME IInv, NEW e \in Editors, enqueueSchedulerOutbox(e)
  PROVE  IInv'
<1>0. Types /\ VersionInv
  BY TypeParts DEF IInv
<1>1. Types'
  <2>1. /\ outbox' \in Seq(Rows) /\ DOMAIN outbox \subseteq DOMAIN outbox'
        /\ Len(outbox) \in Nat /\ Len(outbox') \in Nat /\ Len(outbox) <= Len(outbox')
    <3>1. "recent" \in Rows /\ (outbox' = Append(outbox, "recent") \/ outbox' = outbox)
      BY DEF Rows, enqueueSchedulerOutbox
    <3> QED
      BY <1>0, <3>1, Inserted
  <2>2. faults' \in 0..MaxFaults /\ missed' \in Revisions /\ pc' \in [Actors -> Pcs]
    BY <1>0 DEF Types, Contents, Pcs, enqueueSchedulerOutbox
  <2>3. watermark' \in 0..Len(outbox') /\ batch' \in [Billers \cup Pollers -> SUBSET DOMAIN outbox']
    BY <1>0, <2>1 DEF Types, enqueueSchedulerOutbox
  <2> QED
    BY <1>0, <2>1, <2>2, <2>3 DEF Types, enqueueSchedulerOutbox
<1>2. VersionInv'
  BY <1>0, VersionKept DEF Types, enqueueSchedulerOutbox, Deduplicated
<1>3. PlaceInv'
  BY <1>0 DEF IInv, PlaceInv, Types, Locked, enqueueSchedulerOutbox, Deduplicated
<1>4. RowInv'
  <2>1. "recent" \in Rows /\ (outbox' = Append(outbox, "recent") \/ outbox' = outbox)
    BY DEF Rows, enqueueSchedulerOutbox
  <2>2. /\ \A j \in DOMAIN outbox : outbox'[j] = outbox[j] /\ (Visible(j) => Visible(j)')
        /\ DOMAIN outbox = 1..Len(outbox) /\ Len(outbox) \in Nat
    BY <1>0, <2>1, Inserted
  <2>3. UNCHANGED <<watermark, batch>>
    BY DEF enqueueSchedulerOutbox
  <2>4. watermark # 0 => watermark \in DOMAIN outbox
    BY <1>0, <2>2 DEF Types
  <2>5. \A a \in Billers \cup Pollers : batch[a] \subseteq DOMAIN outbox
    BY <1>0 DEF Types
  <2>6. watermark' # 0 => Visible(watermark)'
    BY <2>2, <2>3, <2>4 DEF IInv, RowInv, Visible
  <2> QED
    BY <2>2, <2>3, <2>5, <2>6 DEF IInv, RowInv
<1>5. EventInv'
  <2>1. \A ids : Seen(ids) => Ahead(ids)' \/ (db' = db /\ ~Ahead(ids))
    <3>1. CASE outbox' = Append(outbox, "recent")
      <4>1. /\ Len(outbox) \in Nat /\ Len(outbox) + 1 \in DOMAIN outbox'
            /\ outbox'[Len(outbox) + 1] = "recent"
        BY <1>0, <3>1 DEF Types, Rows
      <4>2. \A ids : Seen(ids) => \A i \in ids : Len(outbox) + 1 > i
        BY <4>1 DEF Seen
      <4> QED
        BY <4>1, <4>2 DEF Ahead, Beyond, Visible
    <3>2. CASE missed' = db.rev
      <4>1. db' = db
        BY DEF enqueueSchedulerOutbox
      <4> QED
        BY <1>0, <3>2, <4>1, AheadMiss
    <3> QED
      BY <3>1, <3>2 DEF enqueueSchedulerOutbox
  <2>2. \A p \in Pollers : /\ pc'[p] = pc[p] /\ batch'[p] = batch[p]
                          /\ loaded'[p] = loaded[p] /\ (rebuilt'[p] <=> rebuilt[p])
    BY <1>0 DEF Types, enqueueSchedulerOutbox
  <2>3. watermark' = watermark
    BY DEF enqueueSchedulerOutbox
  <2> QED
    BY <1>0, <2>1, <2>2, <2>3, EventKept
<1>6. ListInv'
  BY <1>0 DEF IInv, ListInv, Active, Loaded, Types, Contents, Revisions, enqueueSchedulerOutbox, Deduplicated
<1> QED
  BY <1>1, <1>2, <1>3, <1>4, <1>5, <1>6, TypeParts DEF IInv

\* The payload is not the list.
LEMMA SyncReadKeeps ==
  ASSUME IInv, NEW e \in Editors, SyncRead(e)
  PROVE  IInv'
<1>0. Types /\ VersionInv
  BY TypeParts DEF IInv
<1>1. Types'
  <2>1. loaded' \in [Actors -> Contents] /\ pc' \in [Actors -> Pcs]
    BY <1>0 DEF Types, Pcs, SyncRead
  <2> QED
    BY <1>0, <2>1 DEF Types, SyncRead
<1>2. VersionInv'
  BY <1>0, VersionKept DEF Types, SyncRead
<1>3. PlaceInv'
  BY <1>0 DEF IInv, PlaceInv, Types, Locked, SyncRead
<1>4. RowInv'
  BY <1>0 DEF IInv, RowInv, Visible, Types, Rows, SyncRead
<1>5. EventInv'
  <2>1. (Covered => Covered') /\ (Enqueuing => Enqueuing') /\ UNCHANGED <<db, watermark>>
    BY <1>0 DEF Types, Covered, Enqueuing, SyncRead
  <2>2. \A p \in Pollers : /\ pc'[p] = pc[p] /\ batch'[p] = batch[p]
                          /\ loaded'[p] = loaded[p] /\ (rebuilt'[p] <=> rebuilt[p])
    BY <1>0 DEF Types, SyncRead
  <2>3. \A j \in DOMAIN outbox : Visible(j) => j \in DOMAIN outbox' /\ Visible(j)'
    BY <1>0 DEF IInv, RowInv, Types, Visible, Rows, SyncRead
  <2> QED
    BY <1>0, <2>1, <2>2, <2>3, AheadGrows, EventKept
<1>6. ListInv'
  BY <1>0 DEF IInv, ListInv, Active, Loaded, Types, Contents, Revisions, SyncRead
<1> QED
  BY <1>1, <1>2, <1>3, <1>4, <1>5, <1>6, TypeParts DEF IInv

\* The payload is not the list.
LEMMA SyncWriteKeeps ==
  ASSUME IInv, NEW e \in Editors, SyncWrite(e)
  PROVE  IInv'
<1>0. Types /\ VersionInv
  BY TypeParts DEF IInv
<1>1. Types'
  BY <1>0 DEF Types, Contents, Revisions, Rows, Pcs, Locked, Nothing, SyncWrite
<1>2. VersionInv'
  BY <1>0, VersionKept DEF Types, SyncWrite
<1>3. PlaceInv'
  BY <1>0 DEF IInv, PlaceInv, Types, Locked, SyncWrite
<1>4. RowInv'
  BY <1>0 DEF IInv, RowInv, Visible, Types, Rows, SyncWrite
<1>5. EventInv'
  <2>1. (Covered => Covered') /\ (Enqueuing => Enqueuing') /\ UNCHANGED <<db, watermark>>
    BY <1>0 DEF Types, Covered, Enqueuing, SyncWrite
  <2>2. \A p \in Pollers : /\ pc'[p] = pc[p] /\ batch'[p] = batch[p]
                          /\ loaded'[p] = loaded[p] /\ (rebuilt'[p] <=> rebuilt[p])
    BY <1>0 DEF Types, SyncWrite
  <2>3. \A j \in DOMAIN outbox : Visible(j) => j \in DOMAIN outbox' /\ Visible(j)'
    BY <1>0 DEF IInv, RowInv, Types, Visible, Rows, SyncWrite
  <2> QED
    BY <1>0, <2>1, <2>2, <2>3, AheadGrows, EventKept
<1>6. ListInv'
  BY <1>0 DEF IInv, ListInv, Active, Loaded, Types, Contents, Revisions, SyncWrite
<1> QED
  BY <1>1, <1>2, <1>3, <1>4, <1>5, <1>6, TypeParts DEF IInv

\* An older row is as visible.
LEMMA WindowEndsKeeps ==
  ASSUME IInv, NEW i \in DOMAIN outbox, WindowEnds(i)
  PROVE  IInv'
<1>0. Types /\ VersionInv
  BY TypeParts DEF IInv
<1>1. Types'
  BY <1>0 DEF Types, Contents, Revisions, Rows, Pcs, Locked, Nothing, WindowEnds
<1>2. VersionInv'
  BY <1>0, VersionKept DEF Types, WindowEnds
<1>3. PlaceInv'
  BY <1>0 DEF IInv, PlaceInv, Types, Locked, WindowEnds
<1>4. RowInv'
  BY <1>0 DEF IInv, RowInv, Visible, Types, Rows, WindowEnds
<1>5. EventInv'
  <2>1. (Covered => Covered') /\ (Enqueuing => Enqueuing') /\ UNCHANGED <<db, watermark>>
    BY <1>0 DEF Types, Covered, Enqueuing, WindowEnds
  <2>2. \A p \in Pollers : /\ pc'[p] = pc[p] /\ batch'[p] = batch[p]
                          /\ loaded'[p] = loaded[p] /\ (rebuilt'[p] <=> rebuilt[p])
    BY <1>0 DEF Types, WindowEnds
  <2>3. \A j \in DOMAIN outbox : Visible(j) => j \in DOMAIN outbox' /\ Visible(j)'
    BY <1>0 DEF IInv, RowInv, Types, Visible, Rows, WindowEnds
  <2> QED
    BY <1>0, <2>1, <2>2, <2>3, AheadGrows, EventKept
<1>6. ListInv'
  BY <1>0 DEF IInv, ListInv, Active, Loaded, Types, Contents, Revisions, WindowEnds
<1> QED
  BY <1>1, <1>2, <1>3, <1>4, <1>5, <1>6, TypeParts DEF IInv

\* The row is open, and its id is new.
LEMMA BeginTransactionKeeps ==
  ASSUME IInv, NEW b \in Billers, BeginTransaction(b)
  PROVE  IInv'
<1>0. Types /\ VersionInv
  BY TypeParts DEF IInv
<1>1. Types'
  <2>1. /\ outbox' \in Seq(Rows) /\ DOMAIN outbox \subseteq DOMAIN outbox'
        /\ Len(outbox) \in Nat /\ Len(outbox') \in Nat /\ Len(outbox) <= Len(outbox')
    <3>1. "open" \in Rows /\ (outbox' = Append(outbox, "open") \/ outbox' = outbox)
      BY DEF Rows, BeginTransaction
    <3> QED
      BY <1>0, <3>1, Inserted
  <2>2. pc' \in [Actors -> Pcs]
    BY <1>0 DEF Types, Pcs, BeginTransaction
  <2>3. watermark' \in 0..Len(outbox')
    BY <1>0, <2>1 DEF Types, BeginTransaction
  <2>4. batch' \in [Billers \cup Pollers -> SUBSET DOMAIN outbox']
    BY <1>0, <2>1 DEF Types, BeginTransaction
  <2> QED
    BY <1>0, <2>1, <2>2, <2>3, <2>4 DEF Types, BeginTransaction
<1>2. VersionInv'
  BY <1>0, VersionKept DEF Types, BeginTransaction, Deduplicated
<1>3. PlaceInv'
  BY <1>0 DEF IInv, PlaceInv, Types, Locked, BeginTransaction, Deduplicated
<1>4. RowInv'
  <2>1. /\ "open" \in Rows /\ watermark' = watermark
        /\ \/ outbox' = Append(outbox, "open") /\ batch' = [batch EXCEPT ![b] = {Len(outbox')}]
           \/ UNCHANGED <<outbox, batch>>
    BY DEF Rows, BeginTransaction
  <2>2. CASE UNCHANGED <<outbox, batch>>
    BY <2>1, <2>2 DEF IInv, RowInv, Visible
  <2>3. CASE outbox' = Append(outbox, "open") /\ batch' = [batch EXCEPT ![b] = {Len(outbox')}]
    <3> DEFINE n == Len(outbox')
    <3>1. /\ \A j \in DOMAIN outbox : outbox'[j] = outbox[j] /\ (Visible(j) => Visible(j)')
          /\ n \notin DOMAIN outbox /\ outbox'[n] = "open"
          /\ DOMAIN outbox = 1..Len(outbox) /\ Len(outbox) \in Nat
      BY <1>0, <2>1, <2>3, Inserted
    <3>2. /\ batch'[b] = {n} /\ \A a \in Billers \cup Pollers : batch[a] \subseteq DOMAIN outbox
          /\ \A a \in (Billers \cup Pollers) \ {b} : batch'[a] = batch[a]
      BY <1>0, <2>3 DEF Types
    <3> HIDE DEF n
    <3>3. watermark # 0 => watermark \in DOMAIN outbox
      BY <1>0, <3>1 DEF Types
    <3>4. /\ \A c \in Billers : \A i \in batch'[c] : outbox'[i] = "open"
          /\ \A c, d \in Billers : batch'[c] \cap batch'[d] # {} => c = d
      BY <3>1, <3>2 DEF IInv, RowInv
    <3>5. watermark' # 0 => Visible(watermark)'
      BY <2>1, <3>1, <3>3 DEF IInv, RowInv, Visible
    <3>6. \A p \in Pollers : \A i \in batch'[p] : Visible(i)'
      BY <3>1, <3>2 DEF IInv, RowInv
    <3> QED
      BY <3>4, <3>5, <3>6 DEF RowInv
  <2> QED
    BY <2>1, <2>2, <2>3
<1>5. EventInv'
  <2>1. (Covered => Covered') /\ (Enqueuing => Enqueuing') /\ UNCHANGED <<db, watermark>>
    BY <1>0 DEF Types, Covered, Enqueuing, BeginTransaction
  <2>2. \A p \in Pollers : /\ pc'[p] = pc[p] /\ batch'[p] = batch[p]
                          /\ loaded'[p] = loaded[p] /\ (rebuilt'[p] <=> rebuilt[p])
    BY <1>0 DEF Types, BeginTransaction
  <2>3. "open" \in Rows /\ (outbox' = Append(outbox, "open") \/ outbox' = outbox)
    BY DEF Rows, BeginTransaction
  <2>4. \A j \in DOMAIN outbox : Visible(j) => j \in DOMAIN outbox' /\ Visible(j)'
    BY <1>0, <2>3, Inserted
  <2> QED
    BY <1>0, <2>1, <2>2, <2>4, AheadGrows, EventKept
<1>6. ListInv'
  BY <1>0 DEF IInv, ListInv, Active, Loaded, Types, Contents, Revisions, BeginTransaction, Deduplicated
<1> QED
  BY <1>1, <1>2, <1>3, <1>4, <1>5, <1>6, TypeParts DEF IInv

\* The row becomes visible beyond all others, or the change counts as missed.
LEMMA CommitTransactionKeeps ==
  ASSUME IInv, NEW b \in Billers, CommitTransaction(b)
  PROVE  IInv'
<1>0. Types /\ VersionInv
  BY TypeParts DEF IInv
<1>1. Types'
  <2>1. /\ outbox' \in Seq(Rows) /\ DOMAIN outbox' = DOMAIN outbox
        /\ Len(outbox) \in Nat /\ Len(outbox') = Len(outbox)
    BY <1>0 DEF Types, Rows, CommitTransaction
  <2>2. db' \in Contents /\ missed' \in Revisions
    BY <1>0 DEF Types, Contents, Revisions, CommitTransaction
  <2>3. pc' \in [Actors -> Pcs] /\ batch' \in [Billers \cup Pollers -> SUBSET DOMAIN outbox']
    BY <1>0, <2>1 DEF Types, Pcs, CommitTransaction
  <2> QED
    BY <1>0, <2>1, <2>2, <2>3 DEF Types, CommitTransaction
<1>2. VersionInv'
  BY <1>0, VersionKept DEF Types, CommitTransaction
<1>3. PlaceInv'
  BY <1>0 DEF IInv, PlaceInv, Types, Locked, CommitTransaction
<1>4. RowInv'
  BY <1>0 DEF IInv, RowInv, Visible, Types, Rows, CommitTransaction
<1>5. EventInv'
  <2>1. \A ids : Seen(ids) => Ahead(ids)'
    <3>1. CASE \E i \in batch[b] : \A j \in DOMAIN outbox : j > i => ~Visible(j)
      <4>1. PICK i \in batch[b] : \A j \in DOMAIN outbox : j > i => ~Visible(j)
        BY <3>1
      <4>2. /\ i \in DOMAIN outbox /\ i \in Nat /\ i > 0 /\ ~Visible(i) /\ DOMAIN outbox = 1..Len(outbox)
        BY <1>0 DEF IInv, RowInv, Types, Visible
      <4>3. i \in DOMAIN outbox' /\ Visible(i)'
        BY <4>2 DEF CommitTransaction, Visible
      <4>4. \A ids : Seen(ids) => \A k \in ids : i > k
        BY <1>0, <4>1, <4>2 DEF Seen, Types
      <4> QED
        BY <4>3, <4>4 DEF Ahead, Beyond
    <3>2. CASE missed' = db'.rev
      <4>1. Covered'
        BY <1>0, <3>2 DEF Types, Contents, Revisions, Covered, CommitTransaction
      <4> QED
        BY <4>1 DEF Ahead
    <3> QED
      BY <3>1, <3>2 DEF CommitTransaction
  <2>2. \A p \in Pollers : /\ pc'[p] = pc[p] /\ batch'[p] = batch[p]
                          /\ loaded'[p] = loaded[p] /\ (rebuilt'[p] <=> rebuilt[p])
    BY <1>0 DEF Types, CommitTransaction
  <2>3. watermark' = watermark
    BY DEF CommitTransaction
  <2> QED
    BY <1>0, <2>1, <2>2, <2>3, EventKept
<1>6. ListInv'
  BY <1>0 DEF IInv, ListInv, Active, Loaded, Types, Contents, Revisions, CommitTransaction
<1> QED
  BY <1>1, <1>2, <1>3, <1>4, <1>5, <1>6, TypeParts DEF IInv

\* Only rows that nobody has seen disappear.
LEMMA RollbackTransactionKeeps ==
  ASSUME IInv, NEW b \in Billers, RollbackTransaction(b)
  PROVE  IInv'
<1>0. Types /\ VersionInv
  BY TypeParts DEF IInv
<1>1. Types'
  <2>1. /\ outbox' \in Seq(Rows) /\ DOMAIN outbox' = DOMAIN outbox
        /\ Len(outbox) \in Nat /\ Len(outbox') = Len(outbox)
    BY <1>0 DEF Types, Rows, RollbackTransaction
  <2>2. faults' \in 0..MaxFaults /\ pc' \in [Actors -> Pcs]
    BY <1>0 DEF Types, Pcs, RollbackTransaction
  <2>3. batch' \in [Billers \cup Pollers -> SUBSET DOMAIN outbox']
    BY <1>0, <2>1 DEF Types, RollbackTransaction
  <2> QED
    BY <1>0, <2>1, <2>2, <2>3 DEF Types, RollbackTransaction
<1>2. VersionInv'
  BY <1>0, VersionKept DEF Types, RollbackTransaction
<1>3. PlaceInv'
  BY <1>0 DEF IInv, PlaceInv, Types, Locked, RollbackTransaction
<1>4. RowInv'
  BY <1>0 DEF IInv, RowInv, Visible, Types, Rows, RollbackTransaction
<1>5. EventInv'
  <2>1. (Covered => Covered') /\ (Enqueuing => Enqueuing') /\ UNCHANGED <<db, watermark>>
    BY <1>0 DEF Types, Covered, Enqueuing, RollbackTransaction
  <2>2. \A p \in Pollers : /\ pc'[p] = pc[p] /\ batch'[p] = batch[p]
                          /\ loaded'[p] = loaded[p] /\ (rebuilt'[p] <=> rebuilt[p])
    BY <1>0 DEF Types, RollbackTransaction
  <2>3. \A j \in DOMAIN outbox : Visible(j) => j \in DOMAIN outbox' /\ Visible(j)'
    BY <1>0 DEF IInv, RowInv, Types, Visible, Rows, RollbackTransaction
  <2> QED
    BY <1>0, <2>1, <2>2, <2>3, AheadGrows, EventKept
<1>6. ListInv'
  BY <1>0 DEF IInv, ListInv, Active, Loaded, Types, Contents, Revisions, RollbackTransaction
<1> QED
  BY <1>1, <1>2, <1>3, <1>4, <1>5, <1>6, TypeParts DEF IInv

\* The batch is visible, and nothing is rebuilt for it yet.
LEMMA PollOutboxKeeps ==
  ASSUME IInv, NEW p \in Pollers, pollOutbox(p)
  PROVE  IInv'
<1>0. Types /\ VersionInv
  BY TypeParts DEF IInv
<1>1. Types'
  BY <1>0 DEF Types, Contents, Revisions, Rows, Pcs, Locked, Nothing, pollOutbox, Pending
<1>2. VersionInv'
  BY <1>0, VersionKept DEF Types, pollOutbox, Pending
<1>3. PlaceInv'
  BY <1>0 DEF IInv, PlaceInv, Types, Locked, pollOutbox, Pending
<1>4. RowInv'
  BY <1>0 DEF IInv, RowInv, Visible, Types, Rows, pollOutbox, Pending
<1>5. EventInv'
  <2>1. UNCHANGED <<db, outbox, watermark, snap, newest, missed>> /\ \A e \in Editors : pc'[e] = pc[e]
    BY <1>0 DEF Types, pollOutbox
  <2>2. \A o \in Pollers \ {p} : /\ pc'[o] = pc[o] /\ batch'[o] = batch[o]
                                /\ loaded'[o] = loaded[o] /\ (rebuilt'[o] <=> rebuilt[o])
    BY <1>0 DEF Types, pollOutbox
  <2>3. PollerAhead(p)'
    BY <1>0 DEF IInv, PlaceInv, PollerAhead, Types, Loaded, pollOutbox
  <2> QED
    BY <1>0, <2>1, <2>2, <2>3, AheadSame, EventKept
<1>6. ListInv'
  BY <1>0 DEF IInv, ListInv, Active, Loaded, Types, Contents, Revisions, pollOutbox, Pending
<1> QED
  BY <1>1, <1>2, <1>3, <1>4, <1>5, <1>6, TypeParts DEF IInv

\* A full rebuild has no batch.
LEMMA TriggerFullRebuildKeeps ==
  ASSUME IInv, NEW r \in Rebuilders, triggerFullRebuild(r)
  PROVE  IInv'
<1>0. Types /\ VersionInv
  BY TypeParts DEF IInv
<1>1. Types'
  BY <1>0 DEF Types, Contents, Revisions, Rows, Pcs, Locked, Nothing, triggerFullRebuild
<1>2. VersionInv'
  BY <1>0, VersionKept DEF Types, triggerFullRebuild
<1>3. PlaceInv'
  BY <1>0 DEF IInv, PlaceInv, Types, Locked, triggerFullRebuild
<1>4. RowInv'
  BY <1>0 DEF IInv, RowInv, Visible, Types, Rows, triggerFullRebuild
<1>5. EventInv'
  <2>1. UNCHANGED <<db, outbox, watermark, snap, newest, missed>> /\ \A e \in Editors : pc'[e] = pc[e]
    BY <1>0 DEF Types, triggerFullRebuild
  <2>2. \A p \in Pollers : /\ pc'[p] = pc[p] /\ batch'[p] = batch[p]
                          /\ loaded'[p] = loaded[p] /\ (rebuilt'[p] <=> rebuilt[p])
    BY <1>0 DEF Types, triggerFullRebuild
  <2> QED
    BY <1>0, <2>1, <2>2, AheadSame, EventKept
<1>6. ListInv'
  BY <1>0 DEF IInv, ListInv, Active, Loaded, Types, Contents, Revisions, triggerFullRebuild
<1> QED
  BY <1>1, <1>2, <1>3, <1>4, <1>5, <1>6, TypeParts DEF IInv

\* A request has no batch.
LEMMA ListSchedulableAccountsKeeps ==
  ASSUME IInv, NEW q \in Requests, ListSchedulableAccounts(q)
  PROVE  IInv'
<1>0. Types /\ VersionInv
  BY TypeParts DEF IInv
<1>1. Types'
  BY <1>0 DEF Types, Contents, Revisions, Rows, Pcs, Locked, Nothing, ListSchedulableAccounts
<1>2. VersionInv'
  BY <1>0, VersionKept DEF Types, ListSchedulableAccounts
<1>3. PlaceInv'
  BY <1>0 DEF IInv, PlaceInv, Types, Locked, ListSchedulableAccounts
<1>4. RowInv'
  BY <1>0 DEF IInv, RowInv, Visible, Types, Rows, ListSchedulableAccounts
<1>5. EventInv'
  <2>1. UNCHANGED <<db, outbox, watermark, snap, newest, missed>> /\ \A e \in Editors : pc'[e] = pc[e]
    BY <1>0 DEF Types, ListSchedulableAccounts
  <2>2. \A p \in Pollers : /\ pc'[p] = pc[p] /\ batch'[p] = batch[p]
                          /\ loaded'[p] = loaded[p] /\ (rebuilt'[p] <=> rebuilt[p])
    BY <1>0 DEF Types, ListSchedulableAccounts
  <2> QED
    BY <1>0, <2>1, <2>2, AheadSame, EventKept
<1>6. ListInv'
  BY <1>0 DEF IInv, ListInv, Active, Loaded, Types, Contents, Revisions, ListSchedulableAccounts
<1> QED
  BY <1>1, <1>2, <1>3, <1>4, <1>5, <1>6, TypeParts DEF IInv

\* What is read is the newest revision.
LEMMA HandleAccountEventKeeps ==
  ASSUME IInv, NEW p \in Pollers, handleAccountEvent(p)
  PROVE  IInv'
<1>0. Types /\ VersionInv
  BY TypeParts DEF IInv
<1>1. Types'
  <2>1. pc' \in [Actors -> Pcs]
    BY <1>0 DEF Types, Pcs, Locked, handleAccountEvent, GiveUp
  <2>2. loaded' \in [Actors -> Contents]
    BY <1>0, NothingTyped DEF Types, handleAccountEvent, GiveUp
  <2>3. batch' \in [Billers \cup Pollers -> SUBSET DOMAIN outbox']
    BY <1>0 DEF Types, handleAccountEvent, GiveUp
  <2>4. rebuilt' \in [Pollers -> BOOLEAN]
    BY <1>0 DEF Types, handleAccountEvent, GiveUp
  <2>5. faults' \in 0..MaxFaults
    BY <1>0 DEF Types, Contents, Revisions, Larger, handleAccountEvent, GiveUp
  <2> QED
    BY <1>0, <2>1, <2>2, <2>3, <2>4, <2>5 DEF Types, handleAccountEvent, GiveUp
<1>2. VersionInv'
  BY <1>0, VersionKept DEF Types, handleAccountEvent, GiveUp
<1>3. PlaceInv'
  BY <1>0 DEF IInv, PlaceInv, Types, Locked, handleAccountEvent, GiveUp
<1>4. RowInv'
  BY <1>0 DEF IInv, RowInv, Visible, Types, Rows, handleAccountEvent, GiveUp
<1>5. EventInv'
  <2>1. UNCHANGED <<db, outbox, watermark, snap, newest, missed>> /\ \A e \in Editors : pc'[e] = pc[e]
    BY <1>0 DEF Types, handleAccountEvent, GiveUp
  <2>2. \A o \in Pollers \ {p} : /\ pc'[o] = pc[o] /\ batch'[o] = batch[o]
                                /\ loaded'[o] = loaded[o] /\ (rebuilt'[o] <=> rebuilt[o])
    BY <1>0 DEF Types, handleAccountEvent, GiveUp
  <2>3. PollerAhead(p)'
    <3>1. CASE pc'[p] = "setAccount" /\ loaded'[p] = db /\ UNCHANGED <<batch, rebuilt>>
      <4>1. db'.rev <= loaded'[p].rev
        BY <1>0, <2>1, <3>1 DEF Types, Contents, Revisions
      <4>2. rebuilt[p] => Ahead(batch[p])
        BY DEF IInv, EventInv, PollerAhead, handleAccountEvent
      <4>3. rebuilt[p] => Ahead(batch[p])'
        BY <1>0, <2>1, <3>1, <4>2, AheadSame, SeenIds
      <4> QED
        BY <3>1, <4>1, <4>3 DEF PollerAhead, Loaded
    <3>2. CASE pc'[p] = "idle"
      BY <3>2 DEF PollerAhead, Loaded
    <3> QED
      BY <1>0, <3>1, <3>2 DEF Types, handleAccountEvent, GiveUp
  <2> QED
    BY <1>0, <2>1, <2>2, <2>3, AheadSame, EventKept
<1>6. ListInv'
  BY <1>0 DEF IInv, ListInv, Active, Loaded, Types, Contents, Revisions, handleAccountEvent, GiveUp
<1> QED
  BY <1>1, <1>2, <1>3, <1>4, <1>5, <1>6, TypeParts DEF IInv

\* Later events of a batch need no rebuild, as the batch is covered; a bucket
\* that is skipped counts the revision read as missed.
LEMMA RebuildByAccountKeeps ==
  ASSUME IInv, NEW p \in Pollers, rebuildByAccount(p)
  PROVE  IInv'
<1>0. Types /\ VersionInv
  BY TypeParts DEF IInv
<1>1. Types'
  <2>1. pc' \in [Actors -> Pcs]
    BY <1>0 DEF Types, Pcs, Locked, rebuildByAccount, GiveUp
  <2>2. loaded' \in [Actors -> Contents]
    BY <1>0, NothingTyped DEF Types, rebuildByAccount, GiveUp
  <2>3. batch' \in [Billers \cup Pollers -> SUBSET DOMAIN outbox']
    BY <1>0 DEF Types, rebuildByAccount, GiveUp
  <2>4. rebuilt' \in [Pollers -> BOOLEAN]
    BY <1>0 DEF Types, rebuildByAccount, GiveUp
  <2>5. meta' \in Revisions /\ missed' \in Revisions /\ faults' \in 0..MaxFaults
    BY <1>0 DEF Types, Contents, Revisions, Larger, rebuildByAccount, GiveUp
  <2> QED
    BY <1>0, <2>1, <2>2, <2>3, <2>4, <2>5 DEF Types, rebuildByAccount, GiveUp
<1>2. VersionInv'
  BY <1>0, VersionKept DEF Types, rebuildByAccount, GiveUp
<1>3. PlaceInv'
  <2>1. /\ \A a \in Actors \ {p} : pc'[a] = pc[a]
        /\ \A o \in Pollers \ {p} : batch'[o] = batch[o] /\ (rebuilt'[o] <=> rebuilt[o])
    BY <1>0 DEF Types, rebuildByAccount, GiveUp
  <2>2. \/ pc'[p] \in {"watermark", "lock"} /\ batch'[p] = batch[p]
        \/ pc'[p] = "idle" /\ batch'[p] = {} /\ ~rebuilt'[p]
    BY <1>0 DEF Types, rebuildByAccount, GiveUp
  <2>3. batch[p] # {}
    BY DEF IInv, PlaceInv, rebuildByAccount
  <2> QED
    BY <2>1, <2>2, <2>3 DEF IInv, PlaceInv, Locked
<1>4. RowInv'
  <2>1. UNCHANGED <<outbox, watermark>> /\ \A a \in Billers \cup Pollers : batch'[a] \in {{}, batch[a]}
    BY <1>0 DEF Types, rebuildByAccount, GiveUp
  <2> QED
    BY <2>1 DEF IInv, RowInv, Visible
<1>5. EventInv'
  <2>1. UNCHANGED <<db, outbox, watermark, snap, newest>> /\ \A e \in Editors : pc'[e] = pc[e]
    BY <1>0 DEF Types, rebuildByAccount, GiveUp
  <2>2. \A o \in Pollers \ {p} : /\ pc'[o] = pc[o] /\ batch'[o] = batch[o]
                                /\ loaded'[o] = loaded[o] /\ (rebuilt'[o] <=> rebuilt[o])
    BY <1>0 DEF Types, rebuildByAccount, GiveUp
  <2>3. /\ db.rev \in Nat /\ snap \in Nat /\ newest \in Nat /\ missed \in Nat /\ loaded[p].rev \in Nat
        /\ missed' = missed \/ missed' = Larger(missed, loaded[p].rev)
    BY <1>0 DEF Types, Contents, Revisions, rebuildByAccount
  <2>4. (Covered => Covered') /\ (Enqueuing => Enqueuing')
    BY <2>1, <2>3 DEF Covered, Enqueuing, Larger
  <2>5. \A ids : Seen(ids) => Ahead(ids)' \/ (db' = db /\ ~Ahead(ids))
    <3>1. \A j \in DOMAIN outbox : Visible(j) => j \in DOMAIN outbox' /\ Visible(j)'
      BY <2>1 DEF Visible
    <3> QED
      BY <2>1, <2>4, <3>1, AheadGrows
  <2>6. PollerAhead(p)'
    <3>1. CASE pc'[p] = "watermark" /\ batch' = batch
      <4>1. \/ rebuilt[p] \/ missed' = Larger(missed, loaded[p].rev)
        BY <1>0, <3>1 DEF Types, rebuildByAccount, GiveUp
      <4>2. Ahead(batch[p]) \/ (db.rev <= loaded[p].rev /\ missed' = Larger(missed, loaded[p].rev))
        BY <4>1 DEF IInv, EventInv, PollerAhead, PlaceInv, rebuildByAccount
      <4>3. Ahead(batch[p])'
        <5>1. CASE Ahead(batch[p])
          BY <1>0, <2>5, <3>1, <5>1, SeenIds
        <5>2. CASE db.rev <= loaded[p].rev /\ missed' = Larger(missed, loaded[p].rev)
          BY <2>1, <2>3, <5>2 DEF Ahead, Covered, Larger
        <5> QED
          BY <4>2, <5>1, <5>2
      <4> QED
        BY <3>1, <4>3 DEF PollerAhead, Loaded
    <3>2. CASE pc'[p] \in {"lock", "idle"}
      BY <3>2 DEF PollerAhead, Loaded
    <3> QED
      BY <1>0, <3>1, <3>2 DEF Types, rebuildByAccount, GiveUp
  <2> QED
    BY <1>0, <2>1, <2>2, <2>5, <2>6, EventKept
<1>6. ListInv'
  BY <1>0 DEF IInv, ListInv, Active, Loaded, Types, Contents, Revisions, rebuildByAccount, GiveUp
<1> QED
  BY <1>1, <1>2, <1>3, <1>4, <1>5, <1>6, TypeParts DEF IInv

\* What is loaded is the newest revision.
LEMMA LoadAccountsFromDBKeeps ==
  ASSUME IInv, NEW w \in Writers, loadAccountsFromDB(w)
  PROVE  IInv'
<1>0. Types /\ VersionInv
  BY TypeParts DEF IInv
<1>1. Types'
  <2>1. pc' \in [Actors -> Pcs]
    BY <1>0 DEF Types, Pcs, Locked, loadAccountsFromDB
  <2>2. loaded' \in [Actors -> Contents]
    BY <1>0, NothingTyped DEF Types, loadAccountsFromDB
  <2> QED
    BY <1>0, <2>1, <2>2 DEF Types, loadAccountsFromDB
<1>2. VersionInv'
  BY <1>0, VersionKept DEF Types, loadAccountsFromDB
<1>3. PlaceInv'
  BY <1>0 DEF IInv, PlaceInv, Types, Locked, loadAccountsFromDB
<1>4. RowInv'
  BY <1>0 DEF IInv, RowInv, Visible, Types, Rows, loadAccountsFromDB
<1>5. EventInv'
  <2>1. UNCHANGED <<db, outbox, watermark, snap, newest, missed>> /\ \A e \in Editors : pc'[e] = pc[e]
    BY <1>0 DEF Types, loadAccountsFromDB
  <2>2. \A o \in Pollers \ {w} : /\ pc'[o] = pc[o] /\ batch'[o] = batch[o]
                                /\ loaded'[o] = loaded[o] /\ (rebuilt'[o] <=> rebuilt[o])
    BY <1>0 DEF Types, loadAccountsFromDB
  <2>3. ASSUME w \in Pollers PROVE PollerAhead(w)'
    <3>1. pc'[w] = "version" /\ loaded'[w] = db' /\ db'.rev <= db'.rev
      BY <1>0 DEF Types, Contents, Revisions, loadAccountsFromDB
    <3> QED
      BY <3>1 DEF PollerAhead
  <2> QED
    BY <1>0, <2>1, <2>2, <2>3, AheadSame, EventKept
<1>6. ListInv'
  BY <1>0 DEF IInv, ListInv, Active, Loaded, Types, Contents, Revisions, loadAccountsFromDB
<1> QED
  BY <1>1, <1>2, <1>3, <1>4, <1>5, <1>6, TypeParts DEF IInv

\* The list is not active yet.
LEMMA WriteAccountsKeeps ==
  ASSUME IInv, NEW w \in Writers, writeAccounts(w)
  PROVE  IInv'
<1>0. Types /\ VersionInv
  BY TypeParts DEF IInv
<1>1. Types'
  <2>1. pc' \in [Actors -> Pcs]
    BY <1>0 DEF Types, Pcs, Locked, writeAccounts
  <2>2. meta' \in Revisions
    BY <1>0 DEF Types, Contents, writeAccounts
  <2> QED
    BY <1>0, <2>1, <2>2 DEF Types, writeAccounts
<1>2. VersionInv'
  BY <1>0, VersionKept DEF Types, writeAccounts
<1>3. PlaceInv'
  BY <1>0 DEF IInv, PlaceInv, Types, Locked, writeAccounts
<1>4. RowInv'
  BY <1>0 DEF IInv, RowInv, Visible, Types, Rows, writeAccounts
<1>5. EventInv'
  <2>1. UNCHANGED <<db, outbox, watermark, snap, newest, missed>> /\ \A e \in Editors : pc'[e] = pc[e]
    BY <1>0 DEF Types, writeAccounts
  <2>2. \A o \in Pollers \ {w} : /\ pc'[o] = pc[o] /\ batch'[o] = batch[o]
                                /\ loaded'[o] = loaded[o] /\ (rebuilt'[o] <=> rebuilt[o])
    BY <1>0 DEF Types, writeAccounts
  <2>3. w \in Pollers /\ batch' = batch /\ Ahead(batch[w]) => Ahead(batch[w])'
    BY <1>0, <2>1, AheadSame, SeenIds
  <2>4. ASSUME w \in Pollers PROVE PollerAhead(w)'
    <3>1. pc[w] \in Loaded /\ pc'[w] \in Loaded \ {"account", "setAccount", "watermark"} /\ UNCHANGED <<loaded, batch, db>>
      BY <1>0 DEF Types, Loaded, writeAccounts
    <3> QED
      BY <2>3, <2>4, <3>1 DEF IInv, EventInv, PollerAhead
  <2> QED
    BY <1>0, <2>1, <2>2, <2>4, AheadSame, EventKept
<1>6. ListInv'
  BY <1>0 DEF IInv, ListInv, Active, Loaded, Types, Contents, Revisions, writeAccounts
<1> QED
  BY <1>1, <1>2, <1>3, <1>4, <1>5, <1>6, TypeParts DEF IInv

\* A new version is the last, and its holder has no other.
LEMMA TakeVersionKeeps ==
  ASSUME IInv, NEW w \in Writers, TakeVersion(w)
  PROVE  IInv'
<1>0. Types /\ VersionInv
  BY TypeParts DEF IInv
<1>1. Types'
  <2>1. pc' \in [Actors -> Pcs]
    BY <1>0 DEF Types, Pcs, Locked, TakeVersion
  <2> QED
    BY <1>0, <2>1 DEF Types, TakeVersion
<1>2. VersionInv'
  <2> DEFINE S == Writers \cup {"active"}
  <2>1. versions' = Append(versions, w) /\ w \in S /\ pc[w] = "version" /\ versions \in Seq(S)
    BY <1>0 DEF VersionInv, TakeVersion
  <2>2. /\ versions' \in Seq(S) /\ DOMAIN versions \subseteq DOMAIN versions'
        /\ \A j \in DOMAIN versions' : j \in DOMAIN versions \/ j = Len(versions) + 1
        /\ \A j \in DOMAIN versions : versions'[j] = versions[j]
        /\ versions'[Len(versions) + 1] = w
    BY <2>1, Appended
  <2>3. pc'[w] = "write" /\ \A v \in Writers \ {w} : pc'[v] = pc[v]
    BY <1>0 DEF Types, TakeVersion
  <2>4. \A j \in DOMAIN versions : versions[j] # w
    BY <1>0, <2>1 DEF VersionInv
  <2>5. \A i, j \in DOMAIN versions' : versions'[i] = versions'[j] => i = j
    BY <1>0, <2>2, <2>4 DEF VersionInv
  <2>6. \A i \in DOMAIN versions' : \/ versions'[i] = "active"
                                    \/ versions'[i] \in Writers /\ pc'[versions'[i]] \in {"write", "activate"}
    BY <1>0, <2>2, <2>3, <2>4 DEF VersionInv
  <2> QED
    BY <2>2, <2>5, <2>6 DEF VersionInv
<1>3. PlaceInv'
  BY <1>0 DEF IInv, PlaceInv, Types, Locked, TakeVersion
<1>4. RowInv'
  BY <1>0 DEF IInv, RowInv, Visible, Types, Rows, TakeVersion
<1>5. EventInv'
  <2>1. UNCHANGED <<db, outbox, watermark, snap, newest, missed>> /\ \A e \in Editors : pc'[e] = pc[e]
    BY <1>0 DEF Types, TakeVersion
  <2>2. \A o \in Pollers \ {w} : /\ pc'[o] = pc[o] /\ batch'[o] = batch[o]
                                /\ loaded'[o] = loaded[o] /\ (rebuilt'[o] <=> rebuilt[o])
    BY <1>0 DEF Types, TakeVersion
  <2>3. w \in Pollers /\ batch' = batch /\ Ahead(batch[w]) => Ahead(batch[w])'
    BY <1>0, <2>1, AheadSame, SeenIds
  <2>4. ASSUME w \in Pollers PROVE PollerAhead(w)'
    <3>1. pc[w] \in Loaded /\ pc'[w] \in Loaded \ {"account", "setAccount", "watermark"} /\ UNCHANGED <<loaded, batch, db>>
      BY <1>0 DEF Types, Loaded, TakeVersion
    <3> QED
      BY <2>3, <2>4, <3>1 DEF IInv, EventInv, PollerAhead
  <2> QED
    BY <1>0, <2>1, <2>2, <2>4, AheadSame, EventKept
<1>6. ListInv'
  <2> DEFINE S == Writers \cup {"active"}
  <2>1. versions' = Append(versions, w) /\ w \in S /\ w # "active" /\ versions \in Seq(S)
    BY <1>0 DEF VersionInv, TakeVersion
  <2>2. /\ \A j \in DOMAIN versions' : j \in DOMAIN versions \/ j = Len(versions) + 1
        /\ \A j \in DOMAIN versions : versions'[j] = versions[j]
        /\ versions'[Len(versions) + 1] = w
    BY <2>1, Appended
  <2>3. Active' => Active
    BY <2>1, <2>2 DEF Active
  <2>4. UNCHANGED <<db, snap, loaded>> /\ \A v \in Writers : pc'[v] \in Loaded => pc[v] \in Loaded
    BY <1>0 DEF Types, Loaded, TakeVersion
  <2> QED
    BY <2>3, <2>4 DEF IInv, ListInv
<1> QED
  BY <1>1, <1>2, <1>3, <1>4, <1>5, <1>6, TypeParts DEF IInv

\* The lock only saves work.
LEMMA LockExpiresKeeps ==
  ASSUME IInv, LockExpires
  PROVE  IInv'
<1>0. Types /\ VersionInv
  BY TypeParts DEF IInv
<1>1. Types'
  BY <1>0 DEF Types, Contents, Revisions, Rows, Pcs, Locked, Nothing, LockExpires
<1>2. VersionInv'
  BY <1>0, VersionKept DEF Types, LockExpires
<1>3. PlaceInv'
  BY <1>0 DEF IInv, PlaceInv, LockExpires
<1>4. RowInv'
  BY <1>0 DEF IInv, RowInv, Visible, Types, Rows, LockExpires
<1>5. EventInv'
  <2>1. UNCHANGED <<db, outbox, watermark, snap, newest, missed>> /\ \A e \in Editors : pc'[e] = pc[e]
    BY <1>0 DEF Types, LockExpires
  <2>2. \A p \in Pollers : /\ pc'[p] = pc[p] /\ batch'[p] = batch[p]
                          /\ loaded'[p] = loaded[p] /\ (rebuilt'[p] <=> rebuilt[p])
    BY <1>0 DEF Types, LockExpires
  <2> QED
    BY <1>0, <2>1, <2>2, AheadSame, EventKept
<1>6. ListInv'
  BY <1>0 DEF IInv, ListInv, Active, Loaded, Types, Contents, Revisions, LockExpires
<1> QED
  BY <1>1, <1>2, <1>3, <1>4, <1>5, <1>6, TypeParts DEF IInv

\* The watermark may pass the batch, as the newest change has an event beyond it.
LEMMA SetOutboxWatermarkKeeps ==
  ASSUME IInv, NEW p \in Pollers, SetOutboxWatermark(p)
  PROVE  IInv'
<1>0. Types /\ VersionInv
  BY TypeParts DEF IInv
<1> DEFINE left == {i \in batch[p] : \E j \in batch[p] : j < i}
           last == lastID(p)
<1>a. batch[p] # {} /\ batch[p] \in SUBSET DOMAIN outbox /\ DOMAIN outbox = 1..Len(outbox) /\ Len(outbox) \in Nat
  BY <1>0 DEF IInv, PlaceInv, Types, SetOutboxWatermark
<1>b. left \subseteq batch[p] /\ (left = {} => last \in batch[p] /\ batch[p] = {last})
  <2>1. left = {} => \A i, j \in batch[p] : i = j
    BY <1>a
  <2> QED
    BY <1>a, <2>1 DEF lastID
<1>c. /\ pc[p] = "watermark"
      /\ \/ /\ left # {} /\ batch' = [batch EXCEPT ![p] = left] /\ pc' = [pc EXCEPT ![p] = "account"]
            /\ UNCHANGED <<watermark, rebuilt>>
         \/ /\ left = {} /\ (watermark' = last \/ watermark' = watermark)
            /\ batch' = [batch EXCEPT ![p] = {}] /\ rebuilt' = [rebuilt EXCEPT ![p] = FALSE]
            /\ pc' = [pc EXCEPT ![p] = "idle"] \/ pc' = [pc EXCEPT ![p] = "lock"]
  BY DEF SetOutboxWatermark
<1> HIDE DEF last, left
<1>1. Types'
  <2>1. left \in SUBSET DOMAIN outbox /\ (left = {} => last \in DOMAIN outbox)
    BY <1>a, <1>b
  <2>2. pc' \in [Actors -> Pcs] /\ UNCHANGED outbox
    BY <1>0 DEF Types, Pcs, SetOutboxWatermark
  <2>3. loaded' \in [Actors -> Contents]
    BY <1>0, NothingTyped DEF Types, SetOutboxWatermark
  <2>4. rebuilt' \in [Pollers -> BOOLEAN] /\ faults' \in 0..MaxFaults
    <3>1. rebuilt' \in [Pollers -> BOOLEAN]
      BY <1>0, <1>c DEF Types
    <3>2. faults' \in 0..MaxFaults
      BY <1>0 DEF Types, SetOutboxWatermark
    <3> QED
      BY <3>1, <3>2
  <2>5. watermark' \in 0..Len(outbox')
    BY <1>0, <1>a, <1>c, <2>1, <2>2 DEF Types
  <2>6. batch' \in [Billers \cup Pollers -> SUBSET DOMAIN outbox']
    BY <1>0, <1>c, <2>1, <2>2 DEF Types
  <2> QED
    BY <1>0, <2>2, <2>3, <2>4, <2>5, <2>6 DEF Types, SetOutboxWatermark
<1>2. VersionInv'
  BY <1>0, VersionKept DEF Types, SetOutboxWatermark
<1>3. PlaceInv'
  <2>1. /\ \A a \in Actors \ {p} : pc'[a] = pc[a]
        /\ \A o \in Pollers \ {p} : batch'[o] = batch[o] /\ (rebuilt'[o] <=> rebuilt[o])
    BY <1>0, <1>c DEF Types
  <2>2. \/ pc'[p] = "account" /\ batch'[p] # {}
        \/ pc'[p] \in {"idle", "lock"} /\ batch'[p] = {} /\ ~rebuilt'[p]
    BY <1>0, <1>c DEF Types
  <2> QED
    BY <2>1, <2>2 DEF IInv, PlaceInv, Locked
<1>4. RowInv'
  <2>1. UNCHANGED outbox
    BY DEF SetOutboxWatermark
  <2>2. (left = {} => Visible(last)) /\ \A i \in batch'[p] : i \in batch[p]
    BY <1>0, <1>b, <1>c DEF IInv, RowInv, Types
  <2>3. \A a \in (Billers \cup Pollers) \ {p} : batch'[a] = batch[a]
    BY <1>0, <1>c DEF Types
  <2>4. watermark' = watermark \/ (left = {} /\ watermark' = last)
    BY <1>c
  <2> QED
    BY <2>1, <2>2, <2>3, <2>4 DEF IInv, RowInv, Visible
<1>5. EventInv'
  <2>1. UNCHANGED <<db, outbox, snap, newest, missed>> /\ \A e \in Editors : pc'[e] = pc[e]
    BY <1>0 DEF Types, SetOutboxWatermark
  <2>2. \A o \in Pollers \ {p} : /\ pc'[o] = pc[o] /\ batch'[o] = batch[o]
                                /\ loaded'[o] = loaded[o] /\ (rebuilt'[o] <=> rebuilt[o])
    BY <1>0 DEF Types, SetOutboxWatermark
  <2>3. Seen({watermark}) /\ \A o \in Pollers : Seen(batch[o])
    BY <1>0, SeenIds
  <2>4. Ahead(batch[p]) /\ Ahead({watermark})
    BY DEF IInv, EventInv, PollerAhead, SetOutboxWatermark
  <2>5. Ahead(left) /\ (left = {} => Ahead({last}))
    BY <1>b, <2>4 DEF Ahead, Beyond
  <2>6. Seen(left) /\ (left = {} => Seen({last}))
    BY <1>b, <2>3 DEF Seen
  <2>7. \A ids : Seen(ids) /\ Ahead(ids) => Ahead(ids)'
    BY <2>1, AheadSame
  <2>8. Ahead({watermark})'
    BY <1>c, <2>3, <2>4, <2>5, <2>6, <2>7
  <2>9. ASSUME NEW o \in Pollers PROVE PollerAhead(o)'
    <3>1. CASE o # p
      <4>1. /\ pc'[o] = pc[o] /\ batch'[o] = batch[o]
            /\ loaded'[o] = loaded[o] /\ (rebuilt'[o] <=> rebuilt[o])
        BY <2>2, <3>1
      <4> QED
        BY <2>1, <2>3, <2>7, <4>1 DEF IInv, EventInv, PollerAhead
    <3>2. CASE o = p
      <4>1. CASE batch'[p] = left /\ pc'[p] = "account"
        BY <2>5, <2>6, <2>7, <3>2, <4>1 DEF PollerAhead, Loaded
      <4>2. CASE pc'[p] \in {"idle", "lock"}
        BY <3>2, <4>2 DEF PollerAhead, Loaded
      <4> QED
        BY <1>0, <1>c, <4>1, <4>2 DEF Types
    <3> QED
      BY <3>1, <3>2
  <2> QED
    BY <2>8, <2>9 DEF EventInv
<1>6. ListInv'
  BY <1>0 DEF IInv, ListInv, Active, Loaded, Types, Contents, Revisions, SetOutboxWatermark
<1> QED
  BY <1>1, <1>2, <1>3, <1>4, <1>5, <1>6, TypeParts DEF IInv

\* A bucket that is locked is skipped: the newest change counts as missed.
LEMMA TryLockBucketKeeps ==
  ASSUME IInv, NEW w \in Writers, TryLockBucket(w)
  PROVE  IInv'
<1>0. Types /\ VersionInv
  BY TypeParts DEF IInv
<1>1. Types'
  <2>1. pc' \in [Actors -> Pcs]
    BY <1>0 DEF Types, Pcs, Locked, TryLockBucket, GiveUp, AfterRebuild
  <2>2. loaded' \in [Actors -> Contents]
    BY <1>0, NothingTyped DEF Types, TryLockBucket, GiveUp, AfterRebuild
  <2>3. batch' \in [Billers \cup Pollers -> SUBSET DOMAIN outbox']
    BY <1>0 DEF Types, TryLockBucket, GiveUp, AfterRebuild
  <2>4. rebuilt' \in [Pollers -> BOOLEAN]
    BY <1>0 DEF Types, TryLockBucket, GiveUp, AfterRebuild
  <2>5. faults' \in 0..MaxFaults /\ missed' \in Revisions
    BY <1>0 DEF Types, Contents, TryLockBucket, GiveUp, AfterRebuild
  <2>6. lock' \in Pollers \cup Rebuilders \cup {None}
    BY <1>0 DEF Types, IInv, PlaceInv, TryLockBucket
  <2> QED
    BY <1>0, <2>1, <2>2, <2>3, <2>4, <2>5, <2>6 DEF Types, TryLockBucket
<1>2. VersionInv'
  BY <1>0, VersionKept DEF Types, TryLockBucket, GiveUp, AfterRebuild
<1>3. PlaceInv'
  BY <1>0 DEF IInv, PlaceInv, Types, Locked, TryLockBucket, GiveUp, AfterRebuild
<1>4. RowInv'
  BY <1>0 DEF IInv, RowInv, Visible, Types, Rows, TryLockBucket, GiveUp, AfterRebuild
<1>5. EventInv'
  <2>1. /\ UNCHANGED <<db, outbox, watermark, snap, newest>> /\ \A e \in Editors : pc'[e] = pc[e]
        /\ missed' = missed \/ missed' = db.rev
    BY <1>0 DEF Types, TryLockBucket, GiveUp
  <2>2. \A o \in Pollers \ {w} : /\ pc'[o] = pc[o] /\ batch'[o] = batch[o]
                                /\ loaded'[o] = loaded[o] /\ (rebuilt'[o] <=> rebuilt[o])
    BY <1>0 DEF Types, TryLockBucket, GiveUp, AfterRebuild
  <2>3. ASSUME w \in Pollers PROVE PollerAhead(w)'
    <3>1. CASE missed' = db.rev
      <4>1. Covered'
        BY <1>0, <2>1, <3>1, AheadMiss
      <4> QED
        BY <4>1 DEF PollerAhead, Ahead
    <3>2. CASE pc'[w] \in {"load", "idle"}
      BY <3>2 DEF PollerAhead, Loaded
    <3> QED
      BY <1>0, <2>3, <3>1, <3>2 DEF Types, TryLockBucket, GiveUp
  <2>4. \A ids : Seen(ids) => Ahead(ids)' \/ (db' = db /\ ~Ahead(ids))
    BY <1>0, <2>1, AheadMiss, AheadSame
  <2> QED
    BY <1>0, <2>1, <2>2, <2>3, <2>4, EventKept
<1>6. ListInv'
  BY <1>0 DEF IInv, ListInv, Active, Loaded, Types, Contents, Revisions, TryLockBucket, GiveUp, AfterRebuild
<1> QED
  BY <1>1, <1>2, <1>3, <1>4, <1>5, <1>6, TypeParts DEF IInv

\* An event that fails leaves the watermark where it is.
LEMMA RebuildFailsKeeps ==
  ASSUME IInv, NEW w \in Writers, RebuildFails(w)
  PROVE  IInv'
<1>0. Types /\ VersionInv
  BY TypeParts DEF IInv
<1>1. Types'
  <2>1. pc' \in [Actors -> Pcs]
    BY <1>0 DEF Types, Pcs, Locked, RebuildFails, GiveUp, UnlockBucket
  <2>2. loaded' \in [Actors -> Contents]
    BY <1>0, NothingTyped DEF Types, RebuildFails, GiveUp, UnlockBucket
  <2>3. batch' \in [Billers \cup Pollers -> SUBSET DOMAIN outbox']
    BY <1>0 DEF Types, RebuildFails, GiveUp, UnlockBucket
  <2>4. rebuilt' \in [Pollers -> BOOLEAN]
    BY <1>0 DEF Types, RebuildFails, GiveUp, UnlockBucket
  <2>5. faults' \in 0..MaxFaults
    BY <1>0 DEF Types, RebuildFails, GiveUp, UnlockBucket
  <2> QED
    BY <1>0, <2>1, <2>2, <2>3, <2>4, <2>5 DEF Types, RebuildFails, UnlockBucket
<1>2. VersionInv'
  <2>1. versions' = Drop(w) /\ \A v \in Writers \ {w} : pc'[v] = pc[v]
    BY <1>0 DEF Types, RebuildFails, GiveUp, UnlockBucket
  <2> QED
    BY <1>0, <2>1, VersionDropped
<1>3. PlaceInv'
  BY <1>0 DEF IInv, PlaceInv, Types, Locked, RebuildFails, GiveUp, UnlockBucket
<1>4. RowInv'
  BY <1>0 DEF IInv, RowInv, Visible, Types, Rows, RebuildFails, GiveUp, UnlockBucket
<1>5. EventInv'
  <2>1. UNCHANGED <<db, outbox, watermark, snap, newest, missed>> /\ \A e \in Editors : pc'[e] = pc[e]
    BY <1>0 DEF Types, RebuildFails, GiveUp, UnlockBucket
  <2>2. \A o \in Pollers \ {w} : /\ pc'[o] = pc[o] /\ batch'[o] = batch[o]
                                /\ loaded'[o] = loaded[o] /\ (rebuilt'[o] <=> rebuilt[o])
    BY <1>0 DEF Types, RebuildFails, GiveUp, UnlockBucket
  <2>3. ASSUME w \in Pollers PROVE PollerAhead(w)'
    <3>1. pc'[w] = "idle"
      BY <1>0 DEF Types, RebuildFails, GiveUp, UnlockBucket
    <3> QED
      BY <3>1 DEF PollerAhead, Loaded
  <2> QED
    BY <1>0, <2>1, <2>2, <2>3, AheadSame, EventKept
<1>6. ListInv'
  <2>1. versions' = Drop(w) /\ UNCHANGED <<db, snap>>
        /\ \A v \in Writers \ {w} : pc'[v] = pc[v] /\ loaded'[v] = loaded[v]
    BY <1>0 DEF Types, RebuildFails, GiveUp, UnlockBucket
  <2>2. pc'[w] = "idle"
    BY <1>0 DEF Types, RebuildFails, GiveUp, UnlockBucket
  <2>3. Active' => Active
    BY <1>0, <2>1, VersionDropped
  <2> QED
    BY <2>1, <2>2, <2>3 DEF IInv, ListInv, Loaded
<1> QED
  BY <1>1, <1>2, <1>3, <1>4, <1>5, <1>6, TypeParts DEF IInv

\* The version of w becomes the active one: still nobody holds two.
LEMMA VersionSwitched ==
  ASSUME VersionInv, NEW w \in Writers, versions' = Switched(Drop("active"), w),
         \A v \in Writers \ {w} : pc'[v] = pc[v]
  PROVE  VersionInv'
<1> DEFINE S == Writers \cup {"active"}
           t == Drop("active")
           u == Switched(t, w)
<1>1. versions \in Seq(S) /\ \A i, j \in DOMAIN versions : versions[i] = versions[j] => i = j
  BY DEF VersionInv
<1>2. /\ t \in Seq(S) /\ \A i, j \in DOMAIN t : t[i] = t[j] => i = j
      /\ \A i \in DOMAIN t : t[i] # "active" /\ \E k \in DOMAIN versions : t[i] = versions[k]
  BY <1>1, WithoutEntry DEF Drop
<1> HIDE DEF t
<1>3. /\ DOMAIN u = DOMAIN t
      /\ \A i \in DOMAIN t : u[i] = IF t[i] = w THEN "active" ELSE t[i]
  BY DEF Switched
<1>4. u \in Seq(S)
  <2>1. DOMAIN t = 1..Len(t) /\ Len(t) \in Nat
    BY <1>2, LenProperties
  <2>2. \A i \in 1..Len(t) : t[i] \in S
    BY <1>2, ElementOfSeq
  <2>3. u = [i \in 1..Len(t) |-> IF t[i] = w THEN "active" ELSE t[i]]
    BY <2>1 DEF Switched
  <2>4. \A i \in 1..Len(t) : (IF t[i] = w THEN "active" ELSE t[i]) \in S
    BY <2>2
  <2> HIDE DEF u, S
  <2> QED
    BY <2>1, <2>3, <2>4
<1>5. versions' = u
  BY DEF u, t
<1> HIDE DEF u
<1>6. \A i, j \in DOMAIN u : u[i] = u[j] => i = j
  BY <1>2, <1>3
<1>7. \A i \in DOMAIN u : u[i] = "active" \/ (u[i] \in Writers /\ pc'[u[i]] \in {"write", "activate"})
  <2> SUFFICES ASSUME NEW i \in DOMAIN u, u[i] # "active"
               PROVE  u[i] \in Writers /\ pc'[u[i]] \in {"write", "activate"}
    OBVIOUS
  <2>1. i \in DOMAIN t /\ u[i] = t[i] /\ t[i] # w
    BY <1>3
  <2>2. PICK k \in DOMAIN versions : t[i] = versions[k]
    BY <1>2, <2>1
  <2> QED
    BY <2>1, <2>2 DEF VersionInv
<1> QED
  BY <1>4, <1>5, <1>6, <1>7 DEF VersionInv

\* The versions of w and of the cleared list are gone.
LEMMA VersionCleared ==
  ASSUME VersionInv, NEW w \in Writers, versions' = Without(Drop("active"), w),
         \A v \in Writers \ {w} : pc'[v] = pc[v]
  PROVE  VersionInv' /\ ~Active'
<1> DEFINE S == Writers \cup {"active"}
           t == Drop("active")
           u == Without(t, w)
<1>1. versions \in Seq(S) /\ \A i, j \in DOMAIN versions : versions[i] = versions[j] => i = j
  BY DEF VersionInv
<1>2. /\ t \in Seq(S) /\ \A i, j \in DOMAIN t : t[i] = t[j] => i = j
      /\ \A i \in DOMAIN t : t[i] # "active" /\ \E k \in DOMAIN versions : t[i] = versions[k]
  BY <1>1, WithoutEntry DEF Drop
<1> HIDE DEF t
<1>3. /\ u \in Seq(S) /\ \A i, j \in DOMAIN u : u[i] = u[j] => i = j
      /\ \A i \in DOMAIN u : u[i] # w /\ \E k \in DOMAIN t : u[i] = t[k]
  BY <1>2, WithoutEntry
<1>4. versions' = u
  BY DEF u, t
<1> HIDE DEF u
<1>5. \A i \in DOMAIN u : u[i] # w /\ u[i] # "active" /\ \E k \in DOMAIN versions : u[i] = versions[k]
  BY <1>2, <1>3
<1>6. VersionInv'
  BY <1>3, <1>4, <1>5 DEF VersionInv
<1>7. ~Active'
  BY <1>4, <1>5 DEF Active
<1> QED
  BY <1>6, <1>7

\* A finished rebuild covers what it has loaded, and an older version changes nothing.
LEMMA ActivateOrClearKeeps ==
  ASSUME IInv, NEW w \in Writers, ActivateOrClear(w)
  PROVE  IInv'
<1>0. Types /\ VersionInv
  BY TypeParts DEF IInv
<1>1. Types'
  <2>1. pc' \in [Actors -> Pcs]
    BY <1>0 DEF Types, Pcs, Locked, AfterRebuild, ActivateOrClear, RunsScript, Activates, Clears
  <2>2. loaded' \in [Actors -> Contents]
    BY <1>0, NothingTyped DEF Types, ActivateOrClear, RunsScript, Activates, Clears
  <2>3. lock' \in Pollers \cup Rebuilders \cup {None} /\ faults' \in 0..MaxFaults
    BY <1>0 DEF Types, UnlockBucket, ActivateOrClear, RunsScript, Activates, Clears
  <2>4. snap' \in Revisions /\ newest' \in Revisions /\ missed' \in Revisions
    BY <1>0 DEF Types, Contents, Revisions, Larger, ActivateOrClear, RunsScript, Activates, Clears
  <2> QED
    BY <1>0, <2>1, <2>2, <2>3, <2>4 DEF Types, ActivateOrClear, UnlockBucket
<1>2. VersionInv'
  <2>1. \A v \in Writers \ {w} : pc'[v] = pc[v]
    BY <1>0 DEF Types, ActivateOrClear, RunsScript, Activates, Clears
  <2> QED
    BY <1>0, <2>1, VersionDropped, VersionSwitched, VersionCleared DEF ActivateOrClear, RunsScript, Activates, Clears
<1>3. PlaceInv'
  BY <1>0 DEF IInv, PlaceInv, Types, Locked, AfterRebuild, ActivateOrClear, RunsScript, Activates, Clears
<1>4. RowInv'
  BY <1>0 DEF IInv, RowInv, Visible, Types, Rows, ActivateOrClear, RunsScript, Activates, Clears
<1>5. EventInv'
  <2>1. UNCHANGED <<db, outbox, watermark, batch, rebuilt>> /\ \A e \in Editors : pc'[e] = pc[e]
    BY <1>0 DEF Types, ActivateOrClear, RunsScript, Activates, Clears
  <2>2. \A o \in Pollers \ {w} : /\ pc'[o] = pc[o] /\ batch'[o] = batch[o]
                                /\ loaded'[o] = loaded[o] /\ (rebuilt'[o] <=> rebuilt[o])
    BY <1>0 DEF Types, ActivateOrClear, RunsScript, Activates, Clears
  <2>3. (Covered => Covered') /\ (db.rev <= loaded[w].rev => Covered')
    <3>1. /\ db' = db /\ db.rev \in Nat /\ newest \in Nat /\ missed \in Nat /\ loaded[w].rev \in Nat
          /\ snap \in Nat /\ missed' = IF loaded[w].rev >= missed THEN 0 ELSE missed
          /\ newest' = Larger(newest,
                         Larger(IF NewerIsActive(w) THEN 0 ELSE snap,
                                IF NewerIsActive(w) \/ loaded[w].state # "in" THEN loaded[w].rev ELSE 0))
          /\ snap' = IF NewerIsActive(w) THEN snap ELSE IF loaded[w].state = "in" THEN loaded[w].rev ELSE 0
      BY <1>0 DEF Types, Contents, Revisions, ActivateOrClear, RunsScript, Activates, Clears
    <3> QED
      BY <3>1 DEF Covered, Larger
  <2>4. (Enqueuing => Enqueuing') /\ \A j \in DOMAIN outbox : Visible(j) => j \in DOMAIN outbox' /\ Visible(j)'
    BY <2>1 DEF Enqueuing, Visible
  <2>5. \A ids : Seen(ids) => Ahead(ids)' \/ (db' = db /\ ~Ahead(ids))
    BY <2>1, <2>3, <2>4, AheadGrows
  <2>6. ASSUME w \in Pollers PROVE PollerAhead(w)'
    <3>1. CASE batch[w] # {}
      <4>1. Ahead(batch[w]) \/ db.rev <= loaded[w].rev
        BY <2>6, <3>1 DEF IInv, EventInv, PollerAhead, Loaded, ActivateOrClear, RunsScript, Activates, Clears
      <4>2. Seen(batch[w]) /\ batch' = batch
        BY <1>0, <2>1, <2>6, SeenIds
      <4>3. Ahead(batch[w])'
        <5>1. CASE db.rev <= loaded[w].rev
          BY <2>3, <5>1 DEF Ahead
        <5>2. CASE Ahead(batch[w])
          BY <2>5, <4>2, <5>2
        <5> QED
          BY <4>1, <5>1, <5>2
      <4>4. pc'[w] = "watermark"
        BY <1>0, <2>6, <3>1 DEF Types, AfterRebuild, ActivateOrClear, RunsScript, Activates, Clears
      <4> QED
        BY <4>3, <4>4 DEF PollerAhead, Loaded
    <3>2. CASE batch[w] = {}
      <4>1. pc'[w] = "idle"
        BY <1>0, <3>2 DEF Types, AfterRebuild, ActivateOrClear, RunsScript, Activates, Clears
      <4> QED
        BY <4>1 DEF PollerAhead, Loaded
    <3> QED
      BY <3>1, <3>2
  <2> QED
    BY <1>0, <2>1, <2>2, <2>5, <2>6, EventKept
<1>6. ListInv'
  <2>1. \A v \in Writers \ {w} : pc'[v] = pc[v]
    BY <1>0 DEF Types, ActivateOrClear, RunsScript, Activates, Clears
  <2>2. Active' => snap' >= 1
    <3>1. CASE versions' = Drop(w) /\ snap' = snap
      BY <1>0, <2>1, <3>1, VersionDropped DEF IInv, ListInv
    <3>2. CASE snap' = loaded[w].rev
      BY <3>2 DEF IInv, ListInv, Loaded, ActivateOrClear, RunsScript, Activates, Clears
    <3>3. CASE versions' = Without(Drop("active"), w)
      BY <1>0, <2>1, <3>3, VersionCleared
    <3> QED
      BY <3>1, <3>2, <3>3 DEF ActivateOrClear, RunsScript, Activates, Clears
  <2>3. /\ db' = db /\ pc'[w] \notin Loaded
        /\ \A v \in Writers \ {w} : pc'[v] = pc[v] /\ loaded'[v] = loaded[v]
    BY <1>0 DEF Types, Loaded, AfterRebuild, ActivateOrClear, RunsScript, Activates, Clears
  <2> QED
    BY <2>2, <2>3 DEF IInv, ListInv
<1> QED
  BY <1>1, <1>2, <1>3, <1>4, <1>5, <1>6, TypeParts DEF IInv

\* What dies with a process is undone, to be done again, or counts as missed.
LEMMA CrashKeeps ==
  ASSUME IInv, NEW a \in Actors, Crash(a)
  PROVE  IInv'
<1>0. Types /\ VersionInv
  BY TypeParts DEF IInv
<1>1. Types'
  <2>1. pc' \in [Actors -> Pcs]
    BY <1>0 DEF Types, Pcs, Crash
  <2>2. loaded' \in [Actors -> Contents]
    BY <1>0, NothingTyped DEF Types, Crash
  <2>3. faults' \in 0..MaxFaults /\ missed' \in Revisions
    BY <1>0 DEF Types, Contents, Crash
  <2>4. /\ outbox' \in Seq(Rows) /\ DOMAIN outbox' = DOMAIN outbox
        /\ Len(outbox) \in Nat /\ Len(outbox') = Len(outbox)
    BY <1>0 DEF Types, Rows, Crash
  <2>5. batch' \in [Billers \cup Pollers -> SUBSET DOMAIN outbox]
    BY <1>0 DEF Types, Crash
  <2>6. rebuilt' \in [Pollers -> BOOLEAN]
    BY <1>0 DEF Types, Crash
  <2> QED
    BY <1>0, <2>1, <2>2, <2>3, <2>4, <2>5, <2>6 DEF Types, Crash
<1>2. VersionInv'
  <2>1. versions' = Drop(a) /\ \A v \in Writers \ {a} : pc'[v] = pc[v]
    BY <1>0 DEF Types, Crash
  <2> QED
    BY <1>0, <2>1, VersionDropped
<1>3. PlaceInv'
  BY <1>0 DEF IInv, PlaceInv, Types, Locked, Crash
<1>4. RowInv'
  <2>1. /\ watermark' = watermark /\ DOMAIN outbox' = DOMAIN outbox /\ DOMAIN batch' = Billers \cup Pollers
        /\ \A c \in Billers \cup Pollers : batch'[c] = IF c = a THEN {} ELSE batch[c]
        /\ \A c \in Billers \cup Pollers : batch[c] \subseteq DOMAIN outbox
    BY <1>0 DEF Types, Crash
  <2>2. \A i \in DOMAIN outbox : \/ outbox'[i] = outbox[i]
                                 \/ a \in Billers /\ i \in batch[a] /\ outbox[i] = "open"
    <3>1. pc[a] = "commit" => a \in Billers
      BY DEF IInv, PlaceInv, Locked
    <3>2. \A i \in DOMAIN outbox : outbox'[i] = IF pc[a] = "commit" /\ i \in batch[a] THEN "void" ELSE outbox[i]
      BY DEF Crash
    <3>3. \A b \in Billers : \A i \in batch[b] : outbox[i] = "open"
      BY DEF IInv, RowInv
    <3> QED
      BY <3>1, <3>2, <3>3
  <2>3. watermark # 0 => watermark \in DOMAIN outbox
    BY <1>0 DEF Types
  <2>4. \A i \in DOMAIN outbox : Visible(i) => Visible(i)'
    BY <2>2 DEF Visible
  <2>5. watermark' # 0 => Visible(watermark)'
    BY <2>1, <2>3, <2>2 DEF IInv, RowInv, Visible
  <2>6. \A p \in Pollers : \A i \in batch'[p] : Visible(i)'
    BY <2>1, <2>4 DEF IInv, RowInv
  <2>7. /\ \A b \in Billers : \A i \in batch'[b] : outbox'[i] = "open"
        /\ \A b, c \in Billers : batch'[b] \cap batch'[c] # {} => b = c
    BY <2>1, <2>2 DEF IInv, RowInv
  <2> QED
    BY <2>5, <2>6, <2>7 DEF RowInv
<1>5. EventInv'
  <2>1. /\ UNCHANGED <<db, watermark>> /\ (Covered => Covered') /\ (Enqueuing => Covered' \/ Enqueuing')
    BY <1>0 DEF Types, Contents, Revisions, Covered, Enqueuing, Crash
  <2>2. \A o \in Pollers \ {a} : /\ pc'[o] = pc[o] /\ batch'[o] = batch[o]
                                /\ loaded'[o] = loaded[o] /\ (rebuilt'[o] <=> rebuilt[o])
    BY <1>0 DEF Types, Crash
  <2>3. \A j \in DOMAIN outbox : Visible(j) => j \in DOMAIN outbox' /\ Visible(j)'
    BY <1>0 DEF Types, IInv, PlaceInv, RowInv, Locked, Visible, Crash
  <2>4. ASSUME a \in Pollers PROVE PollerAhead(a)'
    <3>1. pc'[a] = "idle"
      BY <1>0 DEF Types, Crash
    <3> QED
      BY <3>1 DEF PollerAhead, Loaded
  <2> QED
    BY <1>0, <2>1, <2>2, <2>3, <2>4, AheadGrows, EventKept
<1>6. ListInv'
  <2>1. versions' = Drop(a) /\ UNCHANGED <<db, snap>>
        /\ \A v \in Writers \ {a} : pc'[v] = pc[v] /\ loaded'[v] = loaded[v]
    BY <1>0 DEF Types, Crash
  <2>2. pc'[a] = "idle"
    BY <1>0 DEF Types, Crash
  <2>3. Active' => Active
    BY <1>0, <2>1, VersionDropped
  <2> QED
    BY <2>1, <2>2, <2>3 DEF IInv, ListInv, Loaded
<1> QED
  BY <1>1, <1>2, <1>3, <1>4, <1>5, <1>6, TypeParts DEF IInv

-----------------------------------------------------------------------------
\* A step that changes nothing.
LEMMA StutterKeeps ==
  ASSUME IInv, UNCHANGED vars
  PROVE  IInv'
<1>1. /\ UNCHANGED <<db, outbox, watermark, lock, versions, snap, meta>>
      /\ UNCHANGED <<pc, loaded, batch, rebuilt, faults, newest, missed>>
  BY DEF vars
<1>2. TypeOK' /\ PlaceInv' /\ RowInv'
  BY <1>1 DEF IInv, TypeOK, PlaceInv, RowInv, Visible
<1>3. EventInv'
  BY <1>1 DEF IInv, EventInv, PollerAhead, Ahead, Covered, Enqueuing, Beyond, Visible
<1>4. ListInv'
  BY <1>1 DEF IInv, ListInv, Active
<1> QED
  BY <1>2, <1>3, <1>4 DEF IInv

\* Every step keeps the invariant.
LEMMA NextKeeps == IInv /\ [Next]_vars => IInv'
<1> SUFFICES ASSUME IInv, [Next]_vars PROVE IInv'
  OBVIOUS
<1>1. ASSUME NEW e \in Editors, Change(e) \/ EditorStep(e) PROVE IInv'
  BY <1>1, ChangeKeeps, EnqueueSchedulerOutboxKeeps, SyncReadKeeps, SyncWriteKeeps DEF EditorStep
<1>2. ASSUME NEW b \in Billers, BeginTransaction(b) \/ EndTransaction(b) PROVE IInv'
  BY <1>2, BeginTransactionKeeps, CommitTransactionKeeps, RollbackTransactionKeeps DEF EndTransaction
<1>3. ASSUME NEW p \in Pollers, pollOutbox(p) \/ PollerStep(p) PROVE IInv'
  BY <1>3, PollOutboxKeeps, HandleAccountEventKeeps, RebuildByAccountKeeps, SetOutboxWatermarkKeeps DEF PollerStep
<1>4. ASSUME NEW r \in Rebuilders, triggerFullRebuild(r) PROVE IInv'
  BY <1>4, TriggerFullRebuildKeeps
<1>5. ASSUME NEW q \in Requests, ListSchedulableAccounts(q) PROVE IInv'
  BY <1>5, ListSchedulableAccountsKeeps
<1>6. ASSUME NEW w \in Writers, WriterStep(w) PROVE IInv'
  BY <1>6, TryLockBucketKeeps, LoadAccountsFromDBKeeps, TakeVersionKeeps, WriteAccountsKeeps,
     ActivateOrClearKeeps, RebuildFailsKeeps DEF WriterStep
<1>7. ASSUME NEW i \in DOMAIN outbox, WindowEnds(i) PROVE IInv'
  BY <1>7, WindowEndsKeeps
<1>8. CASE LockExpires
  BY <1>8, LockExpiresKeeps
<1>9. ASSUME NEW a \in Actors, Crash(a) PROVE IInv'
  BY <1>9, CrashKeeps
<1>10. CASE UNCHANGED vars
  BY <1>10, StutterKeeps
<1> QED
  BY <1>1, <1>2, <1>3, <1>4, <1>5, <1>6, <1>7, <1>8, <1>9, <1>10 DEF Next

\* The inductive invariant holds in every reachable state, for any number of
\* editors, charges, pollers, rebuilders and requests.
THEOREM Invariance == Spec => []IInv
<1>1. Init => IInv
  BY InitHolds
<1>2. IInv /\ [Next]_vars => IInv'
  BY NextKeeps
<1> QED
  BY <1>1, <1>2, PTL DEF Spec

\* Nobody holds two versions of the list, one version at most is active, and
\* all state keeps its type.
THEOREM TypeCorrect == Spec => []TypeOK
<1>1. IInv => TypeOK
  BY DEF IInv
<1> QED
  BY <1>1, Invariance, PTL

\* The invariant explains every stale list: where the newest change is covered,
\* the list has it or is older than a replaced list or a miss; otherwise an
\* event is beyond the watermark or about to be enqueued.
LEMMA Explained == IInv => StaleIsExplained
<1> SUFFICES ASSUME IInv, Active, snap < db.rev
             PROVE  \/ Pending # {} \/ \E e \in Editors : pc[e] = "enqueue"
                    \/ snap < missed \/ snap < newest
  BY DEF StaleIsExplained
<1>1. /\ db.rev \in Nat /\ snap \in Nat /\ newest \in Nat /\ missed \in Nat
      /\ snap >= 1 /\ Ahead({watermark})
  BY DEF IInv, TypeOK, Contents, Revisions, ListInv, EventInv
<1>2. CASE Covered
  BY <1>1, <1>2 DEF Covered
<1>3. CASE Enqueuing
  BY <1>3 DEF Enqueuing
<1>4. CASE Beyond({watermark})
  BY <1>4 DEF Beyond, Pending
<1> QED
  BY <1>1, <1>2, <1>3, <1>4 DEF Ahead

\* No event is lost: a failing or dying poller, pollers that share the
\* watermark, transactions that commit out of order and an older version that
\* comes late never leave a list stale for a reason other than those that
\* StaleIsExplained names (a missed event, a bucket that was locked or that the
\* account had left, a newer version with older data, a cleared list).
THEOREM NoEventIsLost == Spec => []StaleIsExplained
<1>1. IInv => StaleIsExplained
  BY Explained
<1> QED
  BY <1>1, Invariance, PTL

=============================================================================
