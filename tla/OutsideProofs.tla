---------------------------- MODULE OutsideProofs ----------------------------
(***************************************************************************)
(* What is proved about what kasi keeps beside its log: the content store, *)
(* the mailboxes it polls, the credential Codex runs on and the cassettes  *)
(* of its tests.                                                           *)
(***************************************************************************)
EXTENDS ContentStore, Mailbox, Codex, Cassettes, SequenceLemmas

(***************************************************************************)
(* The content store.                                                      *)
(***************************************************************************)
TableNames == {"mail", "archive"}
Keys == MailKeys \cup FileKeys \cup {Unnamed}
RowType == [id : Nat, key : Keys, data : Bytes]
Tables == [mail : SUBSET RowType, archive : SUBSET RowType, blobs : SUBSET Bytes,
           next : [mail : Nat, archive : Nat]]
CallType == [pc : {"idle", "select", "insert"}, table : TableNames, key : Keys,
             data : Bytes \cup {NoCall.data}]
Ids == {<<>>} \cup {<<i>> : i \in Nat}
ReplyType == [lite : Ids, mem : Ids, key : Keys, table : TableNames]

\* A call under way has something to store, and of a file the bytes are there already.
InCall(k, l) ==
  k.pc # "idle" => /\ k.data \in Bytes
                   /\ k.table = "archive" => k.key \in FileKeys /\ k.data \in l.blobs

StoreTypes ==
  /\ schema \in {0, 1}
  /\ lite \in Tables /\ mem \in Tables
  /\ call \in [Callers -> CallType] /\ reply \in [Callers -> ReplyType]
  /\ \A c \in Callers : InCall(call[c], lite)

\* Rows numbered from 1, of which n is the last.
Counted(rows, n) ==
  /\ n \in Nat /\ \A r \in rows : r.id \in 1..n
  /\ n # 0 => \E r \in rows : r.id = n

\* While the identifiers are 1 to n, the next one is n + 1.
LEMMA NextIdFacts ==
  ASSUME NEW rows, NEW n, Counted(rows, n)
  PROVE  /\ NextId(rows) = n + 1
         /\ \A r : r.id = n + 1 => Counted(rows \cup {r}, n + 1)
<1>1. ASSUME rows # {} PROVE NextId(rows) = n + 1
  <2>1. PICK i : i = CHOOSE j \in {r.id : r \in rows} : \A r \in rows : r.id <= j
    OBVIOUS
  <2>2. n # 0
    BY <1>1 DEF Counted
  <2>3. \E j \in {r.id : r \in rows} : \A r \in rows : r.id <= j
    BY <2>2 DEF Counted
  <2>4. i \in {r.id : r \in rows} /\ \A r \in rows : r.id <= i
    BY <2>1, <2>3
  <2>5. i = n
    BY <2>2, <2>4 DEF Counted
  <2>6. QED
    BY <1>1, <2>1, <2>5 DEF NextId, Counted
<1>2. ASSUME rows = {} PROVE NextId(rows) = n + 1
  BY <1>2 DEF NextId, Counted
<1>3. ASSUME NEW r, r.id = n + 1 PROVE Counted(rows \cup {r}, n + 1)
  BY <1>3 DEF Counted
<1>4. QED
  BY <1>1, <1>2, <1>3

\* The two stores: the same archive with the bytes of every row, one row per key,
\* and of every mail with a Message-ID the same content.
OneEach(rows) == \A r, s \in rows : r.key = s.key => r = s
NamedIn(rows) == {r \in rows : r.key # Unnamed}
Contents(rows) == {<<r.key, r.data>> : r \in NamedIn(rows)}
Twins(l, m) ==
  /\ m.archive = l.archive /\ Counted(l.archive, m.next.archive)
  /\ \A r \in l.archive : r.data \in l.blobs /\ r.data \in m.blobs
  /\ OneEach(l.archive) /\ OneEach(NamedIn(l.mail))
  /\ Contents(m.mail) = Contents(l.mail)
  /\ \E n : Counted(l.mail, n)

\* Who was answered with an id got the row of its key, from either store.
Answered(a, l, m) ==
  a.lite # <<>> /\ a.key # Unnamed =>
    /\ \E r \in Keyed(l[a.table], a.key) : <<r.id>> = a.lite
    /\ \E r \in Keyed(m[a.table], a.key) : <<r.id>> = a.mem

\* The rows that version 0 left.
OldRows == {{}} \cup {{Row(1, f, b), Row(2, g, c)} : f, g \in FileKeys, b, c \in Bytes}

Stored ==
  /\ StoreTypes
  /\ schema = 0 => /\ lite = Empty /\ mem = Empty /\ old \in OldRows
                   /\ \A c \in Callers : call[c].pc = "idle" /\ reply[c].lite = <<>>
  /\ Twins(lite, mem)
  /\ \A c \in Callers : Answered(reply[c], lite, mem)
  /\ schema = 1 => Earliest(old) \subseteq lite.archive

\* No table loses a row, and no bytes are lost.
Keeps(t, u) == t.mail \subseteq u.mail /\ t.archive \subseteq u.archive /\ t.blobs \subseteq u.blobs

\* An answer stays true while the tables keep their rows.
LEMMA AnsweredStays ==
  ASSUME NEW a \in ReplyType, NEW l \in Tables, NEW m \in Tables, NEW k \in Tables, NEW n \in Tables,
         Answered(a, l, m), Keeps(l, k), Keeps(m, n)
  PROVE  Answered(a, k, n)
<1>1. a.table \in TableNames
  BY DEF ReplyType
<1>2. l[a.table] \subseteq k[a.table] /\ m[a.table] \subseteq n[a.table]
  BY <1>1 DEF TableNames, Keeps, Tables
<1>3. QED
  BY <1>2 DEF Answered, Keyed

\* What the in-memory twin makes of a call.
Twin(c, t, id) ==
  LET k == call[c] IN
  /\ t \in Tables /\ id \in Nat /\ Keeps(mem, t)
  /\ k.table = "archive" => k.data \in t.blobs /\ t.mail = mem.mail
  /\ k.table = "mail" => t.archive = mem.archive /\ t.next.archive = mem.next.archive
  /\ Existing(mem, c) # {} => /\ t.mail = mem.mail /\ t.archive = mem.archive
                              /\ t.next = mem.next
                              /\ \E r \in Existing(mem, c) : r.id = id
  /\ Existing(mem, c) = {} => /\ t[k.table] = mem[k.table] \cup {Row(id, k.key, k.data)}
                              /\ id = mem.next[k.table] + 1 /\ t.next[k.table] = id

\* Adding a memory gives the same row, under the same number, in both stores.
LEMMA MemoryAddFacts ==
  ASSUME Stored, NEW c \in Callers, call[c].pc # "idle"
  PROVE  Twin(c, MemoryAdd(c).tables, MemoryAdd(c).id)
<1>1. PICK k : k = call[c]
  OBVIOUS
<1>2. k \in CallType /\ k.table \in TableNames /\ k.data \in Bytes /\ mem \in Tables
  BY <1>1 DEF Stored, StoreTypes, InCall, CallType
<1>3. PICK id : id = mem.next[k.table] + 1
  OBVIOUS
<1>4. id \in Nat
  BY <1>2, <1>3 DEF Tables, TableNames
<1>5. PICK blobs : blobs = IF k.table = "archive" THEN mem.blobs \cup {k.data} ELSE mem.blobs
  OBVIOUS
<1>6. blobs \in SUBSET Bytes /\ mem.blobs \subseteq blobs /\ (k.table = "archive" => k.data \in blobs)
  BY <1>2, <1>5 DEF Tables
<1>7. CASE Existing(mem, c) # {}
  <2>1. PICK t : t = [mem EXCEPT !.blobs = blobs]
    OBVIOUS
  <2>2. PICK i : i = (CHOOSE r \in Existing(mem, c) : TRUE).id
    OBVIOUS
  <2>3. MemoryAdd(c) = [tables |-> t, id |-> i]
    BY <1>1, <1>5, <1>7, <2>1, <2>2 DEF MemoryAdd
  <2>4. /\ t.mail = mem.mail /\ t.archive = mem.archive /\ t.next = mem.next /\ t.blobs = blobs
        /\ t \in Tables
    BY <1>2, <1>6, <2>1 DEF Tables
  <2>5. \E r \in Existing(mem, c) : r.id = i
    BY <1>7, <2>2
  <2>6. i \in Nat
    <3>1. Existing(mem, c) \subseteq RowType
      BY <1>1, <1>2 DEF Existing, Keyed, Tables, TableNames
    <3>2. QED
      BY <2>5, <3>1 DEF RowType
  <2>7. QED
    BY <1>1, <1>6, <1>7, <2>3, <2>4, <2>5, <2>6 DEF Twin, Keeps
<1>8. CASE Existing(mem, c) = {}
  <2>1. PICK row : row = Row(id, k.key, k.data)
    OBVIOUS
  <2>2. row \in RowType
    BY <1>2, <1>4, <2>1 DEF RowType, Row, CallType
  <2>3. PICK t : t = [mem EXCEPT ![k.table] = @ \cup {row}, !.next[k.table] = id, !.blobs = blobs]
    OBVIOUS
  <2>4. MemoryAdd(c) = [tables |-> t, id |-> id]
    BY <1>1, <1>3, <1>5, <1>8, <2>1, <2>3 DEF MemoryAdd
  <2>5. CASE k.table = "mail"
    <3>1. t = [mail |-> mem.mail \cup {row}, archive |-> mem.archive, blobs |-> blobs,
               next |-> [mail |-> id, archive |-> mem.next.archive]]
      BY <1>2, <2>3, <2>5 DEF Tables
    <3>2. t \in Tables
      BY <1>2, <1>4, <1>6, <2>2, <3>1 DEF Tables
    <3>3. QED
      BY <1>1, <1>3, <1>4, <1>6, <1>8, <2>1, <2>4, <2>5, <3>1, <3>2 DEF Twin, Keeps
  <2>6. CASE k.table = "archive"
    <3>1. t = [mail |-> mem.mail, archive |-> mem.archive \cup {row}, blobs |-> blobs,
               next |-> [mail |-> mem.next.mail, archive |-> id]]
      BY <1>2, <2>3, <2>6 DEF Tables
    <3>2. t \in Tables
      BY <1>2, <1>4, <1>6, <2>2, <3>1 DEF Tables
    <3>3. QED
      BY <1>1, <1>3, <1>4, <1>6, <1>8, <2>1, <2>4, <2>6, <3>1, <3>2 DEF Twin, Keeps
  <2>7. QED
    BY <1>2, <2>5, <2>6 DEF TableNames
<1>9. QED
  BY <1>7, <1>8

\* The rows of a key are in both stores or in neither, unless the key is empty.
LEMMA SameKeys ==
  ASSUME Stored, NEW c \in Callers, call[c].pc # "idle"
  PROVE  /\ call[c].key # Unnamed =>
              (Keyed(lite[call[c].table], call[c].key) # {} <=> Existing(mem, c) # {})
         /\ call[c].key = Unnamed => Existing(mem, c) = {} /\ call[c].table = "mail"
<1>1. PICK k : k = call[c]
  OBVIOUS
<1>2. k \in CallType /\ k.table \in TableNames /\ (k.table = "archive" => k.key \in FileKeys)
  BY <1>1 DEF Stored, StoreTypes, InCall, CallType
<1>3. k.key = Unnamed => Existing(mem, c) = {} /\ k.table = "mail"
  BY <1>1, <1>2, ContentAssumption DEF Existing, TableNames
<1>4. ASSUME k.key # Unnamed PROVE Keyed(lite[k.table], k.key) # {} <=> Keyed(mem[k.table], k.key) # {}
  <2>1. CASE k.table = "archive"
    BY <2>1 DEF Stored, Twins
  <2>2. CASE k.table = "mail"
    <3>1. Contents(mem.mail) = Contents(lite.mail)
      BY DEF Stored, Twins
    <3>2. ASSUME NEW rows PROVE Keyed(rows, k.key) # {} <=> \E b : <<k.key, b>> \in Contents(rows)
      <4>1. ASSUME NEW r \in Keyed(rows, k.key) PROVE <<k.key, r.data>> \in Contents(rows)
        BY <1>4 DEF Keyed, Contents, NamedIn
      <4>2. ASSUME NEW b, <<k.key, b>> \in Contents(rows) PROVE Keyed(rows, k.key) # {}
        <5>1. PICK r \in rows : <<k.key, b>> = <<r.key, r.data>>
          BY <4>2 DEF Contents, NamedIn
        <5>2. QED
          BY <5>1 DEF Keyed
      <4>3. QED
        BY <4>1, <4>2
    <3>3. QED
      BY <2>2, <3>1, <3>2
  <2>3. QED
    BY <1>2, <2>1, <2>2 DEF TableNames
<1>5. k.key # Unnamed => Existing(mem, c) = Keyed(mem[k.table], k.key)
  BY <1>1 DEF Existing
<1>6. QED
  BY <1>1, <1>3, <1>4, <1>5

\* A call returns: the twin has done the whole of it, and the answer is right.
LEMMA ReturnKeeps ==
  ASSUME Stored, NEW c \in Callers, call[c].pc # "idle", NEW id \in Ids, Return(c, id),
         lite' \in Tables, Keeps(lite, lite'), Twins(lite', mem'),
         schema' = schema, old' = old,
         id # <<>> /\ call[c].key # Unnamed =>
           /\ \E r \in Keyed(lite'[call[c].table], call[c].key) : <<r.id>> = id
           /\ \E r \in Keyed(mem'[call[c].table], call[c].key) : r.id = MemoryAdd(c).id
  PROVE  Stored'
<1>1. PICK t, i : t = MemoryAdd(c).tables /\ i = MemoryAdd(c).id
  OBVIOUS
<1>2. Twin(c, t, i)
  BY <1>1, MemoryAddFacts
<1>3. PICK l : l = lite'
  OBVIOUS
<1>4. PICK k : k = call[c]
  OBVIOUS
<1>5. k \in CallType
  BY <1>4 DEF Stored, StoreTypes
<1>6. PICK a : a = [lite |-> id, mem |-> <<i>>, key |-> k.key, table |-> k.table]
  OBVIOUS
<1>7. /\ mem' = t /\ reply' = [reply EXCEPT ![c] = a] /\ call' = [call EXCEPT ![c] = NoCall]
      /\ t \in Tables /\ Keeps(mem, t) /\ i \in Nat /\ l \in Tables /\ Keeps(lite, l)
  BY <1>1, <1>2, <1>3, <1>4, <1>6 DEF Return, Twin
<1>8. a \in ReplyType
  BY <1>5, <1>6, <1>7 DEF ReplyType, CallType, Ids
<1>9. NoCall \in CallType /\ NoCall.pc = "idle"
  BY DEF NoCall, CallType, TableNames, Keys
<1>10. schema = 1
  BY DEF Stored, StoreTypes
<1>11. Answered(a, l, t)
  BY <1>1, <1>3, <1>4, <1>6, <1>7 DEF Answered
<1>12. ASSUME NEW d \in Callers PROVE Answered(reply'[d], l, t) /\ InCall(call'[d], l)
  <2>1. CASE d = c
    BY <1>7, <1>9, <1>11, <2>1 DEF Stored, StoreTypes, InCall
  <2>2. CASE d # c
    <3>1. reply'[d] = reply[d] /\ call'[d] = call[d] /\ reply[d] \in ReplyType
      BY <1>7, <2>2 DEF Stored, StoreTypes
    <3>2. Answered(reply[d], lite, mem) /\ InCall(call[d], lite) /\ lite \in Tables /\ mem \in Tables
      BY DEF Stored, StoreTypes
    <3>3. Answered(reply[d], l, t)
      BY <1>7, <3>1, <3>2, AnsweredStays
    <3>4. InCall(call[d], l)
      BY <1>7, <3>2 DEF InCall, Keeps
    <3>5. QED
      BY <3>1, <3>3, <3>4
  <2>3. QED
    BY <2>1, <2>2
<1>13. StoreTypes'
  BY <1>3, <1>7, <1>8, <1>9, <1>12 DEF Stored, StoreTypes
<1>14. \A d \in Callers : Answered(reply'[d], lite', mem')
  BY <1>3, <1>7, <1>12
<1>15. Earliest(old') \subseteq lite'.archive
  BY <1>3, <1>7, <1>10 DEF Stored, Keeps
<1>16. QED
  BY <1>10, <1>13, <1>14, <1>15 DEF Stored

\* A call that finds a row, or fails to insert one, changes nothing in SQLite, and in
\* the twin nothing but mails without a Message-ID.
LEMMA FoundKeeps ==
  ASSUME Stored, NEW c \in Callers, call[c].pc # "idle", NEW id \in Ids, Return(c, id),
         UNCHANGED <<schema, old, lite>>, Keyed(lite[call[c].table], call[c].key) # {},
         id # <<>> /\ call[c].key # Unnamed =>
           \E r \in Keyed(lite[call[c].table], call[c].key) : <<r.id>> = id
  PROVE  Stored'
<1>1. PICK t, i : t = MemoryAdd(c).tables /\ i = MemoryAdd(c).id
  OBVIOUS
<1>2. Twin(c, t, i) /\ mem' = t
  BY <1>1, MemoryAddFacts DEF Return
<1>3. PICK k : k = call[c]
  OBVIOUS
<1>4. k \in CallType /\ k.table \in TableNames
  BY <1>3 DEF Stored, StoreTypes, CallType
<1>5. Twins(lite, mem)
  BY DEF Stored
<1>6. CASE k.key # Unnamed
  <2>1. Existing(mem, c) # {}
    BY <1>3, <1>6, SameKeys
  <2>2. /\ t.mail = mem.mail /\ t.archive = mem.archive /\ t.next = mem.next /\ mem.blobs \subseteq t.blobs
        /\ \E r \in Keyed(mem[k.table], k.key) : r.id = i
    BY <1>2, <1>3, <1>6, <2>1 DEF Twin, Keeps, Existing
  <2>3. \E r \in Keyed(t[k.table], k.key) : r.id = i
    <3>1. mem \in Tables /\ t \in Tables
      BY <1>2 DEF Stored, StoreTypes, Twin
    <3>2. t[k.table] = mem[k.table]
      BY <1>4, <2>2, <3>1 DEF TableNames, Tables
    <3>3. QED
      BY <2>2, <3>2
  <2>4. Twins(lite, t)
    BY <1>5, <2>2 DEF Twins
  <2>5. lite \in Tables /\ Keeps(lite, lite)
    BY DEF Stored, StoreTypes, Keeps
  <2>6. QED
    BY <1>1, <1>2, <1>3, <2>3, <2>4, <2>5, ReturnKeeps
<1>7. CASE k.key = Unnamed
  <2>1. Existing(mem, c) = {} /\ k.table = "mail"
    BY <1>3, <1>7, SameKeys
  <2>2. /\ t.mail = mem.mail \cup {Row(i, k.key, k.data)} /\ t.archive = mem.archive
        /\ t.next.archive = mem.next.archive /\ mem.blobs \subseteq t.blobs
    <3>1. t["mail"] = mem["mail"] \cup {Row(i, k.key, k.data)}
      BY <1>2, <1>3, <2>1 DEF Twin
    <3>2. QED
      BY <1>2, <1>3, <2>1, <3>1 DEF Twin, Keeps
  <2>3. NamedIn(t.mail) = NamedIn(mem.mail)
    BY <1>7, <2>2 DEF NamedIn, Row
  <2>4. Twins(lite, t)
    BY <1>5, <2>2, <2>3 DEF Twins, Contents
  <2>5. lite \in Tables /\ Keeps(lite, lite)
    BY DEF Stored, StoreTypes, Keeps
  <2>6. QED
    BY <1>1, <1>2, <1>3, <1>7, <2>4, <2>5, ReturnKeeps
<1>8. QED
  BY <1>6, <1>7

\* A row is inserted: the key had none, and the twin inserts the same.
LEMMA InsertKeeps ==
  ASSUME Stored, NEW c \in Callers, Insert(c)
  PROVE  Stored'
<1>1. PICK k : k = call[c]
  OBVIOUS
<1>2. PICK id, row : id = NextId(lite[k.table]) /\ row = Row(id, k.key, k.data)
  OBVIOUS
<1>3. /\ k \in CallType /\ k.table \in TableNames /\ k.pc # "idle" /\ k.data \in Bytes
      /\ k.table = "archive" => k.key \in FileKeys /\ k.data \in lite.blobs
  BY <1>1 DEF Stored, StoreTypes, CallType, Insert, InCall
<1>4. CASE Keyed(lite[k.table], k.key) # {}
  <2>1. Return(c, <<>>) /\ UNCHANGED <<schema, old, lite>>
    BY <1>1, <1>4 DEF Insert
  <2>2. <<>> \in Ids
    BY DEF Ids
  <2>3. QED
    BY <1>1, <1>3, <1>4, <2>1, <2>2, FoundKeeps
<1>5. CASE Keyed(lite[k.table], k.key) = {}
  <2>1. /\ lite' = [lite EXCEPT ![k.table] = @ \cup {row}] /\ Return(c, <<id>>)
        /\ schema' = schema /\ old' = old
    BY <1>1, <1>2, <1>5 DEF Insert
  <2>2. PICK t, i : t = MemoryAdd(c).tables /\ i = MemoryAdd(c).id
    OBVIOUS
  <2>3. Twin(c, t, i) /\ mem' = t
    BY <1>1, <1>3, <2>1, <2>2, MemoryAddFacts DEF Return
  <2>4. Twins(lite, mem) /\ lite \in Tables /\ mem \in Tables
    BY DEF Stored, StoreTypes
  <2>5. PICK l : l = lite'
    OBVIOUS
  <2>6. Existing(mem, c) = {}
    BY <1>1, <1>3, <1>5, SameKeys
  <2>7. /\ t[k.table] = mem[k.table] \cup {Row(i, k.key, k.data)} /\ i = mem.next[k.table] + 1
        /\ t.next[k.table] = i /\ i \in Nat
    BY <1>1, <2>3, <2>6 DEF Twin
  <2>8. PICK n : Counted(lite.mail, n)
    BY <2>4 DEF Twins
  <2>9. CASE k.table = "archive"
    <3>1. id = mem.next.archive + 1 /\ Counted(lite.archive \cup {row}, mem.next.archive + 1)
      <4>1. Counted(lite.archive, mem.next.archive)
        BY <2>4 DEF Twins
      <4>2. NextId(lite.archive) = mem.next.archive + 1
        BY <4>1, NextIdFacts
      <4>3. row.id = id
        BY <1>2 DEF Row
      <4>4. QED
        BY <1>2, <2>9, <4>1, <4>2, <4>3, NextIdFacts
    <3>2. i = id
      BY <2>7, <2>9, <3>1
    <3>3. /\ l = [mail |-> lite.mail, archive |-> lite.archive \cup {row}, blobs |-> lite.blobs,
                  next |-> lite.next]
      BY <2>1, <2>4, <2>5, <2>9 DEF Tables
    <3>4. /\ t.archive = mem.archive \cup {row} /\ t.next.archive = mem.next.archive + 1
          /\ t.mail = mem.mail /\ k.data \in t.blobs /\ mem.blobs \subseteq t.blobs
      BY <1>1, <1>2, <2>3, <2>7, <2>9, <3>1, <3>2 DEF Twin, Keeps
    <3>5. row \in RowType /\ row.key = k.key /\ row.data = k.data /\ row.id = id
      <4>1. id \in Nat
        BY <2>7, <3>2
      <4>2. QED
        BY <1>2, <1>3, <4>1 DEF RowType, Row, CallType
    <3>6. l \in Tables /\ Keeps(lite, l)
      BY <2>4, <3>3, <3>5 DEF Tables, Keeps
    <3>7. OneEach(l.archive)
      BY <1>5, <2>4, <2>9, <3>3, <3>5 DEF Twins, OneEach, Keyed
    <3>8. \A r \in l.archive : r.data \in l.blobs /\ r.data \in t.blobs
      BY <1>3, <2>4, <2>9, <3>3, <3>4, <3>5 DEF Twins
    <3>9. Twins(l, t)
      BY <2>4, <3>1, <3>3, <3>4, <3>7, <3>8 DEF Twins
    <3>10. row \in Keyed(l.archive, k.key) /\ row \in Keyed(t.archive, k.key)
      BY <3>3, <3>4, <3>5 DEF Keyed
    <3>11. <<id>> \in Ids
      BY <3>5 DEF Ids, RowType
    <3>12. QED
      BY <1>1, <1>3, <2>1, <2>2, <2>3, <2>5, <2>9, <3>2, <3>5, <3>6, <3>9, <3>10, <3>11, ReturnKeeps
  <2>10. CASE k.table = "mail"
    <3>1. id = n + 1 /\ Counted(lite.mail \cup {row}, n + 1)
      <4>1. NextId(lite.mail) = n + 1
        BY <2>8, NextIdFacts
      <4>2. row.id = id
        BY <1>2 DEF Row
      <4>3. QED
        BY <1>2, <2>8, <2>10, <4>1, <4>2, NextIdFacts
    <3>2. PICK copy : copy = Row(i, k.key, k.data)
      OBVIOUS
    <3>3. /\ l = [mail |-> lite.mail \cup {row}, archive |-> lite.archive, blobs |-> lite.blobs,
                  next |-> lite.next]
      BY <2>1, <2>4, <2>5, <2>10 DEF Tables
    <3>4. /\ t.mail = mem.mail \cup {copy} /\ t.archive = mem.archive
          /\ t.next.archive = mem.next.archive /\ mem.blobs \subseteq t.blobs
      BY <1>1, <2>3, <2>7, <2>10, <3>2 DEF Twin, Keeps
    <3>5. row \in RowType /\ row.key = k.key /\ row.data = k.data /\ row.id = id
      <4>1. id \in Nat
        BY <2>8, <3>1 DEF Counted
      <4>2. QED
        BY <1>2, <1>3, <4>1 DEF RowType, Row, CallType
    <3>6. copy.key = k.key /\ copy.data = k.data /\ copy.id = i
      BY <3>2 DEF Row
    <3>7. l \in Tables /\ Keeps(lite, l)
      BY <2>4, <3>3, <3>5 DEF Tables, Keeps
    <3>8. OneEach(NamedIn(l.mail))
      BY <1>5, <2>4, <2>10, <3>3, <3>5 DEF Twins, OneEach, Keyed, NamedIn
    <3>9. Contents(t.mail) = Contents(l.mail)
      <4>1. Contents(mem.mail) = Contents(lite.mail)
        BY <2>4 DEF Twins
      <4>2. ASSUME NEW rows, NEW r, r.key = k.key, r.data = k.data
            PROVE  Contents(rows \cup {r})
                     = Contents(rows) \cup (IF k.key = Unnamed THEN {} ELSE {<<k.key, k.data>>})
        <5>1. CASE k.key = Unnamed
          <6>1. NamedIn(rows \cup {r}) = NamedIn(rows)
            BY <4>2, <5>1 DEF NamedIn
          <6>2. QED
            BY <5>1, <6>1 DEF Contents
        <5>2. CASE k.key # Unnamed
          <6>1. NamedIn(rows \cup {r}) = NamedIn(rows) \cup {r}
            BY <4>2, <5>2 DEF NamedIn
          <6>2. QED
            BY <4>2, <5>2, <6>1 DEF Contents
        <5>3. QED
          BY <5>1, <5>2
      <4>3. PICK new : new = IF k.key = Unnamed THEN {} ELSE {<<k.key, k.data>>}
        OBVIOUS
      <4>4. Contents(mem.mail \cup {copy}) = Contents(mem.mail) \cup new
        BY <3>6, <4>2, <4>3
      <4>5. Contents(lite.mail \cup {row}) = Contents(lite.mail) \cup new
        BY <3>5, <4>2, <4>3
      <4>6. QED
        BY <3>3, <3>4, <4>1, <4>4, <4>5
    <3>10. Twins(l, t)
      BY <2>4, <3>1, <3>3, <3>4, <3>8, <3>9 DEF Twins
    <3>11. row \in Keyed(l.mail, k.key) /\ copy \in Keyed(t.mail, k.key)
      BY <3>3, <3>4, <3>5, <3>6 DEF Keyed
    <3>12. <<id>> \in Ids
      BY <3>5 DEF Ids, RowType
    <3>13. QED
      BY <1>1, <1>3, <2>1, <2>2, <2>3, <2>5, <2>10, <3>5, <3>6, <3>7, <3>10, <3>11, <3>12, ReturnKeeps
  <2>11. QED
    BY <1>3, <2>9, <2>10 DEF TableNames
<1>6. QED
  BY <1>4, <1>5

\* Of two rows for the same file the earliest stays, and the rows that stay are numbered.
LEMMA EarliestFacts ==
  ASSUME NEW rows \in OldRows
  PROVE  /\ rows \subseteq RowType /\ Earliest(rows) \subseteq rows /\ OneEach(Earliest(rows))
         /\ NextId(rows) - 1 \in Nat
         /\ Counted(Earliest(rows), NextId(Earliest(rows)) - 1)
<1>1. Earliest(rows) \subseteq rows
  BY DEF Earliest
<1>2. ASSUME NEW set, NEW n, Counted(set, n) PROVE NextId(set) - 1 = n /\ n \in Nat
  BY <1>2, NextIdFacts DEF Counted
<1>3. CASE rows = {}
  <2>1. Earliest(rows) = {} /\ Counted({}, 0)
    BY <1>3 DEF Earliest, Counted
  <2>2. QED
    BY <1>1, <1>2, <1>3, <2>1 DEF OneEach
<1>4. CASE rows # {}
  <2>1. PICK f \in FileKeys, g \in FileKeys, b \in Bytes, c \in Bytes :
          rows = {Row(1, f, b), Row(2, g, c)}
    BY <1>4 DEF OldRows
  <2>2. PICK r, s : r = Row(1, f, b) /\ s = Row(2, g, c)
    OBVIOUS
  <2>3. rows = {r, s} /\ r.id = 1 /\ s.id = 2 /\ r.key = f /\ s.key = g
    BY <2>1, <2>2 DEF Row
  <2>4. r \in RowType /\ s \in RowType
    BY <2>2 DEF Row, RowType, Keys
  <2>5. Counted(rows, 2) /\ Counted({r}, 1)
    BY <2>3 DEF Counted
  <2>6. Earliest(rows) = IF f = g THEN {r} ELSE {r, s}
    BY <2>3 DEF Earliest, Keyed
  <2>7. OneEach(Earliest(rows))
    BY <2>3, <2>6 DEF OneEach
  <2>8. Counted(Earliest(rows), NextId(Earliest(rows)) - 1)
    <3>1. Counted(Earliest(rows), 1) \/ Counted(Earliest(rows), 2)
      BY <2>3, <2>5, <2>6
    <3>2. QED
      BY <3>1, <1>2
  <2>9. NextId(rows) - 1 \in Nat
    BY <2>5, <1>2
  <2>10. QED
    BY <1>1, <2>3, <2>4, <2>7, <2>8, <2>9
<1>5. QED
  BY <1>3, <1>4

\* Nothing is stored before the database is opened.
LEMMA StoredInit == StoreInit => Stored
<1> SUFFICES ASSUME StoreInit PROVE Stored
  OBVIOUS
<1>1. NoCall \in CallType /\ NoCall.pc = "idle"
  BY DEF NoCall, CallType, TableNames, Keys
<1>2. Nothing \in ReplyType /\ Nothing.lite = <<>>
  BY DEF Nothing, ReplyType, Ids, Keys, TableNames
<1>3. Empty \in Tables
  BY DEF Empty, Tables
<1>4. \A c \in Callers : call[c] = NoCall /\ reply[c] = Nothing
  BY DEF StoreInit
<1>5. StoreTypes
  BY <1>1, <1>2, <1>3, <1>4 DEF StoreInit, StoreTypes, InCall
<1>6. Counted({}, 0)
  BY DEF Counted
<1>7. Twins(lite, mem)
  BY <1>6 DEF StoreInit, Twins, Empty, OneEach, NamedIn, Contents
<1>8. schema = 0 /\ old \in OldRows /\ lite = Empty /\ mem = Empty
  BY DEF StoreInit, OldRows
<1>9. QED
  BY <1>1, <1>2, <1>4, <1>5, <1>7, <1>8 DEF Stored, Answered

\* The migration gives both stores the earliest row of every file.
LEMMA MigrateKeeps ==
  ASSUME Stored, Migrate
  PROVE  Stored'
<1>1. PICK l, m, o, rows : l = lite' /\ m = mem' /\ o = old /\ rows = Earliest(old)
  OBVIOUS
<1>2. PICK n, p : n = NextId(rows) - 1 /\ p = NextId(o) - 1
  OBVIOUS
<1>3. /\ o \in OldRows /\ schema' = 1 /\ old' = o /\ call' = call /\ reply' = reply
      /\ \A c \in Callers : call[c].pc = "idle" /\ reply[c].lite = <<>>
  BY <1>1 DEF Stored, Migrate
<1>4. o \subseteq RowType /\ rows \subseteq o /\ OneEach(rows) /\ p \in Nat /\ Counted(rows, n)
  BY <1>1, <1>2, <1>3, EarliestFacts
<1>5. PICK blobs : blobs = {r.data : r \in o}
  OBVIOUS
<1>6. l = [mail |-> {}, archive |-> rows, blobs |-> blobs, next |-> [mail |-> 0, archive |-> p]]
  BY <1>1, <1>2, <1>5 DEF Migrate, Content, Empty
<1>7. m = [mail |-> {}, archive |-> rows, blobs |-> blobs, next |-> [mail |-> 0, archive |-> n]]
  BY <1>1, <1>2, <1>5 DEF Migrate, Content, Empty
<1>8. blobs \subseteq Bytes /\ \A r \in rows : r.data \in blobs
  BY <1>4, <1>5 DEF RowType
<1>9. n \in Nat
  BY <1>4 DEF Counted
<1>10. l \in Tables /\ m \in Tables
  BY <1>4, <1>6, <1>7, <1>8, <1>9 DEF Tables
<1>11. StoreTypes'
  <2>1. \A c \in Callers : InCall(call[c], l)
    BY <1>3 DEF InCall
  <2>2. QED
    BY <1>1, <1>3, <1>10, <2>1 DEF Stored, StoreTypes
<1>12. Twins(l, m)
  <2>1. Counted({}, 0)
    BY DEF Counted
  <2>2. QED
    BY <1>4, <1>6, <1>7, <1>8, <2>1 DEF Twins, OneEach, NamedIn, Contents
<1>13. \A c \in Callers : Answered(reply[c], l, m)
  BY <1>3 DEF Answered
<1>14. Earliest(old') \subseteq l.archive
  BY <1>1, <1>3, <1>6
<1>15. QED
  BY <1>1, <1>3, <1>11, <1>12, <1>13, <1>14 DEF Stored

\* A call begins; of a file the bytes are stored first.
LEMMA BeginKeeps ==
  ASSUME Stored, NEW c \in Callers, NEW b \in Bytes,
         \/ \E k \in MailKeys : AddMail(c, k, b)
         \/ \E k \in FileKeys : AddArchive(c, k, b)
  PROVE  Stored'
<1>1. PICK k \in Keys, table \in TableNames, pc \in {"select", "insert"} :
        /\ schema = 1 /\ UNCHANGED <<schema, old, mem, reply>>
        /\ call' = [call EXCEPT ![c] = [pc |-> pc, table |-> table, key |-> k, data |-> b]]
        /\ \/ table = "mail" /\ lite' = lite
           \/ table = "archive" /\ k \in FileKeys /\ lite' = [lite EXCEPT !.blobs = @ \cup {b}]
  <2>1. CASE \E k \in MailKeys : AddMail(c, k, b)
    BY <2>1 DEF AddMail, Begin, Keys, TableNames
  <2>2. CASE \E k \in FileKeys : AddArchive(c, k, b)
    BY <2>2 DEF AddArchive, Begin, Keys, TableNames
  <2>3. QED
    BY <2>1, <2>2
<1>2. PICK l : l = lite'
  OBVIOUS
<1>3. lite \in Tables /\ Twins(lite, mem) /\ mem \in Tables
  BY DEF Stored, StoreTypes
<1>4. /\ l \in Tables /\ Keeps(lite, l) /\ l.mail = lite.mail /\ l.archive = lite.archive
      /\ lite.blobs \subseteq l.blobs /\ (table = "archive" => k \in FileKeys /\ b \in l.blobs)
  <2>1. CASE table = "mail"
    BY <1>1, <1>2, <1>3, <2>1 DEF Keeps
  <2>2. CASE table = "archive"
    <3>1. l = [mail |-> lite.mail, archive |-> lite.archive, blobs |-> lite.blobs \cup {b},
               next |-> lite.next]
      BY <1>1, <1>2, <1>3, <2>2 DEF Tables
    <3>2. QED
      BY <1>1, <1>3, <2>2, <3>1 DEF Tables, Keeps
  <2>3. QED
    BY <2>1, <2>2 DEF TableNames
<1>5. Twins(l, mem)
  BY <1>3, <1>4 DEF Twins
<1>6. PICK new : new = [pc |-> pc, table |-> table, key |-> k, data |-> b]
  OBVIOUS
<1>7. new \in CallType /\ InCall(new, l)
  BY <1>4, <1>6 DEF CallType, InCall
<1>8. \A d \in Callers : call'[d] \in CallType /\ InCall(call'[d], l)
  BY <1>1, <1>4, <1>6, <1>7 DEF Stored, StoreTypes, InCall
<1>9. StoreTypes'
  BY <1>1, <1>2, <1>4, <1>6, <1>7, <1>8 DEF Stored, StoreTypes
<1>10. \A d \in Callers : Answered(reply[d], l, mem)
  BY <1>3, <1>4, AnsweredStays DEF Stored, StoreTypes, Keeps
<1>11. QED
  BY <1>1, <1>2, <1>4, <1>5, <1>9, <1>10 DEF Stored

\* A call that looks whether the key is there goes on or returns what it found.
LEMMA SelectKeeps ==
  ASSUME Stored, NEW c \in Callers, Select(c)
  PROVE  Stored'
<1>1. CASE \E r \in Existing(lite, c) : Return(c, <<r.id>>)
  <2>1. PICK r \in Existing(lite, c) : Return(c, <<r.id>>)
    BY <1>1
  <2>2. call[c].key # Unnamed /\ r \in Keyed(lite[call[c].table], call[c].key)
    BY <2>1 DEF Existing
  <2>3. <<r.id>> \in Ids
    <3>1. lite \in Tables /\ call[c].table \in TableNames
      BY DEF Stored, StoreTypes, CallType
    <3>2. r \in RowType
      BY <2>2, <3>1 DEF Tables, TableNames, Keyed
    <3>3. QED
      BY <3>2 DEF Ids, RowType
  <2>4. UNCHANGED <<schema, old, lite>> /\ call[c].pc # "idle"
    BY DEF Select
  <2>5. QED
    BY <2>1, <2>2, <2>3, <2>4, FoundKeeps
<1>2. CASE call' = [call EXCEPT ![c].pc = "insert"] /\ UNCHANGED <<mem, reply>>
  <2>1. UNCHANGED <<schema, old, lite, mem, reply>> /\ call[c].pc # "idle"
    BY <1>2 DEF Select
  <2>2. \A d \in Callers : /\ call'[d] \in CallType
                           /\ InCall(call'[d], lite) /\ (call[d].pc = "idle" => call'[d] = call[d])
    BY <1>2, <2>1 DEF Stored, StoreTypes, CallType, InCall
  <2>3. call' \in [Callers -> CallType]
    BY <1>2, <2>2 DEF Stored, StoreTypes
  <2>4. QED
    BY <2>1, <2>2, <2>3 DEF Stored, StoreTypes
<1>3. QED
  BY <1>1, <1>2 DEF Select

\* A call that is cut short leaves what it stored.
LEMMA CutKeeps ==
  ASSUME Stored, NEW c \in Callers, CallCut(c)
  PROVE  Stored'
<1>1. NoCall \in CallType /\ NoCall.pc = "idle"
  BY DEF NoCall, CallType, TableNames, Keys
<1>2. UNCHANGED <<schema, old, lite, mem, reply>> /\ call' = [call EXCEPT ![c] = NoCall]
  BY DEF CallCut
<1>3. \A d \in Callers : InCall(call'[d], lite) /\ (call[d].pc = "idle" => call'[d].pc = "idle")
  BY <1>1, <1>2 DEF Stored, StoreTypes, InCall
<1>4. QED
  BY <1>1, <1>2, <1>3 DEF Stored, StoreTypes

\* Adding is idempotent and twinned, what two goroutines and a crash between two
\* statements do included, for any number of callers, keys and contents: one row per
\* key and the first content for good, an answer that names the row of its key in
\* either store, and no row without its bytes.
THEOREM StoresAgree == StoreSpec => []RowsFaithful
<1>1. Stored => RowsFaithful
  <2> SUFFICES ASSUME Stored PROVE RowsFaithful
    OBVIOUS
  <2>1. Twins(lite, mem)
    BY DEF Stored
  <2>2. LiteReads = lite.archive /\ MemReads = LiteReads
    BY <2>1 DEF Twins, LiteReads, MemReads
  <2>3. /\ \A r, s \in lite.archive : r.key = s.key => r = s
        /\ \A r, s \in NamedIn(lite.mail) : r.key = s.key => r = s
        /\ Contents(mem.mail) = Contents(lite.mail)
    BY <2>1 DEF Twins, OneEach
  <2>4. \A c \in Callers : reply[c].lite # <<>> /\ reply[c].key # Unnamed =>
          /\ \E r \in Keyed(lite[reply[c].table], reply[c].key) : <<r.id>> = reply[c].lite
          /\ \E r \in Keyed(mem[reply[c].table], reply[c].key) : <<r.id>> = reply[c].mem
    BY DEF Stored, Answered
  <2>5. schema = 1 => Earliest(old) \subseteq LiteReads \cap MemReads
    BY <2>2 DEF Stored
  <2>6. QED
    BY <2>2, <2>3, <2>4, <2>5 DEF RowsFaithful, NamedIn, Contents
<1>2. Stored /\ [StoreNext]_storeVars => Stored'
  <2> SUFFICES ASSUME Stored, [StoreNext]_storeVars PROVE Stored'
    OBVIOUS
  <2>1. CASE Migrate
    BY <2>1, MigrateKeeps
  <2>2. ASSUME NEW c \in Callers, NEW k \in MailKeys, NEW b \in Bytes, AddMail(c, k, b) PROVE Stored'
    BY <2>2, BeginKeeps
  <2>3. ASSUME NEW c \in Callers, NEW k \in FileKeys, NEW b \in Bytes, AddArchive(c, k, b) PROVE Stored'
    BY <2>3, BeginKeeps
  <2>4. ASSUME NEW c \in Callers, Select(c) PROVE Stored'
    BY <2>4, SelectKeeps
  <2>5. ASSUME NEW c \in Callers, Insert(c) PROVE Stored'
    BY <2>5, InsertKeeps
  <2>6. ASSUME NEW c \in Callers, CallCut(c) PROVE Stored'
    BY <2>6, CutKeeps
  <2>7. CASE UNCHANGED storeVars
    BY <2>7 DEF storeVars, Stored, StoreTypes
  <2>8. QED
    BY <2>1, <2>2, <2>3, <2>4, <2>5, <2>6, <2>7 DEF StoreNext
<1>3. QED
  BY <1>1, <1>2, StoredInit, PTL DEF StoreSpec
-----------------------------------------------------------------------------
(***************************************************************************)
(* The mailboxes that are polled.                                          *)
(***************************************************************************)
Places == {<<>>} \cup {<<k>> : k \in Nat} \cup {<<v, n>> : v, n \in Nat}

\* A place the server has reached.
Valid(c) ==
  \/ c = <<>>
  \/ protocol = "jmap" /\ \E k \in 0..Len(changes) : c = <<k>>
  \/ protocol = "imap" /\ \E v, n \in Nat : /\ c = <<v, n>> /\ v <= validity /\ n >= 1
                                            /\ v = validity => n <= Len(uids) + 1

\* The mails listed before a place, and those from it on.
Created(lo, hi) == {changes[i][2] : i \in {j \in lo..hi : changes[j][1] = "created"}}
Behind(c) ==
  IF c = <<>> THEN {}
  ELSE IF protocol = "jmap" THEN Created(1, c[1])
  ELSE {uids[u] : u \in {v \in DOMAIN uids : c[1] = validity /\ v < c[2]}}
Ahead(c) ==
  IF c = <<>> THEN {}
  ELSE IF protocol = "jmap" THEN Created(c[1] + 1, Len(changes))
  ELSE {uids[u] : u \in {v \in DOMAIN uids : c[1] = validity /\ v >= c[2]}}

\* What the server keeps: every mail is created once and has at most one UID.
Lists ==
  /\ protocol \in {"jmap", "imap"} /\ born \in 0..MaxMails /\ gone \subseteq Arrived
  /\ validity \in Nat
  /\ changes \in Seq({"created", "destroyed"} \X Nat) /\ uids \in Seq(Nat)
  /\ \A i \in DOMAIN changes : changes[i][1] = "created" => changes[i][2] \in Arrived
  /\ \A i, j \in DOMAIN changes : /\ changes[i][1] = "created" /\ changes[j][1] = "created"
                                  /\ changes[i][2] = changes[j][2]
                                  => i = j
  /\ \A u \in DOMAIN uids : uids[u] \in Arrived
  /\ \A u, v \in DOMAIN uids : uids[u] = uids[v] => u = v

Held == poll.todo \cup poll.got
Fresh(m) == routed[m] <= faults.deaths /\ m \notin before
Cover == before \cup missed \cup gone \cup (IF protocol = "imap" THEN quoted ELSE {})
         \cup {m \in Arrived : routed[m] > 0}

PollerTypes ==
  /\ poll \in [pc : {"asleep", "download", "fetch", "hand"}, next : Places,
               todo : SUBSET Arrived, got : SUBSET Arrived]
  /\ routed \in [1..MaxMails -> Nat] /\ faults \in [all : Nat, deaths : Nat]
  /\ before \subseteq Arrived /\ Valid(cursor) /\ Valid(poll.next)
  /\ poll.pc \in {"asleep", "fetch"} => Held = {}
  /\ poll.pc = "hand" => poll.todo = {}
  /\ cursor = <<>> => Held = {} /\ poll.pc \in {"asleep", "hand"}

\* How often each mail was routed, by where it is.
Counts ==
  /\ \A m \in 1..MaxMails : /\ routed[m] <= faults.deaths + 1
                            /\ m \notin Arrived \/ cursor = <<>> => routed[m] = 0
  /\ \A m \in Held : Fresh(m)
  /\ \A m \in Ahead(cursor) : /\ m \notin before
                              /\ poll.pc # "hand" => routed[m] <= faults.deaths
  /\ \A m \in before : routed[m] = 0
  /\ Behind(cursor) \subseteq Cover

\* What the poller will log next: nothing of it is lost, and nothing after it taken.
NextPlace ==
  /\ poll.pc \in {"download", "hand"} =>
       /\ poll.next # <<>> /\ Behind(poll.next) \subseteq Cover \cup Held
       /\ \A m \in Ahead(poll.next) : Fresh(m) /\ m \notin Held
  /\ poll.pc = "fetch" =>
       /\ protocol = "imap" /\ cursor # <<>> /\ poll.next # <<>>
       /\ cursor[1] = validity /\ poll.next[1] = validity /\ cursor[2] < poll.next[2]

CursorKept == Lists /\ PollerTypes /\ Counts /\ NextPlace

\* Where a place lies among the mails.
LEMMA PlaceFacts ==
  ASSUME Lists, NEW c, Valid(c)
  PROVE  c \in Places /\ Behind(c) \subseteq Arrived /\ Ahead(c) \subseteq Arrived
<1>1. c \in Places
  BY DEF Valid, Places
<1>2. CASE c = <<>>
  BY <1>1, <1>2 DEF Behind, Ahead
<1>3. CASE c # <<>> /\ protocol = "jmap"
  <2>1. PICK k \in 0..Len(changes) : c = <<k>>
    BY <1>3 DEF Valid
  <2>2. c[1] = k /\ k \in Nat /\ Len(changes) \in Nat /\ DOMAIN changes = 1..Len(changes)
    BY <2>1 DEF Lists
  <2>3. 1..k \subseteq DOMAIN changes /\ (k + 1)..Len(changes) \subseteq DOMAIN changes
    BY <2>1, <2>2
  <2>4. Behind(c) = Created(1, k) /\ Ahead(c) = Created(k + 1, Len(changes))
    BY <1>3, <2>2 DEF Behind, Ahead
  <2>5. QED
    BY <1>1, <2>3, <2>4 DEF Created, Lists
<1>4. CASE c # <<>> /\ protocol = "imap"
  <2>1. \A u \in DOMAIN uids : uids[u] \in Arrived
    BY DEF Lists
  <2>2. protocol # "jmap"
    BY <1>4
  <2>3. QED
    BY <1>1, <1>4, <2>1, <2>2 DEF Behind, Ahead
<1>5. QED
  BY <1>2, <1>3, <1>4 DEF Lists

\* The provider moved on: a place that was reached still is, before it lies no mail
\* that did not, and after it none but those that have just arrived.
Onward ==
  /\ Lists' /\ Arrived \subseteq Arrived'
  /\ \A c : Valid(c) => /\ Valid(c)' /\ Behind(c)' \subseteq Behind(c)
                        /\ Ahead(c)' \subseteq Ahead(c) \cup (Arrived' \ Arrived)

\* A mail arrives at the end of both lists.
LEMMA ArriveOnward ==
  ASSUME Lists, NEW quotes \in BOOLEAN, Arrive(quotes)
  PROVE  Onward
<1>1. PICK new : new = born + 1
  OBVIOUS
<1>2. PICK ch, ui : ch = changes' /\ ui = uids'
  OBVIOUS
<1>3. PICK n \in Nat : n = Len(changes)
  BY DEF Lists
<1>4. PICK p \in Nat : p = Len(uids)
  BY DEF Lists
<1>5. /\ protocol' = protocol /\ gone' = gone /\ validity' = validity /\ born' = new
      /\ ch = Append(changes, <<"created", new>>) /\ ui = Append(uids, new)
  BY <1>1, <1>2 DEF Arrive
<1>6. new \in Nat /\ new \in 0..MaxMails /\ born \in Nat
  BY <1>1, MailboxAssumption DEF Arrive, Lists
<1>7. PICK here, now : here = Arrived /\ now = Arrived'
  OBVIOUS
<1>8. now = here \cup {new} /\ new \notin here
  BY <1>1, <1>5, <1>6, <1>7 DEF Arrived
<1>9. /\ ch \in Seq({"created", "destroyed"} \X Nat) /\ Len(ch) = n + 1
      /\ DOMAIN ch = 1..(n + 1) /\ DOMAIN changes = 1..n
      /\ ch[n + 1] = <<"created", new>> /\ \A i \in 1..n : ch[i] = changes[i]
  BY <1>3, <1>5, <1>6 DEF Lists
<1>10. /\ ui \in Seq(Nat) /\ Len(ui) = p + 1
       /\ DOMAIN ui = 1..(p + 1) /\ DOMAIN uids = 1..p
       /\ ui[p + 1] = new /\ \A i \in 1..p : ui[i] = uids[i]
  BY <1>4, <1>5, <1>6 DEF Lists
<1>11. /\ \A i \in 1..(n + 1) : i \in 1..n \/ i = n + 1
       /\ \A i \in 1..(p + 1) : i \in 1..p \/ i = p + 1
       /\ \A i \in 1..n : i \in 1..(n + 1) /\ i # n + 1
       /\ \A i \in 1..p : i \in 1..(p + 1) /\ i # p + 1
  BY <1>3, <1>4
<1>12. /\ \A i \in DOMAIN ch : ch[i][1] = "created" => ch[i][2] \in now
       /\ \A i, j \in DOMAIN ch : /\ ch[i][1] = "created" /\ ch[j][1] = "created"
                                  /\ ch[i][2] = ch[j][2]
                                  => i = j
  <2>1. /\ \A i \in 1..n : changes[i][1] = "created" => changes[i][2] \in here
        /\ \A i, j \in 1..n : /\ changes[i][1] = "created" /\ changes[j][1] = "created"
                              /\ changes[i][2] = changes[j][2]
                              => i = j
    BY <1>7, <1>9 DEF Lists
  <2>2. ch[n + 1][2] = new
    BY <1>9
  <2>3. QED
    BY <1>8, <1>9, <1>11, <2>1, <2>2
<1>13. /\ \A u \in DOMAIN ui : ui[u] \in now
       /\ \A u, v \in DOMAIN ui : ui[u] = ui[v] => u = v
  <2>1. /\ \A u \in 1..p : uids[u] \in here
        /\ \A u, v \in 1..p : uids[u] = uids[v] => u = v
    BY <1>7, <1>10 DEF Lists
  <2>2. QED
    BY <1>8, <1>10, <1>11, <2>1
<1>14. Lists'
  BY <1>2, <1>5, <1>6, <1>7, <1>8, <1>9, <1>10, <1>12, <1>13 DEF Lists
<1>15. ASSUME NEW c, Valid(c)
       PROVE  /\ Valid(c)' /\ Behind(c)' \subseteq Behind(c)
              /\ Ahead(c)' \subseteq Ahead(c) \cup (now \ here)
  <2>1. CASE c = <<>>
    BY <2>1 DEF Valid, Behind, Ahead
  <2>2. CASE c # <<>> /\ protocol = "jmap"
    <3>1. PICK k \in 0..n : c = <<k>>
      BY <1>15, <1>3, <2>2 DEF Valid
    <3>2. k \in Nat /\ k \in 0..(n + 1) /\ c[1] = k
      BY <3>1
    <3>3. Behind(c) = {changes[i][2] : i \in {j \in 1..k : changes[j][1] = "created"}}
      BY <2>2, <3>2 DEF Behind, Created
    <3>4. Behind(c)' = {ch[i][2] : i \in {j \in 1..k : ch[j][1] = "created"}}
      BY <1>2, <1>5, <2>2, <3>2 DEF Behind, Created
    <3>5. Ahead(c) = {changes[i][2] : i \in {j \in (k + 1)..n : changes[j][1] = "created"}}
      BY <1>3, <2>2, <3>2 DEF Ahead, Created
    <3>6. Ahead(c)' = {ch[i][2] : i \in {j \in (k + 1)..(n + 1) : ch[j][1] = "created"}}
      BY <1>2, <1>5, <1>9, <2>2, <3>2 DEF Ahead, Created
    <3>7. \A i \in 1..k : i \in 1..n
      BY <3>1
    <3>8. \A i \in (k + 1)..(n + 1) : i = n + 1 \/ (i \in (k + 1)..n /\ i \in 1..n)
      BY <3>1
    <3>9. Behind(c)' \subseteq Behind(c)
      BY <1>9, <3>3, <3>4, <3>7
    <3>10. Ahead(c)' \subseteq Ahead(c) \cup {new}
      <4>1. SUFFICES ASSUME NEW i \in (k + 1)..(n + 1), ch[i][1] = "created"
                     PROVE  ch[i][2] \in Ahead(c) \cup {new}
        BY <3>6
      <4>2. CASE i = n + 1
        BY <1>9, <4>2
      <4>3. CASE i \in (k + 1)..n /\ i \in 1..n
        BY <1>9, <3>5, <4>1, <4>3
      <4>4. QED
        BY <3>8, <4>1, <4>2, <4>3
    <3>11. Valid(c)'
      BY <1>2, <1>5, <1>9, <2>2, <3>1, <3>2 DEF Valid
    <3>12. QED
      BY <1>8, <3>9, <3>10, <3>11
  <2>3. CASE c # <<>> /\ protocol = "imap"
    <3>1. PICK v \in Nat, k \in Nat : /\ c = <<v, k>> /\ v <= validity /\ k >= 1
                                      /\ v = validity => k <= p + 1
      BY <1>15, <1>4, <2>3 DEF Valid
    <3>2. c[1] = v /\ c[2] = k
      BY <3>1
    <3>3. Behind(c) = {uids[u] : u \in {w \in 1..p : v = validity /\ w < k}}
      BY <1>10, <2>3, <3>2 DEF Behind
    <3>4. Behind(c)' = {ui[u] : u \in {w \in 1..(p + 1) : v = validity /\ w < k}}
      BY <1>2, <1>5, <1>10, <2>3, <3>2 DEF Behind
    <3>5. Ahead(c) = {uids[u] : u \in {w \in 1..p : v = validity /\ w >= k}}
      BY <1>10, <2>3, <3>2 DEF Ahead
    <3>6. Ahead(c)' = {ui[u] : u \in {w \in 1..(p + 1) : v = validity /\ w >= k}}
      BY <1>2, <1>5, <1>10, <2>3, <3>2 DEF Ahead
    <3>7. v = validity => ~(p + 1 < k)
      BY <3>1
    <3>8. Behind(c)' \subseteq Behind(c)
      BY <1>10, <1>11, <3>3, <3>4, <3>7
    <3>9. Ahead(c)' \subseteq Ahead(c) \cup {new}
      BY <1>10, <1>11, <3>5, <3>6
    <3>10. v = validity => k <= Len(ui) + 1
      BY <1>10, <3>1
    <3>11. Valid(c)'
      BY <1>2, <1>5, <2>3, <3>1, <3>10 DEF Valid
    <3>12. QED
      BY <1>8, <3>8, <3>9, <3>11
  <2>4. QED
    BY <2>1, <2>2, <2>3 DEF Lists
<1>16. QED
  BY <1>7, <1>8, <1>14, <1>15 DEF Onward

\* A mail is deleted: JMAP notes it, IMAP keeps its UID.
LEMMA ExpungeOnward ==
  ASSUME Lists, NEW m, Expunge(m)
  PROVE  Onward
<1>1. PICK ch : ch = changes'
  OBVIOUS
<1>2. PICK n \in Nat : n = Len(changes)
  BY DEF Lists
<1>3. /\ protocol' = protocol /\ gone' = gone \cup {m} /\ validity' = validity /\ born' = born
      /\ ch = Append(changes, <<"destroyed", m>>) /\ uids' = uids /\ m \in Arrived
  BY <1>1 DEF Expunge
<1>4. m \in Nat
  BY <1>3 DEF Arrived, Lists
<1>5. /\ ch \in Seq({"created", "destroyed"} \X Nat) /\ Len(ch) = n + 1
      /\ DOMAIN ch = 1..(n + 1) /\ DOMAIN changes = 1..n
      /\ ch[n + 1] = <<"destroyed", m>> /\ \A i \in 1..n : ch[i] = changes[i]
  BY <1>2, <1>3, <1>4 DEF Lists
<1>6. \A i \in 1..(n + 1) : i \in 1..n \/ i = n + 1
  BY <1>2
<1>7. ch[n + 1][1] # "created"
  BY <1>5
<1>8. Arrived' = Arrived
  BY <1>3 DEF Arrived
<1>9. /\ \A i \in DOMAIN ch : ch[i][1] = "created" => ch[i][2] \in Arrived
      /\ \A i, j \in DOMAIN ch : /\ ch[i][1] = "created" /\ ch[j][1] = "created"
                                 /\ ch[i][2] = ch[j][2]
                                 => i = j
  BY <1>5, <1>6, <1>7 DEF Lists
<1>10. Lists'
  BY <1>1, <1>3, <1>5, <1>8, <1>9 DEF Lists
<1>11. ASSUME NEW c, Valid(c)
       PROVE  Valid(c)' /\ Behind(c)' \subseteq Behind(c) /\ Ahead(c)' \subseteq Ahead(c)
  <2>1. CASE c = <<>>
    BY <2>1 DEF Valid, Behind, Ahead
  <2>2. CASE c # <<>> /\ protocol = "jmap"
    <3>1. PICK k \in 0..n : c = <<k>>
      BY <1>11, <1>2, <2>2 DEF Valid
    <3>2. k \in Nat /\ k \in 0..(n + 1) /\ c[1] = k
      BY <3>1
    <3>3. Behind(c) = {changes[i][2] : i \in {j \in 1..k : changes[j][1] = "created"}}
      BY <2>2, <3>2 DEF Behind, Created
    <3>4. Behind(c)' = {ch[i][2] : i \in {j \in 1..k : ch[j][1] = "created"}}
      BY <1>1, <1>3, <2>2, <3>2 DEF Behind, Created
    <3>5. Ahead(c) = {changes[i][2] : i \in {j \in (k + 1)..n : changes[j][1] = "created"}}
      BY <1>2, <2>2, <3>2 DEF Ahead, Created
    <3>6. Ahead(c)' = {ch[i][2] : i \in {j \in (k + 1)..(n + 1) : ch[j][1] = "created"}}
      BY <1>1, <1>3, <1>5, <2>2, <3>2 DEF Ahead, Created
    <3>7. \A i \in 1..k : i \in 1..n
      BY <3>1
    <3>8. \A i \in (k + 1)..(n + 1) : i = n + 1 \/ (i \in (k + 1)..n /\ i \in 1..n)
      BY <3>1
    <3>9. Behind(c)' \subseteq Behind(c)
      BY <1>5, <3>3, <3>4, <3>7
    <3>10. Ahead(c)' \subseteq Ahead(c)
      BY <1>5, <1>7, <3>5, <3>6, <3>8
    <3>11. Valid(c)'
      BY <1>1, <1>3, <1>5, <2>2, <3>1, <3>2 DEF Valid
    <3>12. QED
      BY <3>9, <3>10, <3>11
  <2>3. CASE c # <<>> /\ protocol = "imap"
    <3>1. Behind(c)' = Behind(c) /\ Ahead(c)' = Ahead(c)
      BY <1>3, <2>3 DEF Behind, Ahead
    <3>2. Valid(c)'
      BY <1>11, <1>3, <2>3 DEF Valid
    <3>3. QED
      BY <3>1, <3>2
  <2>4. QED
    BY <2>1, <2>2, <2>3 DEF Lists
<1>12. QED
  BY <1>8, <1>10, <1>11 DEF Onward

\* The mailbox is renumbered: no place of before means anything any more.
LEMMA RenumberOnward ==
  ASSUME Lists, Renumber
  PROVE  Onward
<1>1. PICK ui, left : ui = uids' /\ left = Arrived \ gone
  OBVIOUS
<1>2. /\ protocol' = protocol /\ protocol = "imap" /\ gone' = gone /\ validity' = validity + 1
      /\ born' = born /\ changes' = changes /\ ui = SetToSeq(left)
  BY <1>1 DEF Renumber
<1>3. Arrived' = Arrived
  BY <1>2 DEF Arrived
<1>4. left \subseteq Arrived /\ IsFiniteSet(left) /\ left \subseteq Nat
  <2>1. born \in Nat /\ 1 \in Nat
    BY MailboxAssumption DEF Lists
  <2>2. IsFiniteSet(Arrived)
    BY <2>1, FS_Interval DEF Arrived
  <2>3. Arrived \subseteq Nat
    BY <2>1 DEF Arrived
  <2>4. QED
    BY <1>1, <2>2, <2>3, FS_Subset
<1>5. /\ ui \in Seq(left)
      /\ \A u, v \in DOMAIN ui : ui[u] = ui[v] => u = v
  BY <1>2, <1>4, SetToSeqProperties, SetToSeqOnce
<1>6. ui \in Seq(Nat) /\ \A u \in DOMAIN ui : ui[u] \in Arrived
  <2>1. ui \in Seq(Nat)
    BY <1>4, <1>5, SeqWider
  <2>2. \A u \in DOMAIN ui : ui[u] \in left
    BY <1>5
  <2>3. QED
    BY <1>4, <2>1, <2>2
<1>7. validity \in Nat /\ validity + 1 \in Nat
  BY DEF Lists
<1>8. Lists'
  BY <1>1, <1>2, <1>3, <1>5, <1>6, <1>7 DEF Lists
<1>9. ASSUME NEW c, Valid(c)
      PROVE  Valid(c)' /\ Behind(c)' \subseteq Behind(c) /\ Ahead(c)' \subseteq Ahead(c)
  <2>1. CASE c = <<>>
    BY <2>1 DEF Valid, Behind, Ahead
  <2>2. CASE c # <<>>
    <3>1. PICK v \in Nat, k \in Nat : c = <<v, k>> /\ v <= validity /\ k >= 1
      BY <1>9, <1>2, <2>2 DEF Valid
    <3>2. v # validity + 1 /\ v <= validity + 1 /\ c[1] = v
      BY <1>7, <3>1
    <3>3. Behind(c)' = {} /\ Ahead(c)' = {}
      BY <1>2, <2>2, <3>2 DEF Behind, Ahead
    <3>4. Valid(c)'
      BY <1>2, <3>1, <3>2 DEF Valid
    <3>5. QED
      BY <3>3, <3>4
  <2>3. QED
    BY <2>1, <2>2
<1>10. QED
  BY <1>3, <1>8, <1>9 DEF Onward

\* Whatever the provider does, no mail is lost or taken twice by it.
LEMMA ProviderKeeps ==
  ASSUME CursorKept,
         \/ \E quotes \in BOOLEAN : Arrive(quotes)
         \/ \E m \in 1..MaxMails : Expunge(m)
         \/ Renumber
  PROVE  CursorKept'
<1>1. Onward
  BY ArriveOnward, ExpungeOnward, RenumberOnward DEF CursorKept
<1>2. /\ protocol' = protocol /\ cursor' = cursor /\ poll' = poll /\ routed' = routed
      /\ before' = before /\ missed' = missed
      /\ gone \subseteq gone' /\ quoted \subseteq quoted'
      /\ poll.pc = "fetch" => validity' = validity
  BY DEF Arrive, Expunge, Renumber, poller
<1>3. faults' \in [all : Nat, deaths : Nat] /\ faults'.deaths = faults.deaths
  <2>1. faults \in [all : Nat, deaths : Nat]
    BY DEF CursorKept, PollerTypes
  <2>2. faults' = faults \/ faults' = [faults EXCEPT !.all = @ + 1]
    BY DEF Arrive, Expunge, Renumber, Trouble
  <2>3. QED
    BY <2>1, <2>2
<1>4. PICK n : n = poll.next
  OBVIOUS
<1>5. Valid(cursor) /\ Valid(n) /\ poll \in [pc : {"asleep", "download", "fetch", "hand"},
                                              next : Places, todo : SUBSET Arrived, got : SUBSET Arrived]
  BY <1>4 DEF CursorKept, PollerTypes
<1>6. PICK c : c = cursor
  OBVIOUS
<1>7. /\ Valid(c)' /\ Behind(c)' \subseteq Behind(c)
      /\ Ahead(c)' \subseteq Ahead(c) \cup (Arrived' \ Arrived)
      /\ Valid(n)' /\ Behind(n)' \subseteq Behind(n)
      /\ Ahead(n)' \subseteq Ahead(n) \cup (Arrived' \ Arrived)
  BY <1>1, <1>5, <1>6 DEF Onward
<1>8. Lists' /\ Arrived \subseteq Arrived' /\ Arrived' \subseteq 1..MaxMails
  <2>1. Lists' /\ Arrived \subseteq Arrived'
    BY <1>1 DEF Onward
  <2>2. PICK b : b = born'
    OBVIOUS
  <2>3. b \in 0..MaxMails /\ Arrived' = 1..b
    BY <2>1, <2>2 DEF Lists, Arrived
  <2>4. QED
    BY <2>1, <2>3, MailboxAssumption
<1>9. PollerTypes'
  <2>1. (Valid(cursor) /\ Valid(poll.next))'
    BY <1>2, <1>4, <1>6, <1>7
  <2>2. QED
    BY <1>2, <1>3, <1>5, <1>8, <2>1 DEF CursorKept, PollerTypes, Held
<1>10. PICK new : new = Arrived' \ Arrived
  OBVIOUS
<1>11. \A m \in new : routed[m] = 0 /\ m \notin before /\ m \notin Held /\ routed[m] <= faults.deaths
  <2>1. \A m \in new : m \in 1..MaxMails /\ m \notin Arrived
    BY <1>8, <1>10
  <2>2. \A m \in new : routed[m] = 0
    BY <2>1 DEF CursorKept, Counts
  <2>3. before \subseteq Arrived /\ Held \subseteq Arrived /\ faults.deaths \in Nat
    BY DEF CursorKept, PollerTypes, Held
  <2>4. QED
    BY <2>1, <2>2, <2>3
<1>12. Cover \subseteq Cover'
  BY <1>2, <1>8 DEF Cover
<1>13. Behind(cursor)' \subseteq Cover'
  <2>1. Behind(c) \subseteq Cover
    BY <1>6 DEF CursorKept, Counts
  <2>2. Behind(cursor)' = Behind(c)'
    BY <1>2, <1>6 DEF Behind, Created
  <2>3. QED
    BY <1>7, <1>12, <2>1, <2>2
<1>14. \A m \in Ahead(cursor)' : m \notin before /\ (poll.pc # "hand" => routed[m] <= faults.deaths)
  <2>1. Ahead(cursor)' = Ahead(c)'
    BY <1>2, <1>6 DEF Ahead, Created
  <2>2. Ahead(cursor)' \subseteq Ahead(cursor) \cup new
    BY <1>6, <1>7, <1>10, <2>1
  <2>3. QED
    BY <1>11, <2>2 DEF CursorKept, Counts
<1>15. Counts'
  <2>1. \A m \in 1..MaxMails : m \notin Arrived' => m \notin Arrived
    BY <1>8
  <2>2. QED
    BY <1>2, <1>3, <1>13, <1>14, <2>1 DEF CursorKept, Counts, Fresh, Held
<1>16. NextPlace'
  <2>1. ASSUME poll.pc \in {"download", "hand"}
        PROVE  /\ n # <<>> /\ Behind(n)' \subseteq Cover' \cup Held
               /\ \A m \in Ahead(n)' : Fresh(m) /\ m \notin Held
    <3>1. /\ n # <<>> /\ Behind(n) \subseteq Cover \cup Held
          /\ \A m \in Ahead(n) : Fresh(m) /\ m \notin Held
      BY <1>4, <2>1 DEF CursorKept, NextPlace
    <3>2. Ahead(n)' \subseteq Ahead(n) \cup new
      BY <1>7, <1>10
    <3>3. QED
      BY <1>7, <1>11, <1>12, <3>1, <3>2 DEF Fresh
  <2>2. Behind(poll.next)' = Behind(n)' /\ Ahead(poll.next)' = Ahead(n)'
    BY <1>2, <1>4 DEF Behind, Ahead, Created
  <2>3. \A m : Fresh(m)' <=> Fresh(m)
    BY <1>2, <1>3 DEF Fresh
  <2>4. Held' = Held
    BY <1>2 DEF Held
  <2>5. QED
    BY <1>2, <1>4, <2>1, <2>2, <2>3, <2>4 DEF CursorKept, NextPlace
<1>17. QED
  BY <1>8, <1>9, <1>15, <1>16 DEF CursorKept

\* The poller leaves the server alone.
LEMMA StillThere ==
  ASSUME UNCHANGED provider
  PROVE  /\ Lists' <=> Lists
         /\ \A c : (Valid(c)' <=> Valid(c)) /\ Behind(c)' = Behind(c) /\ Ahead(c)' = Ahead(c)
         /\ Arrived' = Arrived
         /\ gone' = gone /\ quoted' = quoted /\ protocol' = protocol /\ validity' = validity
BY DEF provider, Lists, Valid, Behind, Ahead, Created, Arrived

\* Nothing happened yet.
LEMMA CursorInit == MailboxInit => CursorKept
<1> SUFFICES ASSUME MailboxInit PROVE CursorKept
  OBVIOUS
<1>1. Arrived = {}
  BY DEF MailboxInit, Arrived
<1>2. Lists
  BY <1>1, MailboxAssumption DEF MailboxInit, Lists
<1>3. Behind(cursor) = {} /\ Ahead(cursor) = {} /\ Held = {}
  BY DEF MailboxInit, Behind, Ahead, Held, Asleep
<1>4. PollerTypes
  BY <1>3 DEF MailboxInit, PollerTypes, Asleep, Places, Valid
<1>5. Counts /\ NextPlace
  BY <1>3 DEF MailboxInit, Counts, NextPlace, Asleep
<1>6. QED
  BY <1>2, <1>4, <1>5 DEF CursorKept

\* The poll is given up: every mail it held is still ahead of the cursor.
LEMMA GivenUp ==
  ASSUME CursorKept, UNCHANGED <<provider, cursor, routed, before, missed>>, poll' = Asleep,
         faults' \in [all : Nat, deaths : Nat], faults'.deaths >= faults.deaths,
         poll.pc = "hand" => faults'.deaths = faults.deaths + 1
  PROVE  CursorKept'
<1>1. /\ Lists' /\ Valid(cursor)' /\ Behind(cursor)' = Behind(cursor) /\ Ahead(cursor)' = Ahead(cursor)
      /\ Arrived' = Arrived /\ gone' = gone /\ quoted' = quoted /\ protocol' = protocol
  <2>1. PICK c : c = cursor
    OBVIOUS
  <2>2. Valid(cursor)' = Valid(c)' /\ Behind(cursor)' = Behind(c)' /\ Ahead(cursor)' = Ahead(c)'
    BY <2>1 DEF Valid, Behind, Ahead, Created
  <2>3. QED
    BY <2>1, <2>2, StillThere DEF CursorKept, PollerTypes
<1>2. faults.deaths \in Nat /\ faults'.deaths \in Nat
  BY DEF CursorKept, PollerTypes
<1>3. Held' = {}
  BY DEF Held, Asleep
<1>4. Valid(poll.next)' /\ poll'.next = <<>> /\ poll'.pc = "asleep" /\ poll'.todo = {} /\ poll'.got = {}
  BY DEF Valid, Asleep
<1>5. PollerTypes'
  BY <1>1, <1>3, <1>4 DEF CursorKept, PollerTypes, Asleep, Places
<1>6. \A m \in Arrived : m \in 1..MaxMails
  BY MailboxAssumption DEF CursorKept, Lists, Arrived
<1>7. \A m \in 1..MaxMails : routed[m] \in Nat /\ routed[m] <= faults.deaths + 1
  BY DEF CursorKept, PollerTypes, Counts
<1>8. \A m \in 1..MaxMails : routed[m] <= faults'.deaths + 1
  BY <1>2, <1>7
<1>9. Ahead(cursor) \subseteq Arrived
  BY PlaceFacts DEF CursorKept, PollerTypes
<1>10. \A m \in Ahead(cursor) : routed[m] <= faults'.deaths
  <2> SUFFICES ASSUME NEW m \in Ahead(cursor) PROVE routed[m] <= faults'.deaths
    OBVIOUS
  <2>1. routed[m] \in Nat /\ routed[m] <= faults.deaths + 1
    BY <1>6, <1>7, <1>9
  <2>2. poll.pc # "hand" => routed[m] <= faults.deaths
    BY DEF CursorKept, Counts
  <2>3. QED
    BY <1>2, <2>1, <2>2
<1>11. Cover' = Cover
  BY <1>1 DEF Cover
<1>12. Counts'
  BY <1>1, <1>3, <1>8, <1>10, <1>11 DEF CursorKept, Counts
<1>13. NextPlace'
  BY <1>4 DEF NextPlace
<1>14. QED
  BY <1>1, <1>5, <1>12, <1>13 DEF CursorKept

\* The poller sets out for a place: a window of what lies ahead of the cursor, of
\* which it holds every mail that is there, or a place that nothing follows.
LEMMA SetOut ==
  ASSUME CursorKept, UNCHANGED <<provider, cursor, routed, faults>>,
         poll.pc # "hand", NEW next, Valid(next), next # <<>>, NEW pc \in {"download", "hand"},
         NEW todo \in SUBSET Arrived, NEW got \in SUBSET Arrived,
         poll' = [pc |-> pc, next |-> next, todo |-> todo, got |-> got],
         pc = "hand" => todo = {}, cursor = <<>> => todo \cup got = {} /\ pc = "hand",
         before \subseteq before', missed \subseteq missed', before' \subseteq Arrived,
         before' # before => cursor = <<>>,
         Ahead(next) \subseteq Ahead(cursor), todo \cup got \subseteq Ahead(cursor),
         Ahead(next) \cap (todo \cup got) = {},
         Behind(next) \subseteq Cover' \cup todo \cup got
  PROVE  CursorKept'
<1>1. /\ Lists' /\ Valid(cursor)' /\ Behind(cursor)' = Behind(cursor) /\ Ahead(cursor)' = Ahead(cursor)
      /\ Valid(poll.next)' /\ Behind(poll.next)' = Behind(next) /\ Ahead(poll.next)' = Ahead(next)
      /\ Arrived' = Arrived /\ gone' = gone /\ quoted' = quoted /\ protocol' = protocol
  <2>1. PICK c : c = cursor
    OBVIOUS
  <2>2. Valid(cursor)' = Valid(c)' /\ Behind(cursor)' = Behind(c)' /\ Ahead(cursor)' = Ahead(c)'
    BY <2>1 DEF Valid, Behind, Ahead, Created
  <2>3. poll'.next = next
    OBVIOUS
  <2>4. /\ Valid(poll.next)' = Valid(next)' /\ Behind(poll.next)' = Behind(next)'
        /\ Ahead(poll.next)' = Ahead(next)'
    BY <2>3 DEF Valid, Behind, Ahead, Created
  <2>5. QED
    BY <2>1, <2>2, <2>4, StillThere DEF CursorKept, PollerTypes
<1>2. poll'.pc = pc /\ poll'.next = next /\ poll'.todo = todo /\ poll'.got = got
      /\ Held' = todo \cup got
  BY DEF Held
<1>3. next \in Places
  BY PlaceFacts DEF CursorKept
<1>4. PollerTypes'
  BY <1>1, <1>2, <1>3 DEF CursorKept, PollerTypes
<1>5. \A m \in Ahead(cursor) : m \notin before /\ routed[m] <= faults.deaths
  BY DEF CursorKept, Counts
<1>6. \A m \in Ahead(cursor) : m \notin before'
  BY <1>5 DEF Ahead
<1>7. \A m : Fresh(m)' <=> routed[m] <= faults.deaths /\ m \notin before'
  BY DEF Fresh
<1>8. Cover \subseteq Cover'
  BY <1>1 DEF Cover
<1>9. Arrived \subseteq 1..MaxMails
  BY MailboxAssumption DEF CursorKept, Lists, Arrived
<1>10. \A m \in before' : routed[m] = 0
  BY <1>9 DEF CursorKept, Counts
<1>11. Counts'
  BY <1>1, <1>2, <1>5, <1>6, <1>7, <1>8, <1>10 DEF CursorKept, Counts
<1>12. NextPlace'
  BY <1>1, <1>2, <1>5, <1>6, <1>7 DEF NextPlace
<1>13. QED
  BY <1>1, <1>4, <1>11, <1>12 DEF CursorKept

\* The poller anchors at the end of what there is: nothing lies ahead of it.
LEMMA Anchored ==
  ASSUME CursorKept, UNCHANGED <<provider, cursor, routed, faults>>, poll.pc = "asleep",
         NEW next, Valid(next), next # <<>>, Ahead(next) = {}, Anchor(next)
  PROVE  CursorKept'
<1>1. /\ poll' = [pc |-> "hand", next |-> next, todo |-> {}, got |-> {}]
      /\ before' = (IF cursor = <<>> THEN Arrived ELSE before)
      /\ missed' = (IF cursor = <<>> THEN missed ELSE missed \cup Arrived)
  BY DEF Anchor, Got, Asleep
<1>2. before \subseteq Arrived
  BY DEF CursorKept, PollerTypes
<1>3. /\ before \subseteq before' /\ missed \subseteq missed' /\ before' \subseteq Arrived
      /\ before' # before => cursor = <<>>
      /\ Arrived \subseteq before' \cup missed'
  BY <1>1, <1>2
<1>4. Behind(next) \subseteq Arrived
  BY PlaceFacts DEF CursorKept
<1>5. before' \cup missed' \subseteq Cover'
  BY DEF Cover
<1>6. PICK t \in SUBSET Arrived : t = {}
  OBVIOUS
<1>7. poll' = [pc |-> "hand", next |-> next, todo |-> t, got |-> t]
  BY <1>1, <1>6
<1>8. Behind(next) \subseteq Cover' \cup t \cup t
  BY <1>3, <1>4, <1>5
<1>9. QED
  BY <1>3, <1>6, <1>7, <1>8, SetOut

\* JMAP's empty cursor.
LEMMA MailStateKeeps ==
  ASSUME CursorKept, MailState
  PROVE  CursorKept'
<1>1. PICK n \in Nat : n = Len(changes)
  BY DEF CursorKept, Lists
<1>2. PICK next : next = <<n>>
  OBVIOUS
<1>3. /\ protocol = "jmap" /\ poll.pc = "asleep" /\ Anchor(next)
      /\ UNCHANGED <<provider, cursor, routed, faults>>
  BY <1>1, <1>2 DEF MailState
<1>4. Valid(next) /\ next # <<>>
  BY <1>1, <1>2, <1>3 DEF Valid
<1>5. Ahead(next) = Created(n + 1, n)
  BY <1>1, <1>2, <1>3 DEF Ahead
<1>6. Ahead(next) = {}
  <2>1. (n + 1)..n = {}
    OBVIOUS
  <2>2. QED
    BY <1>5, <2>1 DEF Created
<1>7. QED
  BY <1>3, <1>4, <1>6, Anchored

\* A window of the changes.
LEMMA EmailChangesKeeps ==
  ASSUME CursorKept, EmailChanges
  PROVE  CursorKept'
<1>1. PICK n \in Nat : n = Len(changes) /\ DOMAIN changes = 1..n
  BY DEF CursorKept, Lists
<1>2. /\ protocol = "jmap" /\ poll.pc = "asleep" /\ cursor # <<>>
      /\ UNCHANGED <<provider, cursor, routed, before, missed, faults>>
  BY DEF EmailChanges
<1>3. PICK k \in 0..n : cursor = <<k>>
  BY <1>1, <1>2 DEF CursorKept, PollerTypes, Valid
<1>4. cursor[1] = k
  BY <1>3
<1>5. PICK upto : upto = Least(k + MaxChanges, n)
  OBVIOUS
<1>6. upto \in Nat /\ k <= upto /\ upto <= n /\ k \in Nat
  BY <1>3, <1>5, MailboxAssumption DEF Least
<1>7. PICK todo : todo = {changes[i][2] : i \in {j \in k + 1 .. upto :
                             changes[j][1] = "created" /\ changes[j][2] \notin gone}}
  OBVIOUS
<1>8. PICK next : next = <<upto>>
  OBVIOUS
<1>9. poll' = [pc |-> "download", next |-> next, todo |-> todo, got |-> {}]
  BY <1>1, <1>4, <1>5, <1>7, <1>8 DEF EmailChanges
<1>10. Valid(next) /\ next # <<>>
  <2>1. upto \in 0..Len(changes)
    BY <1>1, <1>6
  <2>2. QED
    BY <1>2, <1>8, <2>1 DEF Valid
<1>11. /\ Behind(next) = {changes[i][2] : i \in {j \in 1..upto : changes[j][1] = "created"}}
       /\ Ahead(next) = {changes[i][2] : i \in {j \in (upto + 1)..n : changes[j][1] = "created"}}
  <2>1. next[1] = upto
    BY <1>8
  <2>2. QED
    BY <1>1, <1>2, <1>10, <2>1 DEF Behind, Ahead, Created
<1>12. /\ Behind(cursor) = {changes[i][2] : i \in {j \in 1..k : changes[j][1] = "created"}}
       /\ Ahead(cursor) = {changes[i][2] : i \in {j \in (k + 1)..n : changes[j][1] = "created"}}
  BY <1>1, <1>2, <1>4 DEF Behind, Ahead, Created
<1>13. /\ \A i \in (upto + 1)..n : i \in (k + 1)..n /\ i \in 1..n /\ i \notin (k + 1)..upto
       /\ \A i \in (k + 1)..upto : i \in (k + 1)..n /\ i \in 1..n
       /\ \A i \in 1..upto : i \in 1..k \/ i \in (k + 1)..upto
  BY <1>6
<1>14. Ahead(next) \subseteq Ahead(cursor) /\ todo \subseteq Ahead(cursor)
  BY <1>7, <1>11, <1>12, <1>13
<1>15. todo \subseteq Arrived
  BY <1>1, <1>7, <1>13 DEF CursorKept, Lists
<1>16. Ahead(next) \cap todo = {}
  <2>1. \A i, j \in 1..n : /\ changes[i][1] = "created" /\ changes[j][1] = "created"
                           /\ changes[i][2] = changes[j][2]
                           => i = j
    BY <1>1 DEF CursorKept, Lists
  <2>2. ASSUME NEW m \in Ahead(next), m \in todo PROVE FALSE
    <3>1. PICK i \in (upto + 1)..n : changes[i][1] = "created" /\ m = changes[i][2]
      BY <1>11, <2>2
    <3>2. PICK j \in (k + 1)..upto : changes[j][1] = "created" /\ m = changes[j][2]
      BY <1>7, <2>2
    <3>3. i = j
      BY <1>13, <2>1, <3>1, <3>2
    <3>4. QED
      BY <1>13, <3>1, <3>2, <3>3
  <2>3. QED
    BY <2>2
<1>17. Behind(next) \subseteq Behind(cursor) \cup gone \cup todo
  BY <1>7, <1>11, <1>12, <1>13
<1>18. Cover' = Cover
  BY <1>2, StillThere DEF Cover
<1>19. Behind(next) \subseteq Cover' \cup todo
  <2>1. Behind(cursor) \subseteq Cover /\ gone \subseteq Cover
    BY DEF CursorKept, Counts, Cover
  <2>2. QED
    BY <1>17, <1>18, <2>1
<1>20. PICK none \in SUBSET Arrived : none = {}
  OBVIOUS
<1>21. poll' = [pc |-> "download", next |-> next, todo |-> todo, got |-> none]
  BY <1>9, <1>20
<1>22. before \subseteq Arrived /\ before' = before /\ missed' = missed
  BY <1>2 DEF CursorKept, PollerTypes
<1>23. QED
  BY <1>2, <1>10, <1>14, <1>15, <1>16, <1>19, <1>20, <1>21, <1>22, SetOut

\* One mail is downloaded, or is gone and the poll with it.
LEMMA DownloadKeeps ==
  ASSUME CursorKept, NEW m, Download(m)
  PROVE  CursorKept'
<1>1. /\ poll.pc = "download" /\ m \in poll.todo
      /\ UNCHANGED <<provider, cursor, routed, before, missed, faults>>
  BY DEF Download
<1>2. CASE poll' = Asleep
  <2>1. faults' \in [all : Nat, deaths : Nat] /\ faults'.deaths >= faults.deaths
    BY <1>1 DEF CursorKept, PollerTypes
  <2>2. QED
    BY <1>1, <1>2, <2>1, GivenUp
<1>3. CASE poll' = [poll EXCEPT !.todo = @ \ {m}, !.got = @ \cup {m}]
  <2>1. /\ poll'.pc = "download" /\ poll'.next = poll.next /\ poll'.todo = poll.todo \ {m}
        /\ poll'.got = poll.got \cup {m}
        /\ poll' \in [pc : {"asleep", "download", "fetch", "hand"}, next : Places,
                      todo : SUBSET Arrived, got : SUBSET Arrived]
    BY <1>1, <1>3 DEF CursorKept, PollerTypes
  <2>2. Held' = Held
    BY <1>1, <2>1 DEF Held
  <2>3. /\ Lists' /\ Valid(cursor)' /\ Behind(cursor)' = Behind(cursor) /\ Ahead(cursor)' = Ahead(cursor)
        /\ Valid(poll.next)' /\ Behind(poll.next)' = Behind(poll.next)
        /\ Ahead(poll.next)' = Ahead(poll.next)
        /\ Arrived' = Arrived /\ gone' = gone /\ quoted' = quoted /\ protocol' = protocol
    <3>1. PICK c, n : c = cursor /\ n = poll.next
      OBVIOUS
    <3>2. /\ Valid(cursor)' = Valid(c)' /\ Behind(cursor)' = Behind(c)' /\ Ahead(cursor)' = Ahead(c)'
          /\ Valid(poll.next)' = Valid(n)' /\ Behind(poll.next)' = Behind(n)'
          /\ Ahead(poll.next)' = Ahead(n)'
      BY <1>1, <2>1, <3>1 DEF Valid, Behind, Ahead, Created
    <3>3. QED
      BY <1>1, <3>1, <3>2, StillThere DEF CursorKept, PollerTypes
  <2>4. PollerTypes'
    BY <1>1, <2>1, <2>2, <2>3 DEF CursorKept, PollerTypes
  <2>5. Cover' = Cover
    BY <1>1, <2>3 DEF Cover
  <2>6. \A x : Fresh(x)' <=> Fresh(x)
    BY <1>1 DEF Fresh
  <2>7. Counts'
    BY <1>1, <2>1, <2>2, <2>3, <2>5, <2>6 DEF CursorKept, Counts
  <2>8. NextPlace'
    BY <1>1, <2>1, <2>2, <2>3, <2>5, <2>6 DEF CursorKept, NextPlace
  <2>9. QED
    BY <2>3, <2>4, <2>7, <2>8 DEF CursorKept
<1>4. QED
  BY <1>2, <1>3 DEF Download

\* The window is downloaded.
LEMMA DownloadedKeeps ==
  ASSUME CursorKept, Downloaded
  PROVE  CursorKept'
<1>1. PICK n, got : n = poll.next /\ got = poll.got
  OBVIOUS
<1>2. /\ poll.pc = "download" /\ poll.todo = {}
      /\ poll' = [pc |-> "hand", next |-> n, todo |-> {}, got |-> got]
      /\ UNCHANGED <<provider, cursor, routed, before, missed, faults>>
  BY <1>1 DEF Downloaded, Got, Asleep
<1>3. Held' = got /\ Held = got
  BY <1>1, <1>2 DEF Held
<1>4. /\ Lists' /\ Valid(cursor)' /\ Behind(cursor)' = Behind(cursor) /\ Ahead(cursor)' = Ahead(cursor)
      /\ Valid(poll.next)' /\ Behind(poll.next)' = Behind(poll.next)
      /\ Ahead(poll.next)' = Ahead(poll.next)
      /\ Arrived' = Arrived /\ gone' = gone /\ quoted' = quoted /\ protocol' = protocol
  <2>1. PICK c : c = cursor
    OBVIOUS
  <2>2. /\ Valid(cursor)' = Valid(c)' /\ Behind(cursor)' = Behind(c)' /\ Ahead(cursor)' = Ahead(c)'
        /\ Valid(poll.next)' = Valid(n)' /\ Behind(poll.next)' = Behind(n)'
        /\ Ahead(poll.next)' = Ahead(n)'
    BY <1>2, <2>1 DEF Valid, Behind, Ahead, Created
  <2>3. QED
    BY <1>1, <1>2, <2>1, <2>2, StillThere DEF CursorKept, PollerTypes
<1>5. PollerTypes'
  BY <1>1, <1>2, <1>3, <1>4 DEF CursorKept, PollerTypes
<1>6. Cover' = Cover
  BY <1>2, <1>4 DEF Cover
<1>7. \A x : Fresh(x)' <=> Fresh(x)
  BY <1>2 DEF Fresh
<1>8. Counts'
  BY <1>2, <1>3, <1>4, <1>6, <1>7 DEF CursorKept, Counts
<1>9. NextPlace'
  BY <1>1, <1>2, <1>3, <1>4, <1>6, <1>7 DEF CursorKept, NextPlace
<1>10. QED
  BY <1>4, <1>5, <1>8, <1>9 DEF CursorKept

\* SELECT: anchor, nothing new, or something to fetch.
LEMMA SelectInboxKeeps ==
  ASSUME CursorKept, SelectInbox
  PROVE  CursorKept'
<1>1. PICK n \in Nat : n = Len(uids) /\ DOMAIN uids = 1..n
  BY DEF CursorKept, Lists
<1>2. PICK next : next = <<validity, n + 1>>
  OBVIOUS
<1>3. /\ protocol = "imap" /\ poll.pc = "asleep" /\ validity \in Nat
      /\ UNCHANGED <<provider, cursor, routed, faults>>
  BY DEF SelectInbox, CursorKept, Lists
<1>4. next[1] = validity /\ next[2] = n + 1 /\ next # <<>>
  BY <1>2
<1>5. Valid(next)
  <2>1. n + 1 \in Nat /\ n + 1 >= 1 /\ n + 1 <= Len(uids) + 1 /\ validity <= validity
    BY <1>1, <1>3
  <2>2. QED
    BY <1>2, <1>3, <2>1 DEF Valid
<1>6. Behind(next) = {uids[u] : u \in {w \in 1..n : w < n + 1}}
  BY <1>1, <1>3, <1>4 DEF Behind
<1>7. Ahead(next) = {uids[u] : u \in {w \in 1..n : w >= n + 1}}
  BY <1>1, <1>3, <1>4 DEF Ahead
<1>8. Ahead(next) = {}
  BY <1>7
<1>9. CASE cursor = <<>> \/ Head(cursor) # validity
  <2>1. Anchor(next)
    BY <1>1, <1>2, <1>9 DEF SelectInbox, UidNext
  <2>2. QED
    BY <1>3, <1>4, <1>5, <1>8, <2>1, Anchored
<1>10. CASE ~(cursor = <<>> \/ Head(cursor) # validity)
  <2>1. PICK v \in Nat, k \in Nat : /\ cursor = <<v, k>> /\ v <= validity /\ k >= 1
                                    /\ v = validity => k <= n + 1
    BY <1>1, <1>3, <1>10 DEF CursorKept, PollerTypes, Valid
  <2>2. v = validity /\ cursor[1] = v /\ cursor[2] = k /\ k <= n + 1 /\ cursor # <<>>
    BY <1>10, <2>1
  <2>3. before' = before /\ missed' = missed
    BY <1>10 DEF SelectInbox
  <2>4. before \subseteq Arrived
    BY DEF CursorKept, PollerTypes
  <2>5. PICK none \in SUBSET Arrived : none = {}
    OBVIOUS
  <2>6. Cover' = Cover
    BY <1>3, <2>3, StillThere DEF Cover
  <2>7. CASE k >= n + 1
    <3>1. poll' = [pc |-> "hand", next |-> next, todo |-> none, got |-> none]
      BY <1>1, <1>2, <1>10, <2>2, <2>5, <2>7 DEF SelectInbox, UidNext, Got, Asleep
    <3>2. next = cursor
      BY <1>2, <2>1, <2>2, <2>7
    <3>3. Behind(next) \subseteq Cover' \cup none \cup none
      BY <2>6, <3>2 DEF CursorKept, Counts
    <3>4. QED
      BY <1>3, <1>4, <1>5, <1>8, <2>2, <2>3, <2>4, <2>5, <3>1, <3>3, SetOut
  <2>8. CASE ~(k >= n + 1)
    <3>1. poll' = [pc |-> "fetch", next |-> next, todo |-> {}, got |-> {}]
      BY <1>1, <1>2, <1>10, <2>2, <2>8 DEF SelectInbox, UidNext, Asleep
    <3>2. cursor[2] < next[2]
      BY <1>4, <2>2, <2>8
    <3>3. /\ Lists' /\ Valid(cursor)' /\ Behind(cursor)' = Behind(cursor) /\ Ahead(cursor)' = Ahead(cursor)
          /\ Valid(poll.next)'
          /\ Arrived' = Arrived /\ gone' = gone /\ quoted' = quoted /\ protocol' = protocol
          /\ validity' = validity
      <4>1. PICK c : c = cursor
        OBVIOUS
      <4>2. Valid(cursor)' = Valid(c)' /\ Behind(cursor)' = Behind(c)' /\ Ahead(cursor)' = Ahead(c)'
        BY <1>3, <4>1 DEF Valid, Behind, Ahead, Created
      <4>3. Valid(poll.next)' = Valid(next)'
        BY <3>1 DEF Valid
      <4>4. QED
        BY <1>3, <1>5, <4>1, <4>2, <4>3, StillThere DEF CursorKept, PollerTypes
    <3>4. Held' = {} /\ Held = {}
      BY <1>3, <3>1 DEF Held, CursorKept, PollerTypes
    <3>5. next \in Places
      BY <1>5, PlaceFacts DEF CursorKept
    <3>6. PollerTypes'
      BY <1>3, <2>2, <2>3, <3>1, <3>3, <3>4, <3>5 DEF CursorKept, PollerTypes
    <3>7. Counts'
      BY <1>3, <2>3, <2>6, <3>1, <3>3, <3>4 DEF CursorKept, Counts
    <3>8. NextPlace'
      BY <1>3, <1>4, <2>2, <3>1, <3>2, <3>3 DEF NextPlace
    <3>9. QED
      BY <3>3, <3>6, <3>7, <3>8 DEF CursorKept
  <2>9. QED
    BY <2>7, <2>8
<1>11. QED
  BY <1>9, <1>10

\* The greatest of some numbers.
LEMMA GreatestFacts ==
  ASSUME NEW n \in Nat, NEW S \in SUBSET (1..n), S # {}
  PROVE  Greatest(S) \in S /\ \A x \in S : x <= Greatest(S)
<1>1. Max(S) \in S /\ \A x \in S : x <= Max(S)
  BY MaxProperties
<1>2. QED
  BY <1>1 DEF Greatest

\* UID FETCH: everything that is there from the cursor on, but for quoted text.
LEMMA UidFetchKeeps ==
  ASSUME CursorKept, UidFetch
  PROVE  CursorKept'
<1>1. PICK n \in Nat : n = Len(uids) /\ DOMAIN uids = 1..n
  BY DEF CursorKept, Lists
<1>2. /\ poll.pc = "fetch" /\ protocol = "imap" /\ cursor # <<>> /\ poll.next # <<>>
      /\ cursor[1] = validity /\ poll.next[1] = validity /\ cursor[2] < poll.next[2]
      /\ UNCHANGED <<provider, cursor, routed, before, missed, faults>>
  BY DEF UidFetch, CursorKept, NextPlace
<1>3. PICK k \in Nat : cursor = <<validity, k>> /\ k >= 1 /\ k <= n + 1
  BY <1>1, <1>2 DEF CursorKept, PollerTypes, Valid
<1>4. PICK p \in Nat : poll.next = <<validity, p>> /\ p >= 1 /\ p <= n + 1
  BY <1>1, <1>2 DEF CursorKept, PollerTypes, Valid
<1>5. cursor[1] = validity /\ cursor[2] = k /\ poll.next[2] = p /\ k < p
  BY <1>2, <1>3, <1>4
<1>6. PICK new : new = Taken({u \in Listed : u >= k})
  OBVIOUS
<1>7. new = {u \in 1..n : uids[u] \notin gone /\ u >= k /\ uids[u] \notin quoted}
  BY <1>1, <1>5, <1>6 DEF Taken, Listed
<1>8. PICK ends : ends = {p} \cup {u + 1 : u \in new}
  OBVIOUS
<1>9. ends \subseteq 1..(n + 1) /\ ends # {} /\ p \in ends /\ \A u \in new : u + 1 \in ends
  <2>1. \A u \in 1..n : u + 1 \in 1..(n + 1)
    OBVIOUS
  <2>2. p \in 1..(n + 1)
    BY <1>4
  <2>3. QED
    BY <1>7, <1>8, <2>1, <2>2
<1>10. PICK g : g = Greatest(ends)
  OBVIOUS
<1>11. g \in ends /\ \A x \in ends : x <= g
  <2>1. n + 1 \in Nat
    OBVIOUS
  <2>2. QED
    BY <1>9, <1>10, <2>1, GreatestFacts
<1>12. g \in Nat /\ g >= 1 /\ g <= n + 1 /\ k < g
  BY <1>5, <1>9, <1>11
<1>13. \A u \in new : u < g
  BY <1>7, <1>9, <1>11, <1>12
<1>14. PICK next, got : next = <<validity, g>> /\ got = {uids[u] : u \in new}
  OBVIOUS
<1>15. poll' = [pc |-> "hand", next |-> next, todo |-> {}, got |-> got]
  BY <1>5, <1>6, <1>8, <1>10, <1>14 DEF UidFetch, Got, Asleep
<1>16. next[1] = validity /\ next[2] = g /\ next # <<>>
  BY <1>14
<1>17. Valid(next)
  <2>1. validity \in Nat /\ validity <= validity
    BY DEF CursorKept, Lists
  <2>2. g <= Len(uids) + 1
    BY <1>1, <1>12
  <2>3. QED
    BY <1>2, <1>12, <1>14, <2>1, <2>2 DEF Valid
<1>18. /\ Behind(next) = {uids[u] : u \in {w \in 1..n : w < g}}
       /\ Ahead(next) = {uids[u] : u \in {w \in 1..n : w >= g}}
  BY <1>1, <1>2, <1>16 DEF Behind, Ahead
<1>19. /\ Behind(cursor) = {uids[u] : u \in {w \in 1..n : w < k}}
       /\ Ahead(cursor) = {uids[u] : u \in {w \in 1..n : w >= k}}
  BY <1>1, <1>2, <1>5 DEF Behind, Ahead
<1>20. \A w \in 1..n : (w >= g => w >= k) /\ (w < k \/ w >= k) /\ ~(w < g /\ w >= g)
  BY <1>12
<1>21. Ahead(next) \subseteq Ahead(cursor) /\ got \subseteq Ahead(cursor)
  BY <1>7, <1>14, <1>18, <1>19, <1>20
<1>22. got \subseteq Arrived
  BY <1>1, <1>7, <1>14 DEF CursorKept, Lists
<1>23. Ahead(next) \cap got = {}
  <2>1. \A u, v \in 1..n : uids[u] = uids[v] => u = v
    BY <1>1 DEF CursorKept, Lists
  <2>2. ASSUME NEW m \in Ahead(next), m \in got PROVE FALSE
    <3>1. PICK u \in 1..n : u >= g /\ m = uids[u]
      BY <1>18, <2>2
    <3>2. PICK v \in new : m = uids[v]
      BY <1>14, <2>2
    <3>3. u = v
      BY <1>7, <2>1, <3>1, <3>2
    <3>4. QED
      BY <1>13, <1>20, <3>1, <3>2, <3>3
  <2>3. QED
    BY <2>2
<1>24. Behind(next) \subseteq Behind(cursor) \cup gone \cup quoted \cup got
  BY <1>7, <1>14, <1>18, <1>19, <1>20
<1>25. Cover' = Cover
  BY <1>2, StillThere DEF Cover
<1>26. PICK none \in SUBSET Arrived : none = {}
  OBVIOUS
<1>27. poll' = [pc |-> "hand", next |-> next, todo |-> none, got |-> got]
  BY <1>15, <1>26
<1>28. Behind(next) \subseteq Cover' \cup none \cup got
  <2>1. Behind(cursor) \subseteq Cover /\ gone \subseteq Cover /\ quoted \subseteq Cover
    BY <1>2 DEF CursorKept, Counts, Cover
  <2>2. QED
    BY <1>24, <1>25, <2>1
<1>29. before \subseteq Arrived /\ before' = before /\ missed' = missed
  BY <1>2 DEF CursorKept, PollerTypes
<1>30. none \cup got = got
  BY <1>26
<1>31. QED
  BY <1>2, <1>16, <1>17, <1>21, <1>22, <1>23, <1>26, <1>27, <1>28, <1>29, <1>30, SetOut

\* A mail is handed to route.
LEMMA RouteMailKeeps ==
  ASSUME CursorKept, NEW m, RouteMail(m)
  PROVE  CursorKept'
<1>1. /\ poll.pc = "hand" /\ m \in poll.got /\ m \in Held
      /\ poll' = [poll EXCEPT !.got = @ \ {m}] /\ routed' = [routed EXCEPT ![m] = @ + 1]
      /\ UNCHANGED <<provider, cursor, before, missed, faults>>
  BY DEF RouteMail, Held
<1>2. Arrived \subseteq 1..MaxMails
  BY MailboxAssumption DEF CursorKept, Lists, Arrived
<1>3. m \in Arrived /\ m \in 1..MaxMails
  BY <1>1, <1>2 DEF CursorKept, PollerTypes
<1>4. /\ poll'.pc = "hand" /\ poll'.next = poll.next /\ poll'.todo = {} /\ poll.todo = {}
      /\ poll'.got = poll.got \ {m}
      /\ poll' \in [pc : {"asleep", "download", "fetch", "hand"}, next : Places,
                    todo : SUBSET Arrived, got : SUBSET Arrived]
  BY <1>1 DEF CursorKept, PollerTypes
<1>5. Held' = Held \ {m} /\ cursor # <<>>
  BY <1>1, <1>4 DEF Held, CursorKept, PollerTypes
<1>6. PICK r, d : r = routed[m] /\ d = faults.deaths
  OBVIOUS
<1>7. r \in Nat /\ d \in Nat /\ r <= d /\ m \notin before
  BY <1>1, <1>3, <1>6 DEF CursorKept, PollerTypes, Counts, Fresh
<1>8. r + 1 \in Nat /\ r + 1 <= d + 1 /\ r + 1 > 0
  BY <1>7
<1>9. /\ routed' \in [1..MaxMails -> Nat] /\ routed'[m] = r + 1
      /\ \A x \in 1..MaxMails : x # m => routed'[x] = routed[x]
  BY <1>1, <1>3, <1>6, <1>8 DEF CursorKept, PollerTypes
<1>10. /\ Lists' /\ Valid(cursor)' /\ Behind(cursor)' = Behind(cursor) /\ Ahead(cursor)' = Ahead(cursor)
       /\ Valid(poll.next)' /\ Behind(poll.next)' = Behind(poll.next)
       /\ Ahead(poll.next)' = Ahead(poll.next)
       /\ Arrived' = Arrived /\ gone' = gone /\ quoted' = quoted /\ protocol' = protocol
  <2>1. PICK c, n : c = cursor /\ n = poll.next
    OBVIOUS
  <2>2. /\ Valid(cursor)' = Valid(c)' /\ Behind(cursor)' = Behind(c)' /\ Ahead(cursor)' = Ahead(c)'
        /\ Valid(poll.next)' = Valid(n)' /\ Behind(poll.next)' = Behind(n)'
        /\ Ahead(poll.next)' = Ahead(n)'
    BY <1>1, <1>4, <2>1 DEF Valid, Behind, Ahead, Created
  <2>3. QED
    BY <1>1, <2>1, <2>2, StillThere DEF CursorKept, PollerTypes
<1>11. PollerTypes'
  BY <1>1, <1>4, <1>5, <1>9, <1>10 DEF CursorKept, PollerTypes
<1>12. \A x \in Arrived : x # m => routed'[x] = routed[x]
  BY <1>2, <1>9
<1>13. Cover \cup {m} \subseteq Cover'
  BY <1>1, <1>3, <1>8, <1>9, <1>10, <1>12 DEF Cover
<1>14. Held \subseteq Arrived /\ before \subseteq Arrived
  BY DEF CursorKept, PollerTypes, Held
<1>15. \A x \in Arrived : x # m => (Fresh(x)' <=> Fresh(x))
  BY <1>1, <1>12 DEF Fresh
<1>16. Counts'
  <2>1. \A x \in 1..MaxMails : /\ routed'[x] <= faults'.deaths + 1
                               /\ x \notin Arrived' \/ cursor' = <<>> => routed'[x] = 0
    BY <1>1, <1>3, <1>5, <1>6, <1>8, <1>9, <1>10 DEF CursorKept, Counts
  <2>2. \A x \in Held' : Fresh(x)'
    BY <1>5, <1>14, <1>15 DEF CursorKept, Counts
  <2>3. \A x \in before' : routed'[x] = 0
    BY <1>1, <1>7, <1>12, <1>14 DEF CursorKept, Counts
  <2>4. QED
    BY <1>1, <1>4, <1>10, <1>13, <2>1, <2>2, <2>3 DEF CursorKept, Counts
<1>17. NextPlace'
  <2>1. /\ poll.next # <<>> /\ Behind(poll.next) \subseteq Cover \cup Held
        /\ \A x \in Ahead(poll.next) : Fresh(x) /\ x \notin Held
    BY <1>1 DEF CursorKept, NextPlace
  <2>2. Ahead(poll.next) \subseteq Arrived
    BY PlaceFacts DEF CursorKept, PollerTypes
  <2>3. \A x \in Ahead(poll.next) : Fresh(x)' /\ x \notin Held'
    BY <1>1, <1>5, <1>15, <2>1, <2>2
  <2>4. Behind(poll.next) \subseteq Cover' \cup Held'
    BY <1>5, <1>13, <2>1
  <2>5. QED
    BY <1>4, <1>10, <2>1, <2>3, <2>4 DEF NextPlace
<1>18. QED
  BY <1>10, <1>11, <1>16, <1>17 DEF CursorKept

\* The cursor is logged: the poller holds nothing any more.
LEMMA RecordKeeps ==
  ASSUME CursorKept, RecordPollState
  PROVE  CursorKept'
<1>1. PICK n : n = poll.next
  OBVIOUS
<1>2. /\ poll.pc = "hand" /\ poll.got = {} /\ cursor' = n /\ poll' = Asleep
      /\ UNCHANGED <<provider, routed, before, missed, faults>>
  BY <1>1 DEF RecordPollState
<1>3. Held = {} /\ Held' = {}
  BY <1>2 DEF Held, Asleep, CursorKept, PollerTypes
<1>4. /\ n # <<>> /\ Behind(n) \subseteq Cover /\ \A m \in Ahead(n) : Fresh(m)
  BY <1>1, <1>2, <1>3 DEF CursorKept, NextPlace
<1>5. /\ Lists' /\ Valid(cursor)' /\ Behind(cursor)' = Behind(n) /\ Ahead(cursor)' = Ahead(n)
      /\ Arrived' = Arrived /\ gone' = gone /\ quoted' = quoted /\ protocol' = protocol
  <2>1. Valid(cursor)' = Valid(n)' /\ Behind(cursor)' = Behind(n)' /\ Ahead(cursor)' = Ahead(n)'
    BY <1>2 DEF Valid, Behind, Ahead, Created
  <2>2. QED
    BY <1>1, <1>2, <2>1, StillThere DEF CursorKept, PollerTypes
<1>6. Valid(poll.next)' /\ poll'.next = <<>> /\ poll'.pc = "asleep" /\ poll'.todo = {} /\ poll'.got = {}
  BY <1>2 DEF Valid, Asleep
<1>7. PollerTypes'
  BY <1>2, <1>3, <1>4, <1>5, <1>6 DEF CursorKept, PollerTypes, Asleep, Places
<1>8. Cover' = Cover
  BY <1>2, <1>5 DEF Cover
<1>9. Counts'
  BY <1>2, <1>3, <1>4, <1>5, <1>6, <1>8 DEF CursorKept, Counts, Fresh
<1>10. NextPlace'
  BY <1>6 DEF NextPlace
<1>11. QED
  BY <1>5, <1>7, <1>9, <1>10 DEF CursorKept

\* The cursor is exact for any number of mails and faults and any window of changes:
\* what was there at first is never taken in, what else the cursor has passed was
\* handed over unless it was deleted or its text quoted, and nothing is handed over
\* again but by a death before the cursor was logged.
THEOREM CursorIsExact == MailboxSpec => []CursorExact
<1>1. CursorKept => CursorExact
  <2> SUFFICES ASSUME CursorKept PROVE CursorExact
    OBVIOUS
  <2>1. Passed = Behind(cursor)
    BY DEF Passed, Behind, Created
  <2>2. Behind(cursor) \subseteq Cover
    BY DEF CursorKept, Counts
  <2>3. \A m \in Passed : \/ m \in before \cup missed \cup gone
                          \/ protocol = "imap" /\ m \in quoted
                          \/ routed[m] > 0
    BY <2>1, <2>2 DEF Cover
  <2>4. \A m \in before : routed[m] = 0
    BY DEF CursorKept, Counts
  <2>5. Arrived \subseteq 1..MaxMails
    BY MailboxAssumption DEF CursorKept, Lists, Arrived
  <2>6. faults.deaths \in Nat /\ \A m \in Arrived : routed[m] \in Nat /\ routed[m] <= faults.deaths + 1
    BY <2>5 DEF CursorKept, PollerTypes, Counts
  <2>7. \A m \in Arrived : routed[m] <= 1 + faults.deaths
    BY <2>6
  <2>8. QED
    BY <2>3, <2>4, <2>7 DEF CursorExact
<1>2. CursorKept /\ [MailboxNext]_mailboxVars => CursorKept'
  <2> SUFFICES ASSUME CursorKept, [MailboxNext]_mailboxVars PROVE CursorKept'
    OBVIOUS
  <2>1. ASSUME NEW quotes \in BOOLEAN, Arrive(quotes) PROVE CursorKept'
    BY <2>1, ProviderKeeps
  <2>2. ASSUME NEW m \in 1..MaxMails, Expunge(m) PROVE CursorKept'
    BY <2>2, ProviderKeeps
  <2>3. CASE Renumber
    BY <2>3, ProviderKeeps
  <2>4. ASSUME NEW m \in 1..MaxMails, Download(m) PROVE CursorKept'
    BY <2>4, DownloadKeeps
  <2>5. ASSUME NEW m \in 1..MaxMails, RouteMail(m) PROVE CursorKept'
    BY <2>5, RouteMailKeeps
  <2>6. CASE MailState
    BY <2>6, MailStateKeeps
  <2>7. CASE EmailChanges
    BY <2>7, EmailChangesKeeps
  <2>8. CASE Downloaded
    BY <2>8, DownloadedKeeps
  <2>9. CASE SelectInbox
    BY <2>9, SelectInboxKeeps
  <2>10. CASE UidFetch
    BY <2>10, UidFetchKeeps
  <2>11. CASE FetchFails
    <3>1. /\ UNCHANGED <<provider, cursor, routed, before, missed>> /\ poll' = Asleep /\ poll.pc # "hand"
          /\ faults' = [faults EXCEPT !.all = @ + 1]
      BY <2>11 DEF FetchFails, Trouble
    <3>2. faults' \in [all : Nat, deaths : Nat] /\ faults'.deaths >= faults.deaths
      BY <3>1 DEF CursorKept, PollerTypes
    <3>3. QED
      BY <3>1, <3>2, GivenUp
  <2>12. CASE RecordPollState
    BY <2>12, RecordKeeps
  <2>13. CASE PollerDies
    <3>1. /\ UNCHANGED <<provider, cursor, routed, before, missed>> /\ poll' = Asleep
          /\ faults' = [all |-> faults.all + 1, deaths |-> faults.deaths + 1]
      BY <2>13 DEF PollerDies
    <3>2. /\ faults' \in [all : Nat, deaths : Nat] /\ faults'.deaths >= faults.deaths
          /\ faults'.deaths = faults.deaths + 1
      BY <3>1 DEF CursorKept, PollerTypes
    <3>3. QED
      BY <3>1, <3>2, GivenUp
  <2>14. CASE UNCHANGED mailboxVars
    <3>1. /\ UNCHANGED provider /\ cursor' = cursor /\ poll' = poll /\ routed' = routed
          /\ before' = before /\ missed' = missed /\ faults' = faults
      BY <2>14 DEF mailboxVars, provider
    <3>2. PICK c, n : c = cursor /\ n = poll.next
      OBVIOUS
    <3>3. /\ Valid(cursor)' = Valid(c)' /\ Behind(cursor)' = Behind(c)' /\ Ahead(cursor)' = Ahead(c)'
          /\ Valid(poll.next)' = Valid(n)' /\ Behind(poll.next)' = Behind(n)'
          /\ Ahead(poll.next)' = Ahead(n)'
      BY <3>1, <3>2 DEF Valid, Behind, Ahead, Created
    <3>4. /\ Lists' /\ Valid(cursor)' /\ Behind(cursor)' = Behind(cursor) /\ Ahead(cursor)' = Ahead(cursor)
          /\ Valid(poll.next)' /\ Behind(poll.next)' = Behind(poll.next)
          /\ Ahead(poll.next)' = Ahead(poll.next)
          /\ Arrived' = Arrived /\ gone' = gone /\ quoted' = quoted
          /\ protocol' = protocol /\ validity' = validity
      BY <3>1, <3>2, <3>3, StillThere DEF CursorKept, PollerTypes
    <3>5. Held' = Held /\ Cover' = Cover /\ \A x : Fresh(x)' <=> Fresh(x)
      BY <3>1, <3>4 DEF Held, Cover, Fresh
    <3>6. PollerTypes'
      BY <3>1, <3>4, <3>5 DEF CursorKept, PollerTypes
    <3>7. Counts'
      BY <3>1, <3>4, <3>5 DEF CursorKept, Counts
    <3>8. NextPlace'
      BY <3>1, <3>4, <3>5 DEF CursorKept, NextPlace
    <3>9. QED
      BY <3>4, <3>6, <3>7, <3>8 DEF CursorKept
  <2>15. QED
    BY <2>1, <2>2, <2>3, <2>4, <2>5, <2>6, <2>7, <2>8, <2>9, <2>10, <2>11, <2>12, <2>13, <2>14
       DEF MailboxNext
<1>3. QED
  BY <1>1, <1>2, CursorInit, PTL DEF MailboxSpec
-----------------------------------------------------------------------------
(***************************************************************************)
(* The credential Codex runs on.                                           *)
(***************************************************************************)
Auths == {None} \cup (Nat \X Nat)
TabSteps == {"idle", "save", "delete", "connect", "poll", "disconnect", "setSent", "removedSent",
             "started", "closing", "polled", "signOut"}
TabType == [pc : TabSteps, grant : Nat, next : {"idle", "signOut"}]
SignInType == [pc : {"none", "runs", "exited", "failed", "read", "stored", "ok"},
               home : BOOLEAN, closed : BOOLEAN]
TurnType == [pc : {"idle", "spawns", "runs", "changed", "refreshes", "wrote"},
             before : Auths, token : Auths]
HomeType == [there : BOOLEAN, auth : Auths]

CodexTypes ==
  /\ vault \in Auths /\ held \in Nat /\ doubt \in BOOLEAN
  /\ signin \in [Grants -> SignInType] /\ tab \in [Tabs -> TabType]
  /\ turn \in [CodexTasks -> TurnType] /\ home \in [CodexTasks -> HomeType]
  /\ used \in [grants : Nat, turns : Nat, requests : Nat, deaths : Nat]

\* The writes of the vault that are yet to be recorded, and what they made of it.
TabsAt(pc) == {b \in Tabs : tab[b].pc = pc}
SignInsStored == {g \in Grants : signin[g].pc = "stored"}
TurnsWrote == {t \in CodexTasks : turn[t].pc = "wrote"}
Sets == {<<"tab", b>> : b \in TabsAt("setSent")} \cup {<<"signin", g>> : g \in SignInsStored}
        \cup {<<"turn", t>> : t \in TurnsWrote}
Removals == {<<"tab", b>> : b \in TabsAt("removedSent")}

\* Out of doubt one write at most is unrecorded, and it is the vault's last.
Trail ==
  ~doubt => /\ \A x, y \in Sets \cup Removals : x = y
            /\ Sets # {} => Connected
            /\ Removals # {} => ~Connected
            /\ Sets \cup Removals = {} => (Connected <=> trail = "set")

\* A grant that is yet to be given has no sign-in, and what a turn carries is a token.
Unused ==
  /\ \A g \in Grants : g > used.grants => signin[g].pc = "none"
  /\ \A t \in CodexTasks : turn[t].pc \in {"changed", "refreshes"} => turn[t].token # None

\* A home that is the vault's stays so, or what codex rotated there is on its way.
Homes ==
  \A t \in own :
    /\ t \in CodexTasks /\ Connected
    /\ turn[t].pc \in {"idle", "spawns", "wrote"} => vault = home[t].auth
    /\ turn[t].pc = "runs" => turn[t].before = vault /\ home[t].auth # None
    /\ turn[t].pc \in {"changed", "refreshes"} => turn[t].token = home[t].auth

\* Whose home is there.
Housed ==
  /\ begun \subseteq CodexTasks /\ finished \subseteq CodexTasks /\ removing \subseteq finished
  /\ \A t \in begun \ finished : home[t].there
  /\ \A t \in finished \ (removing \cup stray) : ~booting => ~home[t].there

SignedIn == CodexTypes /\ Trail /\ Unused /\ Homes /\ Housed

\* What is not recorded yet are the sets and the removals under way.
LEMMA UnrecordedIs == Unrecorded = {} <=> Sets \cup Removals = {}
<1>1. Unrecorded = {} <=> /\ \A b \in Tabs : tab[b].pc \notin {"setSent", "removedSent"}
                          /\ \A g \in Grants : signin[g].pc # "stored"
                          /\ \A t \in CodexTasks : turn[t].pc # "wrote"
  BY DEF Unrecorded
<1>2. Sets = {} <=> /\ \A b \in Tabs : tab[b].pc # "setSent"
                    /\ \A g \in Grants : signin[g].pc # "stored"
                    /\ \A t \in CodexTasks : turn[t].pc # "wrote"
  BY DEF Sets, TabsAt, SignInsStored, TurnsWrote
<1>3. Removals = {} <=> \A b \in Tabs : tab[b].pc # "removedSent"
  BY DEF Removals, TabsAt
<1>4. QED
  BY <1>1, <1>2, <1>3

\* A tab's request, a sign-in or a turn goes on, and the others stay where they are.
Goes(S, T, x, there) == T = IF there THEN S \cup {x} ELSE S \ {x}

\* A request of a tab that goes on changes no other write under way.
LEMMA TabMoves ==
  ASSUME CodexTypes, NEW b \in Tabs, NEW new, tab' = [tab EXCEPT ![b] = new], turn' = turn,
         SignInsStored' = SignInsStored
  PROVE  /\ Goes(Sets, Sets', <<"tab", b>>, new.pc = "setSent")
         /\ Goes(Removals, Removals', <<"tab", b>>, new.pc = "removedSent")
<1>1. /\ Goes(TabsAt("setSent"), TabsAt("setSent")', b, new.pc = "setSent")
      /\ Goes(TabsAt("removedSent"), TabsAt("removedSent")', b, new.pc = "removedSent")
  BY DEF Goes, TabsAt, CodexTypes
<1>2. TurnsWrote' = TurnsWrote
  BY DEF TurnsWrote
<1>3. PICK S, T, R, Q, s, w : /\ S = TabsAt("setSent") /\ T = TabsAt("setSent")'
                              /\ R = TabsAt("removedSent") /\ Q = TabsAt("removedSent")'
                              /\ s = SignInsStored /\ w = TurnsWrote
  OBVIOUS
<1>4. /\ Sets = {<<"tab", x>> : x \in S} \cup {<<"signin", x>> : x \in s} \cup {<<"turn", x>> : x \in w}
      /\ Sets' = {<<"tab", x>> : x \in T} \cup {<<"signin", x>> : x \in s} \cup {<<"turn", x>> : x \in w}
      /\ Removals = {<<"tab", x>> : x \in R} /\ Removals' = {<<"tab", x>> : x \in Q}
  BY <1>2, <1>3 DEF Sets, Removals
<1>5. Goes(S, T, b, new.pc = "setSent") /\ Goes(R, Q, b, new.pc = "removedSent")
  BY <1>1, <1>3
<1>6. Goes(Sets, Sets', <<"tab", b>>, new.pc = "setSent")
  BY <1>4, <1>5 DEF Goes
<1>7. Goes(Removals, Removals', <<"tab", b>>, new.pc = "removedSent")
  BY <1>4, <1>5 DEF Goes
<1>8. QED
  BY <1>6, <1>7

\* A sign-in that goes on changes no other write under way.
LEMMA SignInMoves ==
  ASSUME CodexTypes, NEW g \in Grants, NEW pc, signin' = [signin EXCEPT ![g].pc = pc],
         UNCHANGED <<tab, turn>>
  PROVE  Goes(Sets, Sets', <<"signin", g>>, pc = "stored") /\ Removals' = Removals
<1>1. Goes(SignInsStored, SignInsStored', g, pc = "stored")
  BY DEF Goes, SignInsStored, CodexTypes, SignInType
<1>2. TurnsWrote' = TurnsWrote /\ \A p : TabsAt(p)' = TabsAt(p)
  BY DEF TurnsWrote, TabsAt
<1>3. PICK S, T, s, w : /\ S = SignInsStored /\ T = SignInsStored'
                        /\ s = TabsAt("setSent") /\ w = TurnsWrote
  OBVIOUS
<1>4. /\ Sets = {<<"tab", x>> : x \in s} \cup {<<"signin", x>> : x \in S} \cup {<<"turn", x>> : x \in w}
      /\ Sets' = {<<"tab", x>> : x \in s} \cup {<<"signin", x>> : x \in T} \cup {<<"turn", x>> : x \in w}
  BY <1>2, <1>3 DEF Sets
<1>5. Goes(S, T, g, pc = "stored")
  BY <1>1, <1>3
<1>6. Goes(Sets, Sets', <<"signin", g>>, pc = "stored")
  BY <1>4, <1>5 DEF Goes
<1>7. QED
  BY <1>2, <1>6 DEF Removals

\* A turn that goes on changes no other write under way.
LEMMA TurnMoves ==
  ASSUME CodexTypes, NEW t \in CodexTasks, NEW new, turn' = [turn EXCEPT ![t] = new],
         UNCHANGED <<tab, signin>>
  PROVE  Goes(Sets, Sets', <<"turn", t>>, new.pc = "wrote") /\ Removals' = Removals
<1>1. Goes(TurnsWrote, TurnsWrote', t, new.pc = "wrote")
  BY DEF Goes, TurnsWrote, CodexTypes
<1>2. SignInsStored' = SignInsStored /\ \A p : TabsAt(p)' = TabsAt(p)
  BY DEF SignInsStored, TabsAt
<1>3. PICK S, T, s, w : /\ S = TurnsWrote /\ T = TurnsWrote'
                        /\ s = TabsAt("setSent") /\ w = SignInsStored
  OBVIOUS
<1>4. /\ Sets = {<<"tab", x>> : x \in s} \cup {<<"signin", x>> : x \in w} \cup {<<"turn", x>> : x \in S}
      /\ Sets' = {<<"tab", x>> : x \in s} \cup {<<"signin", x>> : x \in w} \cup {<<"turn", x>> : x \in T}
  BY <1>2, <1>3 DEF Sets
<1>5. Goes(S, T, t, new.pc = "wrote")
  BY <1>1, <1>3
<1>6. Goes(Sets, Sets', <<"turn", t>>, new.pc = "wrote")
  BY <1>4, <1>5 DEF Goes
<1>7. QED
  BY <1>2, <1>6 DEF Removals

\* The trail when nothing is written, when something is, and when that is recorded.
LEMMA TrailStays ==
  ASSUME Trail, UNCHANGED <<vault, doubt, trail>>, Sets' = Sets, Removals' = Removals
  PROVE  Trail'
BY DEF Trail, Connected

\* A write of the vault, when out of doubt, is the only one not recorded, and its last.
LEMMA TrailWritten ==
  ASSUME Trail, doubt' = (Unrecorded # {}), NEW w,
         \/ vault' # None /\ Sets' = Sets \cup {w} /\ Removals' = Removals
         \/ vault' = None /\ Removals' = Removals \cup {w} /\ Sets' = Sets
  PROVE  Trail'
<1> SUFFICES ASSUME ~doubt' PROVE Trail'
  BY DEF Trail
<1>1. Sets = {} /\ Removals = {}
  BY UnrecordedIs
<1>2. QED
  BY <1>1 DEF Trail, Connected

\* Recording a write makes the trail say what the vault's last write was.
LEMMA TrailRecorded ==
  ASSUME Trail, UNCHANGED <<vault, doubt>>, NEW w,
         \/ w \in Sets /\ trail' = "set"
         \/ w \in Removals /\ trail' = "removed",
         Sets' \subseteq Sets, Removals' \subseteq Removals, w \notin Sets' \cup Removals'
  PROVE  Trail'
<1> SUFFICES ASSUME ~doubt' PROVE Trail'
  BY DEF Trail
<1>1. /\ \A x, y \in Sets \cup Removals : x = y
      /\ Sets # {} => Connected
      /\ Removals # {} => ~Connected
  BY DEF Trail
<1>2. Sets' = {} /\ Removals' = {}
  BY <1>1
<1>3. Connected' <=> trail' = "set"
  BY <1>1 DEF Connected
<1>4. QED
  BY <1>2, <1>3 DEF Trail

\* Where each kind of writer stands when its write is not recorded yet.
LEMMA WriterIn ==
  /\ \A b \in Tabs : /\ <<"tab", b>> \in Sets <=> tab[b].pc = "setSent"
                     /\ <<"tab", b>> \in Removals <=> tab[b].pc = "removedSent"
  /\ \A g \in Grants : <<"signin", g>> \in Sets <=> signin[g].pc = "stored"
  /\ \A t \in CodexTasks : <<"turn", t>> \in Sets <=> turn[t].pc = "wrote"
BY DEF Sets, Removals, TabsAt, SignInsStored, TurnsWrote

\* A request goes on and writes nothing.
LEMMA QuietTab ==
  ASSUME SignedIn, NEW b \in Tabs, NEW new \in TabType, tab' = [tab EXCEPT ![b] = new],
         tab[b].pc \notin {"setSent", "removedSent"}, new.pc \notin {"setSent", "removedSent"},
         held' \in Nat, signin' \in [Grants -> SignInType], SignInsStored' = SignInsStored,
         used' \in [grants : Nat, turns : Nat, requests : Nat, deaths : Nat],
         \A g \in Grants : g > used'.grants => signin'[g].pc = "none",
         UNCHANGED <<secret, trail, tasks>>
  PROVE  SignedIn'
<1>1. /\ vault' = vault /\ doubt' = doubt /\ own' = own /\ trail' = trail /\ turn' = turn
      /\ home' = home /\ begun' = begun /\ finished' = finished /\ removing' = removing
      /\ booting' = booting /\ stray' = stray
  BY DEF secret, tasks
<1>2. CodexTypes'
  BY <1>1 DEF SignedIn, CodexTypes
<1>3. Sets' = Sets /\ Removals' = Removals
  <2>1. PICK w : w = <<"tab", b>>
    OBVIOUS
  <2>2. w \notin Sets /\ w \notin Removals
    BY <2>1, WriterIn
  <2>3. Goes(Sets, Sets', w, new.pc = "setSent") /\ Goes(Removals, Removals', w, new.pc = "removedSent")
    BY <1>1, <2>1, TabMoves DEF SignedIn
  <2>4. QED
    BY <2>2, <2>3 DEF Goes
<1>4. Trail'
  BY <1>1, <1>3, TrailStays DEF SignedIn
<1>5. Unused' /\ Homes' /\ Housed'
  BY <1>1 DEF SignedIn, Unused, Homes, Housed, Connected
<1>6. QED
  BY <1>2, <1>4, <1>5 DEF SignedIn

\* A request that a tab makes keeps the invariant.
LEMMA RequestKeeps ==
  ASSUME SignedIn, NEW b \in Tabs,
         NEW pc \in {"save", "delete", "connect", "poll", "disconnect"}, Request(b, pc)
  PROVE  SignedIn'
<1>1. PICK new : new = [NoRequest EXCEPT !.pc = pc]
  OBVIOUS
<1>2. /\ tab[b].pc = "idle" /\ tab' = [tab EXCEPT ![b] = new] /\ signin' = signin /\ held' = held
      /\ used' = [used EXCEPT !.requests = @ + 1] /\ UNCHANGED <<secret, trail, tasks>>
  BY <1>1 DEF Request
<1>3. new \in TabType /\ new.pc = pc
  BY <1>1 DEF NoRequest, TabType, TabSteps
<1>4. /\ used' \in [grants : Nat, turns : Nat, requests : Nat, deaths : Nat]
      /\ used'.grants = used.grants
  BY <1>2 DEF SignedIn, CodexTypes
<1>5. /\ signin' \in [Grants -> SignInType] /\ held' \in Nat /\ SignInsStored' = SignInsStored
      /\ \A g \in Grants : g > used'.grants => signin'[g].pc = "none"
  BY <1>2, <1>4 DEF SignedIn, CodexTypes, Unused, SignInsStored
<1>6. QED
  BY <1>2, <1>3, <1>4, <1>5, QuietTab

\* A request asks and goes on: nothing but the tab and the sign-in that is held.
LEMMA AsksKeeps ==
  ASSUME SignedIn, NEW b \in Tabs,
         \/ SetPending(b) \/ SignInTimesOut(b) \/ PollCodex(b) \/ Polled(b)
         \/ DisconnectCodex(b) \/ SignOut(b)
  PROVE  SignedIn'
<1>1. UNCHANGED <<secret, trail, signin, tasks, used>> /\ held' \in {held, tab[b].grant, 0}
  BY DEF SetPending, SignInTimesOut, PollCodex, Polled, DisconnectCodex, SignOut, ClearPending
<1>2. tab[b] \in TabType /\ held \in Nat
  BY DEF SignedIn, CodexTypes
<1>3. tab[b].pc \notin {"setSent", "removedSent"}
  BY DEF SetPending, SignInTimesOut, PollCodex, Polled, DisconnectCodex, SignOut, TabAt
<1>4. PICK new \in TabType : /\ tab' = [tab EXCEPT ![b] = new]
                             /\ new.pc \notin {"setSent", "removedSent"}
  <2>1. \A pc \in TabSteps : [tab[b] EXCEPT !.pc = pc] \in TabType /\ [tab[b] EXCEPT !.pc = pc].pc = pc
    BY <1>2 DEF TabType
  <2>2. NoRequest \in TabType /\ NoRequest.pc = "idle"
    BY DEF NoRequest, TabType, TabSteps
  <2>3. \A next \in {"idle", "signOut"} :
          [pc |-> "closing", grant |-> held, next |-> next] \in TabType
    BY <1>2 DEF TabType, TabSteps
  <2>4. ASSUME NEW pc \in TabSteps \ {"setSent", "removedSent"}, TabGoes(b, pc)
        PROVE  \E n \in TabType : /\ tab' = [tab EXCEPT ![b] = n]
                                  /\ n.pc \notin {"setSent", "removedSent"}
    <3>1. tab' = [tab EXCEPT ![b] = [tab[b] EXCEPT !.pc = pc]]
      BY <2>4 DEF TabGoes
    <3>2. QED
      BY <2>1, <2>4, <3>1
  <2>5. ASSUME Answers(b)
        PROVE  \E n \in TabType : /\ tab' = [tab EXCEPT ![b] = n]
                                  /\ n.pc \notin {"setSent", "removedSent"}
    BY <2>2, <2>5 DEF Answers
  <2>6. CASE SetPending(b)
    BY <2>3, <2>6 DEF SetPending
  <2>7. CASE SignInTimesOut(b)
    BY <2>4, <2>7 DEF SignInTimesOut, TabSteps
  <2>8. CASE PollCodex(b)
    BY <2>4, <2>5, <2>8 DEF PollCodex, TabSteps
  <2>9. CASE Polled(b)
    BY <2>3, <2>9 DEF Polled, ClearPending
  <2>10. CASE DisconnectCodex(b)
    BY <2>3, <2>10 DEF DisconnectCodex, ClearPending
  <2>11. CASE SignOut(b)
    BY <2>4, <2>5, <2>11 DEF SignOut, TabSteps
  <2>12. QED
    BY <2>6, <2>7, <2>8, <2>9, <2>10, <2>11
<1>5. held' \in Nat
  BY <1>1, <1>2 DEF TabType
<1>6. /\ signin' \in [Grants -> SignInType] /\ SignInsStored' = SignInsStored
      /\ used' \in [grants : Nat, turns : Nat, requests : Nat, deaths : Nat]
      /\ \A g \in Grants : g > used'.grants => signin'[g].pc = "none"
  BY <1>1 DEF SignedIn, CodexTypes, Unused, SignInsStored
<1>7. QED
  BY <1>1, <1>3, <1>4, <1>5, <1>6, QuietTab

\* A sign-in is begun.
LEMMA ConnectKeeps ==
  ASSUME SignedIn, NEW b \in Tabs, ConnectCodex(b)
  PROVE  SignedIn'
<1>1. PICK n : n = used.grants
  OBVIOUS
<1>2. n \in Nat /\ n + 1 \in Nat /\ held \in Nat
  BY <1>1 DEF SignedIn, CodexTypes
<1>3. tab[b].pc \notin {"setSent", "removedSent"} /\ UNCHANGED <<secret, trail, held, tasks>>
  BY DEF ConnectCodex, TabAt
<1>4. CASE /\ signin' = [signin EXCEPT ![n + 1] = [pc |-> "runs", home |-> TRUE, closed |-> FALSE]]
           /\ tab' = [tab EXCEPT ![b] = [pc |-> "started", grant |-> n + 1, next |-> "idle"]]
           /\ used' = [used EXCEPT !.grants = @ + 1]
  <2>1. PICK new : new = [pc |-> "started", grant |-> n + 1, next |-> "idle"]
    OBVIOUS
  <2>2. new \in TabType /\ new.pc = "started"
    BY <1>2, <2>1 DEF TabType, TabSteps
  <2>3. /\ signin' \in [Grants -> SignInType]
        /\ \A g \in Grants : signin'[g].pc = IF g = n + 1 THEN "runs" ELSE signin[g].pc
    BY <1>4 DEF SignedIn, CodexTypes, SignInType
  <2>4. \A g \in Grants : g > n => signin[g].pc = "none"
    BY <1>1 DEF SignedIn, Unused
  <2>5. n + 1 \in Grants => signin[n + 1].pc = "none"
    BY <1>2, <2>4
  <2>6. SignInsStored' = SignInsStored
    BY <2>3, <2>5 DEF SignInsStored
  <2>7. /\ used' \in [grants : Nat, turns : Nat, requests : Nat, deaths : Nat]
        /\ used'.grants = n + 1
    BY <1>1, <1>4 DEF SignedIn, CodexTypes
  <2>8. \A g \in Grants : g > used'.grants => signin'[g].pc = "none"
    <3>1. \A g \in Grants : g > n + 1 => g > n /\ g # n + 1
      BY <1>2 DEF Grants
    <3>2. QED
      BY <2>3, <2>4, <2>7, <3>1
  <2>9. QED
    BY <1>2, <1>3, <1>4, <2>1, <2>2, <2>3, <2>6, <2>7, <2>8, QuietTab
<1>5. CASE Answers(b) /\ UNCHANGED <<signin, used>>
  <2>1. NoRequest \in TabType /\ NoRequest.pc = "idle"
    BY DEF NoRequest, TabType, TabSteps
  <2>2. /\ signin' \in [Grants -> SignInType] /\ SignInsStored' = SignInsStored
        /\ used' \in [grants : Nat, turns : Nat, requests : Nat, deaths : Nat]
        /\ \A g \in Grants : g > used'.grants => signin'[g].pc = "none"
    BY <1>5 DEF SignedIn, CodexTypes, Unused, SignInsStored
  <2>3. QED
    BY <1>2, <1>3, <1>5, <2>1, <2>2, QuietTab DEF Answers
<1>6. QED
  BY <1>1, <1>4, <1>5 DEF ConnectCodex

\* A sign-in is closed: it may fail by that, but what it stored stays stored.
LEMMA CloseKeeps ==
  ASSUME SignedIn, NEW b \in Tabs, Close(b)
  PROVE  SignedIn'
<1>1. PICK new : new = [tab[b] EXCEPT !.pc = tab[b].next]
  OBVIOUS
<1>2. /\ tab' = [tab EXCEPT ![b] = new] /\ tab[b].pc = "closing"
      /\ UNCHANGED <<secret, trail, held, tasks, used>>
  BY <1>1 DEF Close, TabGoes, TabAt
<1>3. new \in TabType /\ new.pc \in {"idle", "signOut"} /\ held \in Nat
  BY <1>1 DEF SignedIn, CodexTypes, TabType, TabSteps
<1>4. /\ signin' \in [Grants -> SignInType]
      /\ \A g \in Grants : \/ signin'[g].pc = signin[g].pc
                           \/ signin[g].pc = "runs" /\ signin'[g].pc = "failed"
  <2>1. \A g \in Grants : signin[g] \in SignInType
    BY DEF SignedIn, CodexTypes
  <2>2. signin' = [g \in Grants |->
          IF g # tab[b].grant \/ signin[g].closed THEN signin[g]
          ELSE [pc |-> IF signin[g].pc = "runs" THEN "failed" ELSE signin[g].pc,
                home |-> FALSE, closed |-> TRUE]]
    BY DEF Close
  <2>3. QED
    BY <2>1, <2>2 DEF SignInType
<1>5. SignInsStored' = SignInsStored
  BY <1>4 DEF SignInsStored
<1>6. \A g \in Grants : g > used'.grants => signin'[g].pc = "none"
  BY <1>2, <1>4 DEF SignedIn, Unused
<1>7. used' \in [grants : Nat, turns : Nat, requests : Nat, deaths : Nat]
  BY <1>2 DEF SignedIn, CodexTypes
<1>8. QED
  BY <1>2, <1>3, <1>4, <1>5, <1>6, <1>7, QuietTab

\* The operator edits the vault under /secrets.
LEMMA SecretsKeep ==
  ASSUME SignedIn, NEW b \in Tabs, SaveSecret(b) \/ DeleteSecret(b)
  PROVE  SignedIn'
<1>1. PICK n : n = used.grants
  OBVIOUS
<1>2. n \in Nat /\ n + 1 \in Nat /\ tab[b] \in TabType /\ vault \in Auths
  BY <1>1 DEF SignedIn, CodexTypes
<1>3. tab[b].pc \in {"save", "delete"} /\ UNCHANGED <<trail, held, signin, tasks>>
  BY DEF SaveSecret, DeleteSecret, TabAt
<1>4. SignInsStored' = SignInsStored
  BY <1>3 DEF SignInsStored
<1>5. /\ used' \in [grants : Nat, turns : Nat, requests : Nat, deaths : Nat]
      /\ used'.grants \in {n, n + 1}
  BY <1>1, <1>2 DEF SaveSecret, DeleteSecret, SignedIn, CodexTypes
<1>6. \A g \in Grants : g > used'.grants => signin'[g].pc = "none"
  <2>1. \A g \in Grants : g > n + 1 => g > n
    BY <1>2 DEF Grants
  <2>2. QED
    BY <1>1, <1>3, <1>5, <2>1 DEF SignedIn, Unused
<1>7. CASE Answers(b) /\ UNCHANGED secret
  <2>1. NoRequest \in TabType /\ NoRequest.pc = "idle"
    BY DEF NoRequest, TabType, TabSteps
  <2>2. held' \in Nat /\ signin' \in [Grants -> SignInType]
    BY <1>3 DEF SignedIn, CodexTypes
  <2>3. QED
    BY <1>3, <1>4, <1>5, <1>6, <1>7, <2>1, <2>2, QuietTab DEF Answers
<1>8. ASSUME NEW c \in Auths, Store(c, {}), NEW pc \in {"setSent", "removedSent"}, TabGoes(b, pc),
             pc = "setSent" <=> c # None
      PROVE  SignedIn'
  <2>1. PICK new : new = [tab[b] EXCEPT !.pc = pc]
    OBVIOUS
  <2>2. new \in TabType /\ new.pc = pc /\ tab' = [tab EXCEPT ![b] = new]
    BY <1>2, <1>8, <2>1 DEF TabType, TabSteps, TabGoes
  <2>3. /\ vault' = c /\ doubt' = (Unrecorded # {}) /\ own' = {} /\ trail' = trail /\ held' = held
        /\ turn' = turn /\ home' = home /\ signin' = signin /\ begun' = begun /\ finished' = finished
        /\ removing' = removing /\ booting' = booting /\ stray' = stray
    BY <1>3, <1>8 DEF Store, tasks
  <2>4. CodexTypes'
    BY <1>5, <1>8, <2>2, <2>3 DEF SignedIn, CodexTypes
  <2>5. PICK w : w = <<"tab", b>>
    OBVIOUS
  <2>6. w \notin Sets /\ w \notin Removals
    BY <1>3, <2>5, WriterIn
  <2>7. Goes(Sets, Sets', w, pc = "setSent") /\ Goes(Removals, Removals', w, pc = "removedSent")
    BY <1>4, <2>2, <2>3, <2>5, TabMoves DEF SignedIn
  <2>8. \/ vault' # None /\ Sets' = Sets \cup {w} /\ Removals' = Removals
        \/ vault' = None /\ Removals' = Removals \cup {w} /\ Sets' = Sets
    BY <1>8, <2>3, <2>6, <2>7 DEF Goes
  <2>9. Trail'
    BY <2>3, <2>8, TrailWritten DEF SignedIn
  <2>10. Unused' /\ Homes' /\ Housed'
    BY <1>6, <2>3 DEF SignedIn, Unused, Homes, Housed
  <2>11. QED
    BY <2>4, <2>9, <2>10 DEF SignedIn
<1>9. Credential(n + 1) \in Auths /\ Credential(n + 1) # None /\ None \in Auths
  BY <1>2 DEF Credential, Auths, None
<1>10. QED
  BY <1>1, <1>7, <1>8, <1>9 DEF SaveSecret, DeleteSecret

\* A write of the vault is recorded.
LEMMA RecordsKeeps ==
  ASSUME SignedIn, NEW b \in Tabs, Records(b)
  PROVE  SignedIn'
<1>1. /\ tab[b].pc \in {"setSent", "removedSent"} /\ tab' = [tab EXCEPT ![b] = NoRequest]
      /\ trail' = (IF tab[b].pc = "setSent" THEN "set" ELSE "removed")
      /\ vault' = vault /\ doubt' = doubt /\ own' = own /\ held' = held /\ signin' = signin
      /\ turn' = turn /\ home' = home /\ begun' = begun /\ finished' = finished
      /\ removing' = removing /\ booting' = booting /\ stray' = stray /\ used' = used
  BY DEF Records, Answers, TabAt, secret, tasks
<1>2. NoRequest \in TabType /\ NoRequest.pc = "idle"
  BY DEF NoRequest, TabType, TabSteps
<1>3. CodexTypes'
  BY <1>1, <1>2 DEF SignedIn, CodexTypes
<1>4. PICK w : w = <<"tab", b>>
  OBVIOUS
<1>5. \/ w \in Sets /\ trail' = "set"
      \/ w \in Removals /\ trail' = "removed"
  BY <1>1, <1>4, WriterIn
<1>6. SignInsStored' = SignInsStored
  BY <1>1 DEF SignInsStored
<1>7. Goes(Sets, Sets', w, FALSE) /\ Goes(Removals, Removals', w, FALSE)
  <2>1. Goes(Sets, Sets', w, NoRequest.pc = "setSent") /\ Goes(Removals, Removals', w, NoRequest.pc = "removedSent")
    BY <1>1, <1>4, <1>6, TabMoves DEF SignedIn
  <2>2. QED
    BY <1>2, <2>1 DEF Goes
<1>8. Sets' \subseteq Sets /\ Removals' \subseteq Removals /\ w \notin Sets' \cup Removals'
  BY <1>7 DEF Goes
<1>9. Trail'
  BY <1>1, <1>5, <1>8, TrailRecorded DEF SignedIn
<1>10. Unused' /\ Homes' /\ Housed'
  BY <1>1 DEF SignedIn, Unused, Homes, Housed, Connected
<1>11. QED
  BY <1>3, <1>9, <1>10 DEF SignedIn

\* A sign-in goes on: by itself it writes nothing but what it harvests.
LEMMA SignInKeeps ==
  ASSUME SignedIn, NEW g \in Grants,
         ProcessExits(g) \/ ReadAuth(g) \/ Harvest(g) \/ Harvested(g)
  PROVE  SignedIn'
<1>1. /\ held' = held /\ tab' = tab /\ turn' = turn /\ home' = home /\ begun' = begun
      /\ finished' = finished /\ removing' = removing /\ booting' = booting /\ stray' = stray
      /\ used' = used
  BY DEF ProcessExits, ReadAuth, Harvest, Harvested, elsewhere, tasks
<1>2. PICK w : w = <<"signin", g>>
  OBVIOUS
<1>3. w \in Sets <=> signin[g].pc = "stored"
  BY <1>2, WriterIn
<1>4. signin[g].pc \in {"runs", "exited", "read", "stored"}
  BY DEF ProcessExits, ReadAuth, Harvest, Harvested
<1>5. ASSUME NEW pc \in {"runs", "exited", "failed", "read", "stored", "ok"}, Stands(g, pc)
      PROVE  /\ signin' \in [Grants -> SignInType] /\ Unused'
             /\ Goes(Sets, Sets', w, pc = "stored") /\ Removals' = Removals
  <2>1. signin' = [signin EXCEPT ![g].pc = pc]
    BY <1>5 DEF Stands
  <2>2. /\ signin' \in [Grants -> SignInType]
        /\ \A h \in Grants : h # g => signin'[h] = signin[h]
    BY <2>1 DEF SignedIn, CodexTypes, SignInType
  <2>3. Unused'
    BY <1>1, <1>4, <2>2 DEF SignedIn, Unused
  <2>4. QED
    BY <1>1, <1>2, <2>1, <2>2, <2>3, SignInMoves DEF SignedIn
<1>6. ASSUME UNCHANGED <<secret, trail>>,
             Stands(g, "exited") \/ Stands(g, "failed") \/ Stands(g, "read"), signin[g].pc # "stored"
      PROVE  SignedIn'
  <2>1. /\ signin' \in [Grants -> SignInType] /\ Unused' /\ Goes(Sets, Sets', w, FALSE)
        /\ Removals' = Removals
    BY <1>5, <1>6 DEF Goes
  <2>2. Sets' = Sets
    BY <1>3, <1>6, <2>1 DEF Goes
  <2>3. vault' = vault /\ doubt' = doubt /\ own' = own /\ trail' = trail
    BY <1>6 DEF secret
  <2>4. Trail'
    BY <2>1, <2>2, <2>3, TrailStays DEF SignedIn
  <2>5. CodexTypes'
    BY <1>1, <2>1, <2>3 DEF SignedIn, CodexTypes
  <2>6. Homes' /\ Housed'
    BY <1>1, <2>3 DEF SignedIn, Homes, Housed, Connected
  <2>7. QED
    BY <2>1, <2>4, <2>5, <2>6 DEF SignedIn
<1>7. ASSUME Store(Credential(g), {}), Stands(g, "stored"), trail' = trail, signin[g].pc # "stored"
      PROVE  SignedIn'
  <2>1. /\ signin' \in [Grants -> SignInType] /\ Unused' /\ Sets' = Sets \cup {w}
        /\ Removals' = Removals
    BY <1>5, <1>7 DEF Goes
  <2>2. vault' = Credential(g) /\ doubt' = (Unrecorded # {}) /\ own' = {}
    BY <1>7 DEF Store
  <2>3. Credential(g) \in Auths /\ Credential(g) # None
    BY DEF Grants, Credential, Auths, None
  <2>4. Trail'
    BY <2>1, <2>2, <2>3, TrailWritten DEF SignedIn
  <2>5. CodexTypes'
    BY <1>1, <2>1, <2>2, <2>3 DEF SignedIn, CodexTypes
  <2>6. Homes' /\ Housed'
    BY <1>1, <2>2 DEF SignedIn, Homes, Housed
  <2>7. QED
    BY <2>1, <2>4, <2>5, <2>6 DEF SignedIn
<1>8. CASE Harvested(g)
  <2>1. signin[g].pc = "stored" /\ Stands(g, "ok") /\ trail' = "set" /\ vault' = vault /\ doubt' = doubt
        /\ own' = own
    BY <1>8 DEF Harvested, secret
  <2>2. /\ signin' \in [Grants -> SignInType] /\ Unused' /\ Sets' = Sets \ {w}
        /\ Removals' = Removals
    BY <1>5, <2>1 DEF Goes
  <2>3. w \in Sets /\ w \notin Removals
    BY <1>2, <1>3, <2>1 DEF Removals
  <2>4. Sets' \subseteq Sets /\ Removals' \subseteq Removals /\ w \notin Sets' \cup Removals'
    BY <2>2, <2>3
  <2>5. Trail'
    BY <2>1, <2>3, <2>4, TrailRecorded DEF SignedIn
  <2>6. CodexTypes'
    BY <1>1, <2>1, <2>2 DEF SignedIn, CodexTypes
  <2>7. Homes' /\ Housed'
    BY <1>1, <2>1 DEF SignedIn, Homes, Housed, Connected
  <2>8. QED
    BY <2>2, <2>5, <2>6, <2>7 DEF SignedIn
<1>9. QED
  BY <1>6, <1>7, <1>8 DEF ProcessExits, ReadAuth, Harvest, elsewhere

\* A turn goes on and writes nothing: the trail stands.
LEMMA QuietTurn ==
  ASSUME SignedIn, NEW t \in CodexTasks, NEW new, turn' = [turn EXCEPT ![t] = new],
         turn[t].pc # "wrote", new.pc # "wrote", UNCHANGED <<tab, signin, vault, doubt, trail>>
  PROVE  Trail'
<1>1. PICK w : w = <<"turn", t>>
  OBVIOUS
<1>2. w \notin Sets
  BY <1>1, WriterIn
<1>3. Goes(Sets, Sets', w, new.pc = "wrote") /\ Removals' = Removals
  BY <1>1, TurnMoves DEF SignedIn
<1>4. Sets' = Sets
  BY <1>2, <1>3 DEF Goes
<1>5. QED
  BY <1>3, <1>4, TrailStays DEF SignedIn

\* A turn is given its home and the vault's credential.
LEMMA MaterializeKeeps ==
  ASSUME SignedIn, NEW t \in CodexTasks, Materialize(t)
  PROVE  SignedIn'
<1>1. PICK new, there : /\ new = [turn[t] EXCEPT !.pc = "spawns"]
                        /\ there = [there |-> TRUE,
                                    auth |-> IF Connected THEN vault
                                             ELSE IF HostLogin THEN Credential(HostGrant)
                                             ELSE home[t].auth]
  OBVIOUS
<1>2. /\ turn[t].pc = "idle" /\ home' = [home EXCEPT ![t] = there]
      /\ own' = (IF Connected THEN own \cup {t} ELSE own \ {t})
      /\ stray' = (IF t \in finished THEN stray \cup {t} ELSE stray)
      /\ begun' = begun \cup {t} /\ turn' = [turn EXCEPT ![t] = new]
      /\ used' = [used EXCEPT !.turns = @ + 1]
      /\ vault' = vault /\ doubt' = doubt /\ trail' = trail /\ held' = held /\ signin' = signin
      /\ tab' = tab /\ finished' = finished /\ removing' = removing /\ booting' = booting
  BY <1>1 DEF Materialize, TurnAt, TurnGoes
<1>3. turn[t] \in TurnType /\ home[t] \in HomeType /\ vault \in Auths
  BY DEF SignedIn, CodexTypes
<1>4. new \in TurnType /\ new.pc = "spawns"
  BY <1>1, <1>3 DEF TurnType
<1>5. Credential(HostGrant) \in Auths
  BY DEF Credential, HostGrant, Auths
<1>6. there \in HomeType /\ there.there = TRUE /\ (Connected => there.auth = vault)
  BY <1>1, <1>3, <1>5 DEF HomeType
<1>7. used' \in [grants : Nat, turns : Nat, requests : Nat, deaths : Nat] /\ used'.grants = used.grants
  BY <1>2 DEF SignedIn, CodexTypes
<1>8. CodexTypes'
  BY <1>2, <1>4, <1>6, <1>7 DEF SignedIn, CodexTypes
<1>9. Trail'
  BY <1>2, <1>4, QuietTurn
<1>10. turn'[t] = new /\ home'[t] = there
       /\ \A s \in CodexTasks : s # t => turn'[s] = turn[s] /\ home'[s] = home[s]
  BY <1>2 DEF SignedIn, CodexTypes
<1>11. Unused'
  BY <1>2, <1>4, <1>7, <1>10 DEF SignedIn, Unused
<1>12. Homes'
  BY <1>2, <1>4, <1>6, <1>10 DEF SignedIn, Homes, Connected
<1>13. Housed'
  BY <1>2, <1>6, <1>10 DEF SignedIn, Housed
<1>14. QED
  BY <1>8, <1>9, <1>11, <1>12, <1>13 DEF SignedIn

\* A turn is run, and its end seen to, up to the write of the vault.
LEMMA TurnKeeps ==
  ASSUME SignedIn, NEW t \in CodexTasks,
         Spawn(t) \/ Rotate(t) \/ Finalize(t) \/ StillConnected(t)
  PROVE  SignedIn'
<1>1. /\ vault' = vault /\ doubt' = doubt /\ own' = own /\ trail' = trail /\ stray' = stray
      /\ used' = used /\ held' = held /\ signin' = signin /\ tab' = tab /\ begun' = begun
      /\ finished' = finished /\ removing' = removing /\ booting' = booting
  BY DEF Spawn, Rotate, Finalize, StillConnected, secret, around
<1>2. turn[t] \in TurnType /\ home[t] \in HomeType
  BY DEF SignedIn, CodexTypes
<1>3. NoTurn \in TurnType /\ NoTurn.pc = "idle"
  BY DEF NoTurn, TurnType, Auths
<1>4. t \in own => /\ Connected
                   /\ turn[t].pc \in {"idle", "spawns", "wrote"} => vault = home[t].auth
                   /\ turn[t].pc = "runs" => turn[t].before = vault /\ home[t].auth # None
                   /\ turn[t].pc \in {"changed", "refreshes"} => turn[t].token = home[t].auth
  BY DEF SignedIn, Homes
<1>5. ASSUME NEW new \in TurnType, turn' = [turn EXCEPT ![t] = new], home' = home,
             turn[t].pc # "wrote", new.pc # "wrote",
             new.pc \in {"changed", "refreshes"} => new.token # None,
             t \in own => /\ new.pc \in {"idle", "spawns"} => vault = home[t].auth
                          /\ new.pc = "runs" => new.before = vault /\ home[t].auth # None
                          /\ new.pc \in {"changed", "refreshes"} => new.token = home[t].auth
      PROVE  SignedIn'
  <2>1. Trail'
    BY <1>1, <1>5, QuietTurn
  <2>2. turn'[t] = new /\ \A s \in CodexTasks : s # t => turn'[s] = turn[s]
    BY <1>5 DEF SignedIn, CodexTypes
  <2>3. CodexTypes'
    BY <1>1, <1>5 DEF SignedIn, CodexTypes
  <2>4. Unused' /\ Housed'
    BY <1>1, <1>5, <2>2 DEF SignedIn, Unused, Housed
  <2>5. Homes'
    BY <1>1, <1>5, <2>2 DEF SignedIn, Homes, Connected
  <2>6. QED
    BY <2>1, <2>3, <2>4, <2>5 DEF SignedIn
<1>6. CASE Spawn(t)
  <2>1. PICK new : new = [pc |-> "runs", before |-> home[t].auth, token |-> None]
    OBVIOUS
  <2>2. new \in TurnType /\ new.pc = "runs" /\ new.before = home[t].auth
    BY <1>2, <2>1 DEF TurnType, HomeType, Auths
  <2>3. turn[t].pc = "spawns" /\ turn' = [turn EXCEPT ![t] = new] /\ home' = home
    BY <1>6, <2>1 DEF Spawn, TurnAt
  <2>4. QED
    BY <1>4, <1>5, <2>2, <2>3 DEF Connected
<1>7. CASE Finalize(t)
  <2>1. turn[t].pc = "runs" /\ home' = home
    BY <1>7 DEF Finalize, TurnAt
  <2>2. CASE home[t].auth = None \/ home[t].auth = turn[t].before
    <3>1. turn' = [turn EXCEPT ![t] = NoTurn]
      BY <1>7, <2>2 DEF Finalize, Ends
    <3>2. t \in own => vault = home[t].auth
      BY <1>4, <2>1, <2>2
    <3>3. QED
      BY <1>3, <1>5, <2>1, <3>1, <3>2
  <2>3. CASE ~(home[t].auth = None \/ home[t].auth = turn[t].before)
    <3>1. PICK new : new = [turn[t] EXCEPT !.pc = "changed", !.token = home[t].auth]
      OBVIOUS
    <3>2. new \in TurnType /\ new.pc = "changed" /\ new.token = home[t].auth
      BY <1>2, <3>1 DEF TurnType, HomeType
    <3>3. turn' = [turn EXCEPT ![t] = new]
      BY <1>7, <2>3, <3>1 DEF Finalize
    <3>4. QED
      BY <1>5, <2>1, <2>3, <3>2, <3>3
  <2>4. QED
    BY <2>2, <2>3
<1>8. CASE StillConnected(t)
  <2>1. turn[t].pc = "changed" /\ home' = home
    BY <1>8 DEF StillConnected, TurnAt
  <2>2. CASE Connected
    <3>1. PICK new : new = [turn[t] EXCEPT !.pc = "refreshes"]
      OBVIOUS
    <3>2. new \in TurnType /\ new.pc = "refreshes" /\ new.token = turn[t].token
      BY <1>2, <3>1 DEF TurnType
    <3>3. turn' = [turn EXCEPT ![t] = new]
      BY <1>8, <2>2, <3>1 DEF StillConnected, TurnGoes
    <3>4. turn[t].token # None
      BY <2>1 DEF SignedIn, Unused
    <3>5. QED
      BY <1>4, <1>5, <2>1, <3>2, <3>3, <3>4
  <2>3. CASE ~Connected
    <3>1. turn' = [turn EXCEPT ![t] = NoTurn]
      BY <1>8, <2>3 DEF StillConnected, Ends
    <3>2. QED
      BY <1>3, <1>4, <1>5, <2>1, <2>3, <3>1
  <2>4. QED
    BY <2>2, <2>3
<1>9. CASE Rotate(t)
  <2>1. PICK there : there = [home[t] EXCEPT !.auth = Rotated(home[t].auth)]
    OBVIOUS
  <2>2. turn[t].pc = "runs" /\ home[t].auth # None /\ turn' = turn /\ home' = [home EXCEPT ![t] = there]
    BY <1>9, <2>1 DEF Rotate, TurnAt
  <2>3. Rotated(home[t].auth) \in Auths /\ Rotated(home[t].auth) # None
    <3>1. home[t].auth \in Nat \X Nat
      BY <1>2, <2>2 DEF HomeType, Auths
    <3>2. QED
      BY <3>1 DEF Rotated, Auths, None
  <2>4. there \in HomeType /\ there.there = home[t].there /\ there.auth # None
    BY <1>2, <2>1, <2>3 DEF HomeType
  <2>5. home'[t] = there /\ \A s \in CodexTasks : s # t => home'[s] = home[s]
    BY <2>2 DEF SignedIn, CodexTypes
  <2>6. CodexTypes'
    BY <1>1, <2>2, <2>4 DEF SignedIn, CodexTypes
  <2>7. Sets' = Sets /\ Removals' = Removals
    BY <1>1, <2>2 DEF Sets, Removals, TabsAt, SignInsStored, TurnsWrote
  <2>8. Trail'
    BY <1>1, <2>7, TrailStays DEF SignedIn
  <2>9. Unused'
    BY <1>1, <2>2 DEF SignedIn, Unused
  <2>10. Homes'
    BY <1>1, <2>2, <2>4, <2>5 DEF SignedIn, Homes, Connected
  <2>11. Housed'
    BY <1>1, <2>4, <2>5 DEF SignedIn, Housed
  <2>12. QED
    BY <2>6, <2>8, <2>9, <2>10, <2>11 DEF SignedIn
<1>10. QED
  BY <1>6, <1>7, <1>8, <1>9

\* What codex rotated is written back, and recorded.
LEMMA RefreshKeeps ==
  ASSUME SignedIn, NEW t \in CodexTasks, Refresh(t) \/ Refreshed(t)
  PROVE  SignedIn'
<1>1. /\ stray' = stray /\ home' = home
      /\ used' = used /\ held' = held /\ signin' = signin /\ tab' = tab /\ begun' = begun
      /\ finished' = finished /\ removing' = removing /\ booting' = booting
  BY DEF Refresh, Refreshed, around
<1>2. turn[t] \in TurnType /\ home[t] \in HomeType
  BY DEF SignedIn, CodexTypes
<1>3. NoTurn \in TurnType /\ NoTurn.pc = "idle"
  BY DEF NoTurn, TurnType, Auths
<1>4. PICK w : w = <<"turn", t>>
  OBVIOUS
<1>5. w \in Sets <=> turn[t].pc = "wrote"
  BY <1>4, WriterIn
<1>6. CASE Refresh(t) /\ Store(turn[t].token, {t}) /\ TurnGoes(t, "wrote")
  <2>1. PICK new, token : new = [turn[t] EXCEPT !.pc = "wrote"] /\ token = turn[t].token
    OBVIOUS
  <2>2. /\ turn[t].pc = "refreshes" /\ turn' = [turn EXCEPT ![t] = new] /\ trail' = trail
        /\ vault' = token /\ doubt' = (Unrecorded # {}) /\ own' = own \cap {t}
    BY <1>6, <2>1 DEF Refresh, TurnAt, TurnGoes, Store
  <2>3. new \in TurnType /\ new.pc = "wrote" /\ token \in Auths
    BY <1>2, <2>1 DEF TurnType
  <2>4. token # None
    BY <2>1, <2>2 DEF SignedIn, Unused
  <2>5. Goes(Sets, Sets', w, new.pc = "wrote") /\ Removals' = Removals
    BY <1>1, <1>4, <2>2, TurnMoves DEF SignedIn
  <2>6. Sets' = Sets \cup {w}
    BY <2>3, <2>5 DEF Goes
  <2>7. Trail'
    BY <2>2, <2>4, <2>5, <2>6, TrailWritten DEF SignedIn
  <2>8. turn'[t] = new /\ \A s \in CodexTasks : s # t => turn'[s] = turn[s]
    BY <2>2 DEF SignedIn, CodexTypes
  <2>9. CodexTypes'
    BY <1>1, <2>2, <2>3 DEF SignedIn, CodexTypes
  <2>10. Unused' /\ Housed'
    BY <1>1, <2>3, <2>8 DEF SignedIn, Unused, Housed
  <2>11. Homes'
    BY <1>1, <2>1, <2>2, <2>3, <2>4, <2>8 DEF SignedIn, Homes, Connected
  <2>12. QED
    BY <2>7, <2>9, <2>10, <2>11 DEF SignedIn
<1>7. CASE Refresh(t) /\ Ends(t) /\ own' = own \ {t} /\ UNCHANGED <<vault, doubt, retired>>
  <2>1. turn[t].pc = "refreshes" /\ turn' = [turn EXCEPT ![t] = NoTurn] /\ trail' = trail
    BY <1>7 DEF Refresh, TurnAt, Ends
  <2>2. Trail'
    BY <1>1, <1>3, <1>7, <2>1, QuietTurn
  <2>3. turn'[t] = NoTurn /\ \A s \in CodexTasks : s # t => turn'[s] = turn[s]
    BY <2>1 DEF SignedIn, CodexTypes
  <2>4. CodexTypes'
    BY <1>1, <1>3, <1>7, <2>1 DEF SignedIn, CodexTypes
  <2>5. Unused' /\ Housed'
    BY <1>1, <1>3, <2>3 DEF SignedIn, Unused, Housed
  <2>6. Homes'
    BY <1>1, <1>7, <2>3 DEF SignedIn, Homes, Connected
  <2>7. QED
    BY <2>2, <2>4, <2>5, <2>6 DEF SignedIn
<1>8. CASE Refreshed(t)
  <2>1. /\ turn[t].pc = "wrote" /\ turn' = [turn EXCEPT ![t] = NoTurn] /\ trail' = "set"
        /\ vault' = vault /\ doubt' = doubt /\ own' = own
    BY <1>8 DEF Refreshed, TurnAt, Ends, secret
  <2>2. Goes(Sets, Sets', w, NoTurn.pc = "wrote") /\ Removals' = Removals
    BY <1>1, <1>4, <2>1, TurnMoves DEF SignedIn
  <2>3. Sets' = Sets \ {w}
    BY <1>3, <2>2 DEF Goes
  <2>4. w \in Sets /\ w \notin Removals
    BY <1>4, <1>5, <2>1 DEF Removals
  <2>5. Sets' \subseteq Sets /\ Removals' \subseteq Removals /\ w \notin Sets' \cup Removals'
    BY <2>2, <2>3, <2>4
  <2>6. Trail'
    BY <2>1, <2>4, <2>5, TrailRecorded DEF SignedIn
  <2>7. turn'[t] = NoTurn /\ \A s \in CodexTasks : s # t => turn'[s] = turn[s]
    BY <2>1 DEF SignedIn, CodexTypes
  <2>8. CodexTypes'
    BY <1>1, <1>3, <2>1 DEF SignedIn, CodexTypes
  <2>9. Unused' /\ Housed'
    BY <1>1, <1>3, <2>7 DEF SignedIn, Unused, Housed
  <2>10. Homes'
    BY <1>1, <1>3, <2>1, <2>7 DEF SignedIn, Homes, Connected
  <2>11. QED
    BY <2>6, <2>8, <2>9, <2>10 DEF SignedIn
<1>9. QED
  BY <1>6, <1>7, <1>8 DEF Refresh

\* Who is in the vault and on the way to the trail, when neither moves.
LEMMA NobodyWrites ==
  ASSUME SignedIn, UNCHANGED <<vault, doubt, trail, signin, tab, turn>>
  PROVE  Trail'
<1>1. Sets' = Sets /\ Removals' = Removals
  BY DEF Sets, Removals, TabsAt, SignInsStored, TurnsWrote
<1>2. QED
  BY <1>1, TrailStays DEF SignedIn

\* A task is finished, and its home goes or is kept.
LEMMA FinishKeeps ==
  ASSUME SignedIn, NEW t \in CodexTasks, FinishTask(t) \/ RemoveCodexHome(t)
  PROVE  SignedIn'
<1>1. /\ vault' = vault /\ doubt' = doubt /\ trail' = trail /\ held' = held /\ signin' = signin
      /\ tab' = tab /\ turn' = turn /\ begun' = begun /\ booting' = booting /\ used' = used
  BY DEF FinishTask, RemoveCodexHome, secret
<1>2. Trail'
  BY <1>1, NobodyWrites
<1>3. Unused'
  BY <1>1 DEF SignedIn, Unused
<1>4. CASE FinishTask(t)
  <2>1. /\ finished' = finished \cup {t} /\ removing' = removing \cup {t} /\ home' = home
        /\ own' = own /\ stray' = stray
    BY <1>4 DEF FinishTask, secret
  <2>2. CodexTypes' /\ Homes' /\ Housed'
    BY <1>1, <2>1 DEF SignedIn, CodexTypes, Homes, Housed, Connected
  <2>3. QED
    BY <1>2, <1>3, <2>2 DEF SignedIn
<1>5. CASE /\ RemoveCodexHome(t) /\ home' = [home EXCEPT ![t] = NoHome]
           /\ stray' = stray \ {t} /\ own' = own \ {t}
  <2>1. t \in removing /\ removing' = removing \ {t} /\ finished' = finished
    BY <1>5 DEF RemoveCodexHome
  <2>2. NoHome \in HomeType /\ ~NoHome.there
    BY DEF NoHome, HomeType, Auths
  <2>3. home'[t] = NoHome /\ \A s \in CodexTasks : s # t => home'[s] = home[s]
    BY <1>5 DEF SignedIn, CodexTypes
  <2>4. CodexTypes'
    BY <1>1, <1>5, <2>2 DEF SignedIn, CodexTypes
  <2>5. Homes'
    BY <1>1, <1>5, <2>3 DEF SignedIn, Homes, Connected
  <2>6. Housed'
    BY <1>1, <1>5, <2>1, <2>2, <2>3 DEF SignedIn, Housed
  <2>7. QED
    BY <1>2, <1>3, <2>4, <2>5, <2>6 DEF SignedIn
<1>6. CASE RemoveCodexHome(t) /\ stray' = stray \cup {t} /\ UNCHANGED <<home, own>>
  <2>1. t \in removing /\ removing' = removing \ {t} /\ finished' = finished
    BY <1>6 DEF RemoveCodexHome
  <2>2. CodexTypes' /\ Homes' /\ Housed'
    BY <1>1, <1>6, <2>1 DEF SignedIn, CodexTypes, Homes, Housed, Connected
  <2>3. QED
    BY <1>2, <1>3, <2>2 DEF SignedIn
<1>7. QED
  BY <1>4, <1>5, <1>6 DEF RemoveCodexHome

\* `kasi secret': the vault is written, and nothing is recorded.
LEMMA CommandLineKeeps ==
  ASSUME SignedIn, CommandLine
  PROVE  SignedIn'
<1>1. PICK n : n = used.grants
  OBVIOUS
<1>2. n \in Nat /\ n + 1 \in Nat
  BY <1>1 DEF SignedIn, CodexTypes
<1>3. /\ vault' = (IF Connected THEN None ELSE Credential(n + 1))
      /\ doubt' = TRUE /\ own' = {}
      /\ used' = [used EXCEPT !.requests = @ + 1, !.grants = IF Connected THEN @ ELSE @ + 1]
      /\ trail' = trail /\ held' = held /\ signin' = signin /\ tab' = tab /\ turn' = turn
      /\ home' = home /\ begun' = begun /\ finished' = finished /\ removing' = removing
      /\ booting' = booting /\ stray' = stray
  BY <1>1 DEF CommandLine, tasks
<1>4. vault' \in Auths
  BY <1>2, <1>3 DEF Credential, Auths
<1>5. /\ used' \in [grants : Nat, turns : Nat, requests : Nat, deaths : Nat]
      /\ used'.grants \in {n, n + 1}
  <2>1. used \in [grants : Nat, turns : Nat, requests : Nat, deaths : Nat]
    BY DEF SignedIn, CodexTypes
  <2>2. used.requests + 1 \in Nat
    BY <2>1
  <2>3. PICK r : r = used.requests + 1
    OBVIOUS
  <2>4. PICK m : m = n + 1
    OBVIOUS
  <2>5. r \in Nat /\ m \in Nat /\ n \in Nat
    BY <1>2, <2>2, <2>3, <2>4
  <2>6. CASE Connected
    <3>1. used' = [used EXCEPT !.requests = r]
      BY <1>1, <1>3, <2>1, <2>3, <2>6
    <3>2. QED
      BY <1>1, <2>1, <2>5, <3>1
  <2>7. CASE ~Connected
    <3>1. used' = [used EXCEPT !.requests = r, !.grants = m]
      BY <1>1, <1>3, <2>1, <2>3, <2>4, <2>7
    <3>2. used' \in [grants : Nat, turns : Nat, requests : Nat, deaths : Nat]
          /\ used'.grants = m
      BY <2>1, <2>5, <3>1
    <3>3. QED
      BY <2>4, <3>2
  <2>8. QED
    BY <2>6, <2>7
<1>6. CodexTypes'
  BY <1>3, <1>4, <1>5 DEF SignedIn, CodexTypes
<1>7. Unused'
  <2>1. \A g \in Grants : g > n + 1 => g > n
    BY <1>2 DEF Grants
  <2>2. QED
    BY <1>1, <1>3, <1>5, <2>1 DEF SignedIn, Unused
<1>8. Trail' /\ Homes' /\ Housed'
  BY <1>3 DEF SignedIn, Trail, Homes, Housed
<1>9. QED
  BY <1>6, <1>7, <1>8 DEF SignedIn

\* A death forgets the requests, the sign-ins and the turns.
LEMMA DeathKeeps ==
  ASSUME SignedIn, Death
  PROVE  SignedIn'
<1>1. /\ signin' = [g \in Grants |-> NoSignIn] /\ tab' = [b \in Tabs |-> NoRequest]
      /\ turn' = [t \in CodexTasks |-> NoTurn] /\ held' = 0
      /\ used' = [used EXCEPT !.deaths = @ + 1] /\ removing' = {} /\ booting' = TRUE
      /\ doubt' = (doubt \/ Unrecorded # {})
      /\ own' = {t \in own : turn[t].pc \in {"idle", "wrote"}}
      /\ vault' = vault /\ trail' = trail /\ home' = home /\ begun' = begun
      /\ finished' = finished /\ stray' = stray
  BY DEF Death
<1>2. /\ NoSignIn \in SignInType /\ NoSignIn.pc = "none" /\ NoRequest \in TabType
      /\ NoRequest.pc = "idle" /\ NoTurn \in TurnType /\ NoTurn.pc = "idle"
  BY DEF NoSignIn, SignInType, NoRequest, TabType, TabSteps, NoTurn, TurnType, Auths
<1>3. used' \in [grants : Nat, turns : Nat, requests : Nat, deaths : Nat]
  BY <1>1 DEF SignedIn, CodexTypes
<1>4. doubt' \in BOOLEAN
  BY <1>1 DEF SignedIn, CodexTypes
<1>5. CodexTypes'
  BY <1>1, <1>2, <1>3, <1>4 DEF SignedIn, CodexTypes
<1>6. Sets' = {} /\ Removals' = {}
  BY <1>1, <1>2 DEF Sets, Removals, TabsAt, SignInsStored, TurnsWrote
<1>7. Trail'
  <2> SUFFICES ASSUME ~doubt' PROVE Trail'
    BY DEF Trail
  <2>1. ~doubt /\ Sets \cup Removals = {}
    BY <1>1, UnrecordedIs
  <2>2. QED
    BY <1>1, <1>6, <2>1 DEF SignedIn, Trail, Connected
<1>8. Unused' /\ Homes' /\ Housed'
  BY <1>1, <1>2 DEF SignedIn, Unused, Homes, Housed, Connected
<1>9. QED
  BY <1>5, <1>7, <1>8 DEF SignedIn

\* The sweep at boot takes the homes of finished tasks.
LEMMA SweepKeeps ==
  ASSUME SignedIn, SweepCodexHomes
  PROVE  SignedIn'
<1>1. /\ home' = [t \in CodexTasks |-> IF t \in finished THEN NoHome ELSE home[t]]
      /\ own' = own \ finished /\ stray' = stray \ finished /\ booting' = FALSE
      /\ vault' = vault /\ doubt' = doubt /\ trail' = trail /\ held' = held /\ signin' = signin
      /\ tab' = tab /\ turn' = turn /\ begun' = begun /\ finished' = finished
      /\ removing' = removing /\ used' = used
  BY DEF SweepCodexHomes
<1>2. NoHome \in HomeType /\ ~NoHome.there
  BY DEF NoHome, HomeType, Auths
<1>3. CodexTypes'
  BY <1>1, <1>2 DEF SignedIn, CodexTypes
<1>4. Trail'
  BY <1>1, NobodyWrites
<1>5. Unused' /\ Homes' /\ Housed'
  BY <1>1, <1>2 DEF SignedIn, Unused, Homes, Housed, Connected
<1>6. QED
  BY <1>3, <1>4, <1>5 DEF SignedIn

\* Nobody is signed in at first.
LEMMA SignedInInit == CodexInit => SignedIn
<1> SUFFICES ASSUME CodexInit PROVE SignedIn
  OBVIOUS
<1>1. /\ NoSignIn \in SignInType /\ NoSignIn.pc = "none" /\ NoRequest \in TabType
      /\ NoRequest.pc = "idle" /\ NoTurn \in TurnType /\ NoTurn.pc = "idle" /\ NoHome \in HomeType
  BY DEF NoSignIn, SignInType, NoRequest, TabType, TabSteps, NoTurn, TurnType, NoHome, HomeType, Auths
<1>2. CodexTypes
  BY <1>1 DEF CodexInit, CodexTypes, Auths
<1>3. Sets = {} /\ Removals = {}
  BY <1>1 DEF CodexInit, Sets, Removals, TabsAt, SignInsStored, TurnsWrote
<1>4. Trail
  BY <1>3 DEF CodexInit, Trail, Connected
<1>5. Unused /\ Homes /\ Housed
  BY <1>1 DEF CodexInit, Unused, Homes, Housed
<1>6. QED
  BY <1>2, <1>4, <1>5 DEF SignedIn

\* The inductive invariant of the credential.
LEMMA SignedInStep == SignedIn /\ [CodexNext]_codexVars => SignedIn'
<1> SUFFICES ASSUME SignedIn, [CodexNext]_codexVars PROVE SignedIn'
  OBVIOUS
<1>1. ASSUME NEW b \in Tabs, NEW pc \in {"save", "delete", "connect", "poll", "disconnect"},
             Request(b, pc)
      PROVE  SignedIn'
  BY <1>1, RequestKeeps
<1>2. ASSUME NEW b \in Tabs, SaveSecret(b) \/ DeleteSecret(b) PROVE SignedIn'
  BY <1>2, SecretsKeep
<1>3. ASSUME NEW b \in Tabs, Records(b) PROVE SignedIn'
  BY <1>3, RecordsKeeps
<1>4. ASSUME NEW b \in Tabs, ConnectCodex(b) PROVE SignedIn'
  BY <1>4, ConnectKeeps
<1>5. ASSUME NEW b \in Tabs, Close(b) PROVE SignedIn'
  BY <1>5, CloseKeeps
<1>6. ASSUME NEW b \in Tabs, \/ SetPending(b) \/ SignInTimesOut(b) \/ PollCodex(b) \/ Polled(b)
                             \/ DisconnectCodex(b) \/ SignOut(b)
      PROVE  SignedIn'
  BY <1>6, AsksKeeps
<1>7. ASSUME NEW g \in Grants, ProcessExits(g) \/ ReadAuth(g) \/ Harvest(g) \/ Harvested(g)
      PROVE  SignedIn'
  BY <1>7, SignInKeeps
<1>8. ASSUME NEW t \in CodexTasks, Materialize(t) PROVE SignedIn'
  BY <1>8, MaterializeKeeps
<1>9. ASSUME NEW t \in CodexTasks, Spawn(t) \/ Rotate(t) \/ Finalize(t) \/ StillConnected(t)
      PROVE  SignedIn'
  BY <1>9, TurnKeeps
<1>10. ASSUME NEW t \in CodexTasks, Refresh(t) \/ Refreshed(t) PROVE SignedIn'
  BY <1>10, RefreshKeeps
<1>11. ASSUME NEW t \in CodexTasks, FinishTask(t) \/ RemoveCodexHome(t) PROVE SignedIn'
  BY <1>11, FinishKeeps
<1>12. CASE CommandLine
  BY <1>12, CommandLineKeeps
<1>13. CASE Death
  BY <1>13, DeathKeeps
<1>14. CASE SweepCodexHomes
  BY <1>14, SweepKeeps
<1>15. CASE UNCHANGED codexVars
  <2>1. Trail'
    BY <1>15, NobodyWrites DEF codexVars
  <2>2. CodexTypes' /\ Unused' /\ Homes' /\ Housed'
    BY <1>15 DEF codexVars, SignedIn, CodexTypes, Unused, Homes, Housed, Connected
  <2>3. QED
    BY <2>1, <2>2 DEF SignedIn
<1>16. QED
  BY <1>1, <1>2, <1>3, <1>4, <1>5, <1>6, <1>7, <1>8, <1>9, <1>10, <1>11, <1>12, <1>13, <1>14, <1>15
     DEF CodexNext

\* The audit trail tells whether the credential is there, for any number of tabs,
\* sign-ins and tasks, whatever fails or dies, unless writes overlapped, one lost its
\* record, or the command line made it.
THEOREM TrailFollows == CodexSpec => []AuditFollowsVault
<1>1. SignedIn => AuditFollowsVault
  BY UnrecordedIs DEF SignedIn, Trail, AuditFollowsVault
<1>2. QED
  BY <1>1, SignedInInit, SignedInStep, PTL DEF CodexSpec

\* A task's home is as good as the vault between turns, is there while the task goes
\* on, and goes with it.
THEOREM HomesAreFaithful == CodexSpec => []HomesFaithful
<1>1. SignedIn => HomesFaithful
  BY DEF SignedIn, Homes, Housed, HomesFaithful
<1>2. QED
  BY <1>1, SignedInInit, SignedInStep, PTL DEF CodexSpec

(***************************************************************************)
(* The rings of a scenario.                                                *)
(***************************************************************************)
TapeFile == {<<"note">>, <<"old">>} \cup {<<"mail", n>> : n \in Nat} \cup {<<"reply", n>> : n \in Nat}
TapedTurn == [in : SUBSET TapeFile, out : SUBSET TapeFile, manifest : SUBSET TapeFile,
             exit : {0, 1}, stopped : BOOLEAN]
WatchPc == {"off", "starts", "waits", "ended", "captured", "emitted", "over"}
LiveType == [launch : {"off", "owed", "over"}, watch : WatchPc, cancel : BOOLEAN,
             emitted : BOOLEAN, result : TapedTurn]
StimulusPc == {"idle", "settles", "polls", "takes", "offers", "handed"}
RunStatus == {"running", "stopping", "stopped", "finished"}

TapeTypes ==
  /\ ring \in {"sim", "live", "saving", "recorded", "failed"}
  /\ runs \in Seq(RunStatus) /\ Len(runs) <= MaxTapeRuns
  /\ entry \in 0..MaxTapeRuns
  /\ live \in [TapeRuns -> LiveType]
  /\ stimulus \in [pc : StimulusPc, run : 0..MaxTapeRuns, turn : TapedTurn]
  /\ box \in [in : SUBSET TapeFile, out : SUBSET TapeFile]
  /\ tape \in Seq(TapedTurn) /\ folder \in Seq(TapedTurn) /\ queue \in Seq(TapedTurn)
  /\ step \in Nat

\* The task has one running run at most, its last; what has a watcher is a run; only
\* somebody's turn under way or just settled has a run, in the rings that script turns.
LastRuns ==
  /\ Running \subseteq {Len(runs)}
  /\ \A r \in TapeRuns : live[r].watch # "off" => r \in DOMAIN runs
  /\ \A r \in TapeRuns : live[r].emitted => live[r].watch = "over"
  /\ stimulus.pc \in {"idle", "polls", "takes"} => stimulus.run = 0
  /\ stimulus.pc \in {"takes", "offers", "handed"} => ring \in {"sim", "recorded"}
  /\ ring = "saving" => stimulus.pc = "idle"

\* A running run has been launched, except while a stimulus settles.
Launched ==
  stimulus.pc # "settles" => \A r \in Running : live[r].launch = "over"

\* Nobody has taken the table's one place from the run that is launched, and its
\* watcher waits for the turn it is to be given.
Seated == 0 \notin odd =>
  \A r \in Running :
    /\ live[r].launch = "over" => entry = r
    /\ ~live[r].cancel
    /\ ring \in {"sim", "recorded"} /\ ~(stimulus.pc = "handed" /\ stimulus.run = r)
         => live[r].watch \in {"starts", "waits"}

\* The run that the turn is offered to is running, and what it was handed is its result.
Same(result, given) == result.exit = given.exit /\ result.manifest = given.manifest
GivenTurn == 0 \notin odd =>
  /\ stimulus.pc = "takes" => Running # {}
  /\ stimulus.pc = "offers" => stimulus.run \in Running
  /\ stimulus.pc = "handed" =>
       /\ stimulus.run \in DOMAIN runs /\ stimulus.run = Len(runs)
       /\ Same(live[stimulus.run].result, stimulus.turn) /\ ~live[stimulus.run].result.stopped
       /\ \/ live[stimulus.run].watch = "ended" /\ runs[stimulus.run] = "running"
          \/ live[stimulus.run].watch \in {"emitted", "over"} /\ runs[stimulus.run] = "finished"
  /\ stimulus.pc = "settles" /\ stimulus.run # 0 =>
       /\ stimulus.run \in DOMAIN runs /\ runs[stimulus.run] = "finished"
       /\ live[stimulus.run].watch = "over"
       /\ Same(live[stimulus.run].result, stimulus.turn)

SettledInv == TapeTypes /\ LastRuns /\ Launched /\ Seated /\ GivenTurn

\* The cassette is a first part of the tape, and what is queued the rest of it.

Wound ==
  /\ ~earlier => /\ Len(folder) <= Len(tape) /\ \A i \in DOMAIN folder : folder[i] = tape[i]
                 /\ ring \in {"sim", "live"} => folder = <<>>
                 /\ ring = "saving" => Len(folder) = step
  /\ ring = "recorded" =>
       /\ Len(queue) <= Len(folder)
       /\ \A i \in DOMAIN queue : queue[i] = folder[Len(folder) - Len(queue) + i]
       /\ stimulus.pc \in {"offers", "handed"} =>
            /\ Len(queue) < Len(folder)
            /\ stimulus.turn = folder[Len(folder) - Len(queue)]
            /\ stimulus.turn.in = box.in

\* A run the launcher has provisioned has an empty out/ until its turn is played.
Emptied == odd = {} /\ ring = "recorded" =>
  /\ stimulus.pc \notin {"offers", "handed"} =>
       \A r \in Running : live[r].launch = "over" => box.out = {}
  /\ stimulus.pc \in {"offers", "handed"} => box.out = stimulus.turn.out

\* A turn is a turn whatever fields the code sets.
LEMMA TapedTurns ==
  /\ NoResult \in TapedTurn /\ OldTurn \in TapedTurn /\ NotLive \in LiveType
  /\ Declared \in LiveType
  /\ \A in, out \in SUBSET TapeFile, exit \in {0, 1}, stopped \in BOOLEAN :
       Turn(in, out, out, exit, stopped) \in TapedTurn
<1>1. \A in, out \in SUBSET TapeFile, exit \in {0, 1}, stopped \in BOOLEAN :
        Turn(in, out, out, exit, stopped) \in TapedTurn
  BY DEF Turn, TapedTurn
<1>2. {<<"mail", 1>>} \in SUBSET TapeFile /\ {<<"old">>} \in SUBSET TapeFile /\ {} \in SUBSET TapeFile
  BY DEF TapeFile
<1>3. NoResult \in TapedTurn /\ OldTurn \in TapedTurn
  BY <1>1, <1>2 DEF NoResult, OldTurn
<1>4. NotLive \in LiveType
  BY <1>3 DEF NotLive, LiveType, WatchPc
<1>5. Declared \in LiveType
  BY <1>4 DEF Declared, LiveType, WatchPc
<1>6. QED
  BY <1>1, <1>3, <1>4, <1>5

\* What an agent leaves in the box are files.
LEMMA AgentTypes ==
  ASSUME box \in [in : SUBSET TapeFile, out : SUBSET TapeFile], NEW r \in Nat,
         NEW forgets \in BOOLEAN, NEW says \in BOOLEAN
  PROVE  Agent(r, forgets, says) \in [in : SUBSET TapeFile, out : SUBSET TapeFile]
<1>1. {<<"reply", r>>} \in SUBSET TapeFile
  BY DEF TapeFile
<1>2. QED
  BY <1>1 DEF Agent

\* The types hold of the state a scenario starts in.
LEMMA TapeTypesInit == TapeInit => TapeTypes
<1>1. SUFFICES ASSUME TapeInit PROVE TapeTypes
  OBVIOUS
<1>2. ring \in {"sim", "live"} /\ runs \in Seq(RunStatus) /\ Len(runs) = 0 /\ entry = 0
  BY <1>1 DEF TapeInit
<1>3. live \in [TapeRuns -> LiveType]
  BY <1>1, TapedTurns DEF TapeInit
<1>4. stimulus \in [pc : StimulusPc, run : 0..MaxTapeRuns, turn : TapedTurn]
  BY <1>1, TapedTurns, TapeAssumption DEF TapeInit, Quiet, StimulusPc
<1>5. box \in [in : SUBSET TapeFile, out : SUBSET TapeFile]
  BY <1>1 DEF TapeInit
<1>6. tape \in Seq(TapedTurn) /\ folder \in Seq(TapedTurn) /\ queue \in Seq(TapedTurn) /\ step \in Nat
  BY <1>1, TapedTurns DEF TapeInit
<1>7. QED
  BY <1>2, <1>3, <1>4, <1>5, <1>6, TapeAssumption DEF TapeTypes

\* Some fields of a liveRun set are a liveRun's again.
LEMMA LiveTypes ==
  ASSUME NEW l \in LiveType
  PROVE  /\ \A w \in WatchPc : [l EXCEPT !.watch = w] \in LiveType
         /\ \A x \in TapedTurn : [l EXCEPT !.watch = "ended", !.result = x] \in LiveType
         /\ \A b \in BOOLEAN : [l EXCEPT !.watch = "over", !.emitted = b] \in LiveType
         /\ [l EXCEPT !.launch = "over"] \in LiveType
         /\ [l EXCEPT !.cancel = TRUE] \in LiveType
BY DEF LiveType, WatchPc

\* One element of a sequence replaced, wherever it is meant to be.
LEMMA ReplacedAny ==
  ASSUME NEW S, NEW s \in Seq(S), NEW i, NEW x \in S
  PROVE  [s EXCEPT ![i] = x] \in Seq(S) /\ Len([s EXCEPT ![i] = x]) = Len(s)
<1>1. CASE i \in DOMAIN s
  BY <1>1, Replaced
<1>2. CASE i \notin DOMAIN s
  <2>1. [s EXCEPT ![i] = x] = s
    BY <1>2
  <2>2. QED
    BY <2>1
<1>3. QED
  BY <1>1, <1>2

\* The runs with a status set have a status each.
LEMMA StatusTypes ==
  ASSUME runs \in Seq(RunStatus), NEW r, NEW status \in RunStatus
  PROVE  /\ [runs EXCEPT ![r] = status] \in Seq(RunStatus)
         /\ Len([runs EXCEPT ![r] = status]) = Len(runs)
BY ReplacedAny

\* Every step keeps the types.
LEMMA TapeTypesNext == TapeTypes /\ [TapeNext]_tapeVars => TapeTypes'
<1> SUFFICES ASSUME TapeTypes, [TapeNext]_tapeVars PROVE TapeTypes'
  OBVIOUS
<1>t. /\ ring \in {"sim", "live", "saving", "recorded", "failed"}
      /\ runs \in Seq(RunStatus) /\ Len(runs) <= MaxTapeRuns
      /\ entry \in 0..MaxTapeRuns
      /\ live \in [TapeRuns -> LiveType]
      /\ stimulus \in [pc : StimulusPc, run : 0..MaxTapeRuns, turn : TapedTurn]
      /\ box \in [in : SUBSET TapeFile, out : SUBSET TapeFile]
      /\ tape \in Seq(TapedTurn) /\ folder \in Seq(TapedTurn) /\ queue \in Seq(TapedTurn)
      /\ step \in Nat /\ MaxTapeRuns \in Nat /\ TapeRuns = 1..MaxTapeRuns
  BY TapeAssumption DEF TapeTypes, TapeRuns
<1>q. /\ Quiet \in [pc : StimulusPc, run : 0..MaxTapeRuns, turn : TapedTurn]
      /\ [stimulus EXCEPT !.pc = "settles"] \in [pc : StimulusPc, run : 0..MaxTapeRuns, turn : TapedTurn]
  <2>1. "idle" \in StimulusPc /\ "settles" \in StimulusPc
    BY DEF StimulusPc
  <2>2. Quiet \in [pc : StimulusPc, run : 0..MaxTapeRuns, turn : TapedTurn]
    BY <1>t, <2>1, TapedTurns DEF Quiet
  <2>3. QED
    BY <1>t, <2>1, <2>2
<1>1. CASE DeliverMail
  <2>1. Len(runs) + 1 \in TapeRuns /\ Len(runs) + 1 \in Nat
    BY <1>1, <1>t DEF DeliverMail
  <2>2. box' \in [in : SUBSET TapeFile, out : SUBSET TapeFile]
    <3>1. {<<"mail", Len(runs) + 1>>} \in SUBSET TapeFile
      BY <2>1 DEF TapeFile
    <3>2. QED
      BY <1>1, <1>t, <3>1 DEF DeliverMail
  <2>3. runs' \in Seq(RunStatus) /\ Len(runs') <= MaxTapeRuns
    <3>1. "running" \in RunStatus
      BY DEF RunStatus
    <3>2. QED
      BY <1>1, <1>t, <3>1 DEF DeliverMail
  <2>4. live' \in [TapeRuns -> LiveType]
    BY <1>1, <1>t, TapedTurns DEF DeliverMail
  <2>5. QED
    <3>1. step' = step + 1 /\ stimulus' = [stimulus EXCEPT !.pc = "settles"]
          /\ UNCHANGED <<ring, entry, tape, folder, queue>>
      BY <1>1 DEF DeliverMail, Plays, Settles, cassette
    <3>2. QED
      BY <1>t, <1>q, <2>2, <2>3, <2>4, <3>1 DEF TapeTypes
<1>2. CASE Settle \/ PollsIdle \/ TurnReturns \/ GreenRun
  BY <1>2, <1>t, <1>q DEF Settle, PollsIdle, TurnReturns, GreenRun, Settles, cassette, TapeTypes
<1>3. CASE StopStimulus
  <2>1. runs' \in Seq(RunStatus) /\ Len(runs') <= MaxTapeRuns
    <3>1. "stopping" \in RunStatus
      BY DEF RunStatus
    <3>2. runs' = [runs EXCEPT ![Lowest(Running)] = "stopping"]
      BY <1>3 DEF StopStimulus
    <3>3. QED
      BY <1>t, <3>1, <3>2, StatusTypes
  <2>2. live' \in [TapeRuns -> LiveType]
    BY <1>3, <1>t DEF StopStimulus, LiveType
  <2>3. QED
    BY <1>3, <1>t, <1>q, <2>1, <2>2 DEF StopStimulus, Plays, Settles, cassette, TapeTypes
<1>4. CASE CrashStimulus
  <2>1. live' \in [TapeRuns -> LiveType]
    BY <1>4, TapedTurns DEF CrashStimulus
  <2>2. QED
    BY <1>4, <1>t, <1>q, <2>1 DEF CrashStimulus, Plays, Settles, cassette, TapeTypes
<1>5. CASE AgentStimulus
  <2>1. stimulus' \in [pc : StimulusPc, run : 0..MaxTapeRuns, turn : TapedTurn]
    BY <1>5, <1>t, <1>q DEF AgentStimulus, Fails, StimulusPc
  <2>2. QED
    BY <1>5, <1>t, <2>1 DEF AgentStimulus, Fails, Plays, cassette, TapeTypes
<1>6. CASE TakeScripted
  <2>1. PICK forgets \in BOOLEAN, says \in BOOLEAN :
          /\ box' = Agent(entry, forgets, says)
          /\ stimulus' = [pc |-> "offers", run |-> entry,
                          turn |-> Turn({}, box'.out, box'.out, IF says THEN 0 ELSE 1, FALSE)]
    BY <1>6 DEF TakeScripted
  <2>2. box' \in [in : SUBSET TapeFile, out : SUBSET TapeFile]
    BY <1>t, <2>1, AgentTypes
  <2>3. Turn({}, box'.out, box'.out, IF says THEN 0 ELSE 1, FALSE) \in TapedTurn
    BY <2>2, TapedTurns
  <2>4. stimulus' \in [pc : StimulusPc, run : 0..MaxTapeRuns, turn : TapedTurn]
    BY <1>t, <2>1, <2>3 DEF StimulusPc
  <2>5. QED
    BY <1>6, <1>t, <2>2, <2>4 DEF TakeScripted, cassette, TapeTypes
<1>7. CASE TakeRecorded
  <2>1. queue' \in Seq(TapedTurn)
    BY <1>7, <1>t DEF TakeRecorded
  <2>2. queue # <<>> => Head(queue) \in TapedTurn
    BY <1>t
  <2>3. stimulus' \in [pc : StimulusPc, run : 0..MaxTapeRuns, turn : TapedTurn]
    BY <1>7, <1>t, <1>q, <2>2 DEF TakeRecorded, Fails, StimulusPc
  <2>4. box' \in [in : SUBSET TapeFile, out : SUBSET TapeFile]
    <3>1. queue # <<>> => Head(queue).out \in SUBSET TapeFile
      BY <2>2 DEF TapedTurn
    <3>2. box' = box \/ (queue # <<>> /\ box' = [box EXCEPT !.out = @ \cup Head(queue).out])
      BY <1>7 DEF TakeRecorded
    <3>3. QED
      BY <1>t, <3>1, <3>2
  <2>5. QED
    BY <1>7, <1>t, <2>1, <2>3, <2>4 DEF TakeRecorded, Fails, TapeTypes
<1>8. CASE HandOver
  <2>1. [stimulus.turn EXCEPT !.stopped = FALSE] \in TapedTurn
    BY <1>t DEF TapedTurn
  <2>2. live' \in [TapeRuns -> LiveType]
    <3>1. CASE stimulus.run \in TapeRuns
      <4>1. [live[stimulus.run] EXCEPT !.watch = "ended",
               !.result = [stimulus.turn EXCEPT !.stopped = FALSE]] \in LiveType
        BY <1>t, <2>1, <3>1, LiveTypes
      <4>2. QED
        BY <1>8, <1>t, <3>1, <4>1 DEF HandOver, Gets
    <3>2. CASE stimulus.run \notin TapeRuns
      BY <1>8, <1>t, <3>2 DEF HandOver, Gets
    <3>3. QED
      BY <3>1, <3>2
  <2>3. stimulus' \in [pc : StimulusPc, run : 0..MaxTapeRuns, turn : TapedTurn]
    BY <1>8, <1>t DEF HandOver, StimulusPc
  <2>4. QED
    BY <1>8, <1>t, <2>2, <2>3 DEF HandOver, cassette, TapeTypes
<1>9. CASE SaveTurn
  <2>1. step' \in Nat /\ tape[step + 1] \in TapedTurn
    BY <1>9, <1>t DEF SaveTurn
  <2>2. folder' \in Seq(TapedTurn)
    <3>1. CASE <<"note">> \in tape[step + 1].in
      BY <1>9, <1>t, <3>1 DEF SaveTurn
    <3>2. CASE step < Len(folder)
      <4>1. folder[step + 1] \in TapedTurn /\ step + 1 \in DOMAIN folder
        BY <1>t, <3>2
      <4>2. [tape[step + 1] EXCEPT !.in = @ \cup folder[step + 1].in,
                                   !.out = @ \cup folder[step + 1].out] \in TapedTurn
        BY <2>1, <4>1 DEF TapedTurn
      <4>3. QED
        <5>1. folder' = folder \/ folder' = [folder EXCEPT ![step + 1] =
                [tape[step + 1] EXCEPT !.in = @ \cup folder[step + 1].in,
                                       !.out = @ \cup folder[step + 1].out]]
          BY <1>9, <3>2 DEF SaveTurn
        <5> DEFINE whole == [tape[step + 1] EXCEPT !.in = @ \cup folder[step + 1].in,
                                                  !.out = @ \cup folder[step + 1].out]
        <5>2. whole \in TapedTurn /\ (folder' = folder \/ folder' = [folder EXCEPT ![step + 1] = whole])
          BY <4>2, <5>1
        <5> HIDE DEF whole
        <5>3. [folder EXCEPT ![step + 1] = whole] \in Seq(TapedTurn)
          BY <1>t, <5>2, ReplacedAny
        <5>4. QED
          BY <1>t, <5>2, <5>3
    <3>3. CASE <<"note">> \notin tape[step + 1].in /\ ~(step < Len(folder))
      <4>1. folder' = Append(folder, tape[step + 1])
        BY <1>9, <3>3 DEF SaveTurn
      <4>2. QED
        BY <1>t, <2>1, <4>1
    <3>4. QED
      BY <3>1, <3>2, <3>3
  <2>3. QED
    BY <1>9, <1>t, <1>q, <2>1, <2>2 DEF SaveTurn, Fails, TapeTypes
<1>10. CASE LoadCassette
  <2>1. live' \in [TapeRuns -> LiveType]
    BY <1>10, TapedTurns DEF LoadCassette, FreshWorld
  <2>2. runs' \in Seq(RunStatus) /\ Len(runs') = 0
    BY <1>10 DEF LoadCassette, FreshWorld
  <2>3. QED
    BY <1>10, <1>t, <1>q, <2>1, <2>2 DEF LoadCassette, FreshWorld, TapeTypes
<1>11. ASSUME NEW r \in TapeRuns, Launch(r) PROVE TapeTypes'
  <2>1. live' \in [TapeRuns -> LiveType]
    BY <1>11, <1>t DEF Launch, LiveType
  <2>2. box' \in [in : SUBSET TapeFile, out : SUBSET TapeFile]
    BY <1>11, <1>t DEF Launch, TapeFile
  <2>3. QED
    BY <1>11, <1>t, <2>1, <2>2 DEF Launch, cassette, TapeTypes
<1>12. ASSUME NEW r \in TapeRuns, WaitStarts(r) PROVE TapeTypes'
  <2>1. live' \in [TapeRuns -> LiveType]
    BY <1>12, <1>t DEF WaitStarts, LiveType, WatchPc
  <2>2. QED
    BY <1>12, <1>t, <2>1 DEF WaitStarts, cassette, TapeTypes
<1>13. ASSUME NEW r \in TapeRuns, LiveTurnEnds(r) PROVE TapeTypes'
  <2>1. PICK forgets \in BOOLEAN, says \in BOOLEAN :
          /\ box' = Agent(r, forgets, says)
          /\ Gets(r, Turn({}, box'.out, box'.out, IF says THEN 0 ELSE 1, runs[r] # "running"))
    BY <1>13 DEF LiveTurnEnds
  <2>2. box' \in [in : SUBSET TapeFile, out : SUBSET TapeFile]
    BY <1>13, <1>t, <2>1, AgentTypes
  <2>3. Turn({}, box'.out, box'.out, IF says THEN 0 ELSE 1, runs[r] # "running") \in TapedTurn
    BY <2>2, TapedTurns
  <2>4. live' \in [TapeRuns -> LiveType]
    <3> DEFINE ended == Turn({}, box'.out, box'.out, IF says THEN 0 ELSE 1, runs[r] # "running")
    <3>1. [live[r] EXCEPT !.watch = "ended", !.result = ended] \in LiveType
      BY <1>t, <1>13, <2>3, LiveTypes
    <3>2. live' = [live EXCEPT ![r] = [live[r] EXCEPT !.watch = "ended", !.result = ended]]
      BY <2>1 DEF Gets
    <3> HIDE DEF ended
    <3>3. QED
      BY <1>t, <3>1, <3>2
  <2>5. QED
    BY <1>13, <1>t, <2>2, <2>4 DEF LiveTurnEnds, cassette, TapeTypes
<1>14. ASSUME NEW r \in TapeRuns, WaitStopped(r) PROVE TapeTypes'
  <2>1. Turn({}, {}, {}, 0, TRUE) \in TapedTurn
    BY TapedTurns
  <2>2. live' \in [TapeRuns -> LiveType]
    <3> DEFINE ended == Turn({}, {}, {}, 0, TRUE)
    <3>1. [live[r] EXCEPT !.watch = "ended", !.result = ended] \in LiveType
      BY <1>t, <1>14, <2>1, LiveTypes
    <3>2. live' = [live EXCEPT ![r] = [live[r] EXCEPT !.watch = "ended", !.result = ended]]
      BY <1>14 DEF WaitStopped, Gets
    <3> HIDE DEF ended
    <3>3. QED
      BY <1>t, <3>1, <3>2
  <2>3. QED
    BY <1>14, <1>t, <2>2 DEF WaitStopped, cassette, TapeTypes
<1>15. ASSUME NEW r \in TapeRuns, Capture(r) PROVE TapeTypes'
  <2>1. [live[r].result EXCEPT !.in = box.in, !.out = box.out] \in TapedTurn
    BY <1>15, <1>t DEF LiveType, TapedTurn
  <2>2. tape' \in Seq(TapedTurn)
    BY <1>15, <1>t, <2>1 DEF Capture
  <2>3. live' \in [TapeRuns -> LiveType]
    BY <1>15, <1>t DEF Capture, LiveType, WatchPc
  <2>4. QED
    BY <1>15, <1>t, <2>2, <2>3 DEF Capture, TapeTypes
<1>16. ASSUME NEW r \in TapeRuns, EmitFinish(r) PROVE TapeTypes'
  <2>1. live' \in [TapeRuns -> LiveType]
    BY <1>16, <1>t DEF EmitFinish, LiveType, WatchPc
  <2>2. runs' \in Seq(RunStatus) /\ Len(runs') <= MaxTapeRuns
    <3>1. "stopped" \in RunStatus /\ "finished" \in RunStatus
      BY DEF RunStatus
    <3>2. PICK s \in RunStatus : runs' = [runs EXCEPT ![r] = s]
      BY <1>16, <3>1 DEF EmitFinish
    <3>3. [runs EXCEPT ![r] = s] \in Seq(RunStatus) /\ Len([runs EXCEPT ![r] = s]) = Len(runs)
      BY <1>t, StatusTypes
    <3>4. QED
      BY <1>t, <3>2, <3>3
  <2>3. QED
    BY <1>16, <1>t, <2>1, <2>2 DEF EmitFinish, cassette, TapeTypes
<1>17. ASSUME NEW r \in TapeRuns, MarkEmitted(r) PROVE TapeTypes'
  <2>1. live' \in [TapeRuns -> LiveType]
    <3>1. [live[r] EXCEPT !.watch = "over", !.emitted = (entry = r)] \in LiveType
      BY <1>17, <1>t, LiveTypes
    <3>2. live' = [live EXCEPT ![r] = [live[r] EXCEPT !.watch = "over", !.emitted = (entry = r)]]
      BY <1>17, <1>t DEF MarkEmitted
    <3>3. QED
      BY <1>17, <1>t, <3>1, <3>2
  <2>2. QED
    BY <1>17, <1>t, <2>1 DEF MarkEmitted, cassette, TapeTypes
<1>18. CASE UNCHANGED tapeVars
  BY <1>18, <1>t DEF tapeVars, TapeTypes
<1>19. QED
  BY <1>1, <1>2, <1>3, <1>4, <1>5, <1>6, <1>7, <1>8, <1>9, <1>10, <1>11, <1>12, <1>13,
     <1>14, <1>15, <1>16, <1>17, <1>18 DEF TapeNext

\* The variables' types, as the steps below use them.
Typed ==
  /\ runs \in Seq(RunStatus) /\ Len(runs) \in Nat /\ DOMAIN runs = 1..Len(runs)
  /\ Len(runs) <= MaxTapeRuns /\ entry \in 0..MaxTapeRuns
  /\ live \in [TapeRuns -> LiveType] /\ TapeRuns = 1..MaxTapeRuns /\ MaxTapeRuns \in Nat
  /\ stimulus = [pc |-> stimulus.pc, run |-> stimulus.run, turn |-> stimulus.turn]
  /\ stimulus.pc \in StimulusPc /\ stimulus.run \in 0..MaxTapeRuns /\ stimulus.turn \in TapedTurn

\* The types of the scenario give them.
LEMMA TypedFacts == TapeTypes => Typed
<1>1. SUFFICES ASSUME TapeTypes PROVE Typed
  OBVIOUS
<1>2. \A q \in Seq(RunStatus) : Len(q) \in Nat /\ DOMAIN q = 1..Len(q)
  OBVIOUS
<1>3. QED
  BY <1>1, <1>2, TapeAssumption DEF Typed, TapeTypes, TapeRuns

\* The steps that leave the runs, their goroutines and the table alone.
ByStimulus == Settle \/ AgentStimulus \/ PollsIdle \/ TakeScripted \/ TakeRecorded \/ TurnReturns
              \/ GreenRun \/ SaveTurn

\* None of them touches a run, running or not.
LEMMA ByStimulusFacts ==
  ASSUME ByStimulus
  PROVE  UNCHANGED <<runs, live, entry, odd>> /\ Running' = Running
BY DEF ByStimulus, Settle, AgentStimulus, PollsIdle, TakeScripted, TakeRecorded, TurnReturns,
       GreenRun, SaveTurn, Running

\* The launcher is over, and the table has its run.
LEMMA LaunchFacts ==
  ASSUME Typed, NEW r \in TapeRuns, Launch(r)
  PROVE  /\ UNCHANGED <<runs, stimulus, ring>> /\ Running' = Running
         /\ live[r].launch = "owed" /\ r \in Running /\ entry' = r
         /\ odd' = IF entry = r THEN odd \cup {r} ELSE odd
         /\ \A q \in TapeRuns :
              /\ live'[q].watch = live[q].watch /\ live'[q].cancel = live[q].cancel
              /\ live'[q].emitted = live[q].emitted /\ live'[q].result = live[q].result
              /\ live'[q].launch = IF q = r THEN "over" ELSE live[q].launch
BY DEF Typed, Launch, Running, LiveType

\* The watcher waits for the run that the table has.
LEMMA WaitStartsFacts ==
  ASSUME Typed, NEW r \in TapeRuns, WaitStarts(r)
  PROVE  /\ UNCHANGED <<runs, stimulus, ring>> /\ Running' = Running
         /\ live[r].watch = "starts" /\ (ring = "recorded" \/ entry = r) /\ entry' = r
         /\ odd' = IF entry # r /\ r \notin Running THEN odd \cup {0} ELSE odd
         /\ \A q \in TapeRuns :
              /\ live'[q].launch = live[q].launch /\ live'[q].cancel = live[q].cancel
              /\ live'[q].emitted = live[q].emitted /\ live'[q].result = live[q].result
              /\ live'[q].watch = IF q = r THEN "waits" ELSE live[q].watch
BY DEF Typed, WaitStarts, Running, LiveType

\* A turn's end: the watcher gets a result.
TurnEnds(r) == LiveTurnEnds(r) \/ WaitStopped(r)

\* It gets one in the live ring, or because the run is stopped.
LEMMA TurnEndsFacts ==
  ASSUME Typed, NEW r \in TapeRuns, TurnEnds(r)
  PROVE  /\ UNCHANGED <<runs, stimulus, ring, entry, odd>> /\ Running' = Running
         /\ \/ ring = "live" /\ live[r].watch = "waits"
            \/ ring # "recorded" /\ live[r].watch = "starts" /\ r \notin Running
            \/ ring # "live" /\ live[r].watch = "waits" /\ (live[r].cancel \/ r \notin Running)
         /\ \A q \in TapeRuns :
              /\ live'[q].launch = live[q].launch /\ live'[q].cancel = live[q].cancel
              /\ live'[q].emitted = live[q].emitted
              /\ live'[q].watch = IF q = r THEN "ended" ELSE live[q].watch
              /\ q # r => live'[q].result = live[q].result
<1>1. \E x : Gets(r, x)
  BY DEF TurnEnds, LiveTurnEnds, WaitStopped
<1>2. PICK x : live' = [live EXCEPT ![r] = [live[r] EXCEPT !.watch = "ended", !.result = x]]
  BY <1>1 DEF Gets
<1>3. \A q \in TapeRuns :
        /\ live'[q].launch = live[q].launch /\ live'[q].cancel = live[q].cancel
        /\ live'[q].emitted = live[q].emitted
        /\ live'[q].watch = IF q = r THEN "ended" ELSE live[q].watch
        /\ q # r => live'[q].result = live[q].result
  BY <1>2 DEF Typed, LiveType
<1>4. UNCHANGED <<runs, stimulus, ring, entry, odd>>
  BY DEF TurnEnds, LiveTurnEnds, WaitStopped
<1>5. QED
  BY <1>3, <1>4 DEF TurnEnds, LiveTurnEnds, WaitStopped, Running

\* The watcher of the run gets the turn that the agent command has.
LEMMA HandOverFacts ==
  ASSUME Typed, HandOver
  PROVE  /\ UNCHANGED <<runs, ring, entry, odd>> /\ Running' = Running
         /\ stimulus.pc = "offers" /\ stimulus'.pc = "handed" /\ stimulus'.run = stimulus.run
         /\ stimulus'.turn = stimulus.turn
         /\ stimulus.run \in TapeRuns => live[stimulus.run].watch = "waits"
         /\ \A q \in TapeRuns :
              /\ live'[q].launch = live[q].launch /\ live'[q].cancel = live[q].cancel
              /\ live'[q].emitted = live[q].emitted
              /\ live'[q].watch = IF q = stimulus.run THEN "ended" ELSE live[q].watch
              /\ q # stimulus.run => live'[q].result = live[q].result
              /\ q = stimulus.run => /\ Same(live'[q].result, stimulus.turn)
                                     /\ ~live'[q].result.stopped
<1>1. [stimulus.turn EXCEPT !.stopped = FALSE].exit = stimulus.turn.exit
      /\ [stimulus.turn EXCEPT !.stopped = FALSE].manifest = stimulus.turn.manifest
      /\ ~[stimulus.turn EXCEPT !.stopped = FALSE].stopped
  BY DEF Typed, TapedTurn
<1> DEFINE result == [stimulus.turn EXCEPT !.stopped = FALSE]
<1>2. live' = [live EXCEPT ![stimulus.run] = [live[stimulus.run] EXCEPT !.watch = "ended",
                                                                        !.result = result]]
  BY DEF HandOver, Gets
<1>3. Same(result, stimulus.turn) /\ ~result.stopped
  BY <1>1 DEF Same
<1> HIDE DEF result
<1>4. \A q \in TapeRuns :
        /\ live'[q].launch = live[q].launch /\ live'[q].cancel = live[q].cancel
        /\ live'[q].emitted = live[q].emitted
        /\ live'[q].watch = IF q = stimulus.run THEN "ended" ELSE live[q].watch
        /\ q # stimulus.run => live'[q].result = live[q].result
        /\ q = stimulus.run => live'[q].result = result
  BY <1>2 DEF Typed, LiveType
<1>5. QED
  BY <1>3, <1>4 DEF Typed, HandOver, Running

\* A live turn is taken down before its end is told.
LEMMA CaptureFacts ==
  ASSUME Typed, NEW r \in TapeRuns, Capture(r)
  PROVE  /\ UNCHANGED <<runs, stimulus, ring, entry, odd>> /\ Running' = Running
         /\ ring = "live" /\ live[r].watch = "ended"
         /\ \A q \in TapeRuns :
              /\ live'[q].launch = live[q].launch /\ live'[q].cancel = live[q].cancel
              /\ live'[q].emitted = live[q].emitted /\ live'[q].result = live[q].result
              /\ live'[q].watch = IF q = r THEN "captured" ELSE live[q].watch
BY DEF Typed, Capture, Running, LiveType

\* The run that ended is over in the model, finished unless it was stopped.
LEMMA EmitFinishFacts ==
  ASSUME Typed, NEW r \in TapeRuns, EmitFinish(r), r \in DOMAIN runs
  PROVE  /\ UNCHANGED <<stimulus, ring, entry, odd>>
         /\ Len(runs') = Len(runs) /\ DOMAIN runs' = DOMAIN runs
         /\ Running' = Running \ {r}
         /\ \A q \in DOMAIN runs : q # r => runs'[q] = runs[q]
         /\ runs'[r] = IF runs[r] = "stopping" \/ live[r].result.stopped THEN "stopped" ELSE "finished"
         /\ live[r].watch = (IF ring = "live" THEN "captured" ELSE "ended")
         /\ \A q \in TapeRuns :
              /\ live'[q].launch = live[q].launch /\ live'[q].cancel = live[q].cancel
              /\ live'[q].emitted = live[q].emitted /\ live'[q].result = live[q].result
              /\ live'[q].watch = IF q = r THEN "emitted" ELSE live[q].watch
<1>1. \E s \in {"stopped", "finished"} : runs' = [runs EXCEPT ![r] = s]
  BY DEF EmitFinish
<1>2. Len(runs') = Len(runs) /\ DOMAIN runs' = DOMAIN runs
  BY <1>1 DEF Typed
<1>3. Running' = Running \ {r}
  BY <1>1, <1>2 DEF Running, Typed
<1>4. /\ \A q \in DOMAIN runs : q # r => runs'[q] = runs[q]
      /\ runs'[r] = IF runs[r] = "stopping" \/ live[r].result.stopped THEN "stopped" ELSE "finished"
  BY DEF EmitFinish, Typed
<1>5. /\ UNCHANGED <<stimulus, ring, entry, odd>>
      /\ live[r].watch = (IF ring = "live" THEN "captured" ELSE "ended")
      /\ live' = [live EXCEPT ![r].watch = "emitted"]
  BY DEF EmitFinish
<1>6. QED
  BY <1>2, <1>3, <1>4, <1>5 DEF Typed, LiveType

\* The watcher is over once the end is told.
LEMMA MarkEmittedFacts ==
  ASSUME Typed, NEW r \in TapeRuns, MarkEmitted(r)
  PROVE  /\ UNCHANGED <<runs, stimulus, ring, entry, odd>> /\ Running' = Running
         /\ live[r].watch = "emitted"
         /\ \A q \in TapeRuns :
              /\ live'[q].launch = live[q].launch /\ live'[q].cancel = live[q].cancel
              /\ live'[q].result = live[q].result
              /\ q # r => live'[q].emitted = live[q].emitted
              /\ live'[q].watch = IF q = r THEN "over" ELSE live[q].watch
BY DEF Typed, MarkEmitted, Running, LiveType

\* No run and no turn is under way when a scenario starts.
LEMMA LastRunsInit == TapeInit => LastRuns /\ Launched /\ Seated /\ GivenTurn
<1>1. SUFFICES ASSUME TapeInit PROVE LastRuns /\ Launched /\ Seated /\ GivenTurn
  OBVIOUS
<1>2. runs = <<>> /\ Running = {} /\ ring # "saving" /\ stimulus.pc = "idle" /\ stimulus.run = 0
  BY <1>1 DEF TapeInit, Running, Quiet
<1>3. \A r \in TapeRuns : live[r].watch = "off" /\ ~live[r].emitted
  BY <1>1 DEF TapeInit, NotLive
<1>4. QED
  BY <1>2, <1>3 DEF LastRuns, Launched, Seated, GivenTurn

\* Every step keeps LastRuns.
LEMMA LastRunsNext == TapeTypes /\ LastRuns /\ [TapeNext]_tapeVars => LastRuns'
<1> SUFFICES ASSUME TapeTypes, LastRuns, [TapeNext]_tapeVars PROVE LastRuns'
  OBVIOUS
<1>t. Typed
  BY TypedFacts
<1>1. CASE DeliverMail
  <2>1. /\ Running = {} /\ runs' = Append(runs, "running") /\ Len(runs) + 1 \in TapeRuns
        /\ ring' = ring /\ ring # "saving"
        /\ live' = [live EXCEPT ![Len(runs) + 1] = Declared]
        /\ stimulus.pc = "idle" /\ stimulus' = [stimulus EXCEPT !.pc = "settles"]
    BY <1>1, <1>t DEF DeliverMail, Plays, Settles, Typed
  <2>2. Len(runs') = Len(runs) + 1 /\ DOMAIN runs' = 1..(Len(runs) + 1)
        /\ \A q \in DOMAIN runs : runs'[q] = runs[q]
    BY <1>t, <2>1 DEF Typed
  <2>3. Running' \subseteq {Len(runs')}
    BY <1>t, <2>1, <2>2 DEF Running, Typed
  <2>4. stimulus'.pc = "settles"
    BY <1>t, <2>1 DEF Typed
  <2>5. Declared.watch = "starts" /\ ~Declared.emitted
    BY DEF Declared, NotLive
  <2>6. QED
    BY <1>t, <2>1, <2>2, <2>3, <2>4, <2>5 DEF LastRuns, Typed
<1>2. CASE StopStimulus
  <2>1. /\ runs' = [runs EXCEPT ![Lowest(Running)] = "stopping"]
        /\ ring' = ring /\ ring # "saving"
        /\ live' = IF entry = 0 THEN live ELSE [live EXCEPT ![entry].cancel = TRUE]
        /\ stimulus' = [stimulus EXCEPT !.pc = "settles"]
    BY <1>2 DEF StopStimulus, Settles, Plays
  <2>2. Len(runs') = Len(runs) /\ DOMAIN runs' = DOMAIN runs
    <3>1. "stopping" \in RunStatus
      BY DEF RunStatus
    <3>2. runs' \in Seq(RunStatus) /\ Len(runs') = Len(runs)
      BY <1>t, <2>1, <3>1, StatusTypes DEF Typed
    <3>3. QED
      BY <1>t, <3>2 DEF Typed
  <2>3. Running' \subseteq Running
    BY <2>1, <2>2 DEF Running
  <2>4. \A r \in TapeRuns : live'[r].watch = live[r].watch /\ live'[r].emitted = live[r].emitted
    BY <1>t, <2>1 DEF Typed, LiveType
  <2>5. stimulus'.pc = "settles"
    BY <1>t, <2>1 DEF Typed
  <2>6. QED
    BY <2>1, <2>2, <2>3, <2>4, <2>5 DEF LastRuns
<1>3. CASE CrashStimulus
  <2>1. /\ ring' = ring /\ ring # "saving"
        /\ UNCHANGED runs /\ stimulus' = [stimulus EXCEPT !.pc = "settles"]
        /\ live' = [r \in TapeRuns |-> IF r \in Running THEN Declared ELSE NotLive]
    BY <1>3 DEF CrashStimulus, Settles, Plays
  <2>2. Running' = Running /\ stimulus'.pc = "settles" /\ Running \subseteq DOMAIN runs
    BY <1>t, <2>1 DEF Running, Typed
  <2>3. ~Declared.emitted /\ ~NotLive.emitted /\ NotLive.watch = "off"
    BY DEF Declared, NotLive
  <2>4. QED
    BY <2>1, <2>2, <2>3 DEF LastRuns
<1>4. CASE LoadCassette
  <2>1. /\ runs' = <<>> /\ stimulus' = Quiet /\ ring' = "recorded" /\ live' = [r \in TapeRuns |-> NotLive]
    BY <1>4 DEF LoadCassette, FreshWorld
  <2>2. Running' = {} /\ stimulus'.pc = "idle" /\ stimulus'.run = 0
    BY <2>1 DEF Running, Quiet
  <2>3. NotLive.watch = "off" /\ ~NotLive.emitted
    BY DEF NotLive
  <2>4. QED
    BY <2>1, <2>2, <2>3 DEF LastRuns
<1>5. CASE ByStimulus
  <2>1. /\ stimulus'.pc \in {"idle", "polls", "takes"} => stimulus'.run = 0
        /\ stimulus'.pc \in {"takes", "offers", "handed"} => ring' \in {"sim", "recorded"}
        /\ ring' = "saving" => stimulus'.pc = "idle"
    <3>1. Quiet.run = 0 /\ Quiet.pc = "idle"
      BY DEF Quiet
    <3>2. CASE Settle \/ PollsIdle \/ TurnReturns
      BY <1>t, <3>1, <3>2 DEF Settle, PollsIdle, TurnReturns, Settles, Typed, LastRuns
    <3>3. CASE AgentStimulus
      <4>1. /\ stimulus'.run = 0 /\ stimulus'.pc \in {"idle", "polls", "takes"}
            /\ ring' # "saving" /\ (stimulus'.pc = "takes" => ring' \in {"sim", "recorded"})
        BY <3>1, <3>3 DEF AgentStimulus, Fails, Quiet, Plays
      <4>2. QED
        BY <4>1
    <3>4. CASE TakeScripted
      BY <3>4 DEF TakeScripted
    <3>5. CASE TakeRecorded
      BY <3>1, <3>5 DEF TakeRecorded, Fails
    <3>6. CASE GreenRun
      BY <3>6 DEF GreenRun, LastRuns
    <3>7. CASE SaveTurn
      BY <3>1, <3>7 DEF SaveTurn, Fails, LastRuns
    <3>8. QED
      BY <1>5, <3>2, <3>3, <3>4, <3>5, <3>6, <3>7 DEF ByStimulus
  <2>2. QED
    BY <1>5, <2>1, ByStimulusFacts DEF LastRuns
<1>6. ASSUME NEW r \in TapeRuns, Launch(r) PROVE LastRuns'
  BY <1>t, <1>6, LaunchFacts DEF LastRuns
<1>7. ASSUME NEW r \in TapeRuns, WaitStarts(r) PROVE LastRuns'
  BY <1>t, <1>7, WaitStartsFacts DEF LastRuns
<1>8. ASSUME NEW r \in TapeRuns, TurnEnds(r) PROVE LastRuns'
  BY <1>t, <1>8, TurnEndsFacts DEF LastRuns
<1>9. CASE HandOver
  <2>1. stimulus.run \in TapeRuns \/ stimulus.run = 0
    BY <1>t DEF Typed
  <2>2. QED
    BY <1>t, <1>9, <2>1, HandOverFacts DEF LastRuns
<1>10. ASSUME NEW r \in TapeRuns, Capture(r) PROVE LastRuns'
  BY <1>t, <1>10, CaptureFacts DEF LastRuns
<1>11. ASSUME NEW r \in TapeRuns, EmitFinish(r) PROVE LastRuns'
  <2>1. r \in DOMAIN runs
    BY <1>11 DEF EmitFinish, LastRuns
  <2>2. QED
    BY <1>t, <1>11, <2>1, EmitFinishFacts DEF LastRuns
<1>12. ASSUME NEW r \in TapeRuns, MarkEmitted(r) PROVE LastRuns'
  BY <1>t, <1>12, MarkEmittedFacts DEF LastRuns
<1>13. CASE UNCHANGED tapeVars
  BY <1>13 DEF tapeVars, LastRuns, Running
<1>14. QED
  BY <1>1, <1>2, <1>3, <1>4, <1>5, <1>6, <1>7, <1>8, <1>9, <1>10, <1>11, <1>12, <1>13
     DEF TapeNext, ByStimulus, TurnEnds

\* A stop finds the one run that is running, and leaves none.
LEMMA StopFacts ==
  ASSUME Typed, LastRuns, StopStimulus
  PROVE  /\ Running' = {} /\ stimulus.pc = "idle" /\ stimulus'.pc = "settles"
         /\ stimulus'.run = stimulus.run
<1>1. /\ Running # {} /\ runs' = [runs EXCEPT ![Lowest(Running)] = "stopping"]
      /\ stimulus.pc = "idle" /\ stimulus' = [stimulus EXCEPT !.pc = "settles"]
  BY DEF StopStimulus, Plays, Settles
<1>2. Running = {Len(runs)}
  BY <1>1 DEF LastRuns
<1>3. Lowest(Running) = Len(runs)
  BY <1>2 DEF Lowest, Typed
<1>4. DOMAIN runs' = DOMAIN runs /\ \A q \in DOMAIN runs : q # Len(runs) => runs'[q] = runs[q]
  BY <1>1, <1>3 DEF Typed
<1>5. runs'[Len(runs)] # "running" \/ Len(runs) \notin DOMAIN runs
  BY <1>1, <1>3 DEF Typed
<1>6. Running' = {}
  BY <1>2, <1>4, <1>5 DEF Running
<1>7. QED
  BY <1>1, <1>6 DEF Typed

\* Mail gives the task a run that is running, with nothing of it begun.
LEMMA DeliverFacts ==
  ASSUME Typed, LastRuns, DeliverMail
  PROVE  /\ Running = {} /\ Running' = {Len(runs) + 1} /\ Len(runs) + 1 \in TapeRuns
         /\ live'[Len(runs) + 1] = Declared
         /\ stimulus.pc = "idle" /\ stimulus'.pc = "settles" /\ stimulus'.run = stimulus.run
         /\ UNCHANGED <<ring, odd>>
<1>1. /\ Running = {} /\ runs' = Append(runs, "running") /\ Len(runs) + 1 \in TapeRuns
      /\ live' = [live EXCEPT ![Len(runs) + 1] = Declared]
      /\ stimulus.pc = "idle" /\ stimulus' = [stimulus EXCEPT !.pc = "settles"]
      /\ UNCHANGED <<ring, odd>>
  BY DEF DeliverMail, Plays, Settles, Typed
<1>2. /\ DOMAIN runs' = 1..(Len(runs) + 1) /\ runs'[Len(runs) + 1] = "running"
      /\ \A q \in DOMAIN runs : runs'[q] = runs[q]
  BY <1>1 DEF Typed
<1>3. Running' = {Len(runs) + 1}
  BY <1>1, <1>2 DEF Typed, Running
<1>4. QED
  BY <1>1, <1>3 DEF Typed

\* A crash begins the runs that were running anew.
LEMMA CrashFacts ==
  ASSUME Typed, CrashStimulus
  PROVE  /\ Running' = Running /\ Running \subseteq DOMAIN runs
         /\ \A r \in Running : r \in TapeRuns => live'[r] = Declared
         /\ stimulus.pc = "idle" /\ stimulus'.pc = "settles" /\ stimulus'.run = stimulus.run
         /\ ring = "sim" /\ UNCHANGED <<ring, odd>>
BY DEF CrashStimulus, Plays, Settles, Typed, Running

\* A loaded cassette is played to a task without runs.
LEMMA LoadFacts ==
  ASSUME LoadCassette
  PROVE  /\ Running' = {} /\ stimulus'.pc = "idle" /\ stimulus'.run = 0 /\ ring' = "recorded"
BY DEF LoadCassette, FreshWorld, Running, Quiet

\* What a running run and a fresh one are.
LEMMA RunFacts ==
  /\ Typed => \A r \in Running : r \in TapeRuns /\ r \in DOMAIN runs /\ runs[r] = "running"
  /\ Declared.launch = "owed" /\ Declared.watch = "starts" /\ ~Declared.cancel
BY DEF Typed, Running, Declared, NotLive

\* Every step keeps Launched.
LEMMA LaunchedNext == TapeTypes /\ LastRuns /\ Launched /\ [TapeNext]_tapeVars => Launched'
<1> SUFFICES ASSUME TapeTypes, LastRuns, Launched, [TapeNext]_tapeVars PROVE Launched'
  OBVIOUS
<1>t. Typed
  BY TypedFacts
<1>1. CASE DeliverMail \/ StopStimulus \/ CrashStimulus \/ LoadCassette
  BY <1>1, <1>t, DeliverFacts, StopFacts, CrashFacts, LoadFacts DEF Launched
<1>2. CASE ByStimulus
  <2>1. stimulus.pc # "settles" \/ stimulus'.pc = "settles"
        \/ \A r \in Running : live[r].launch = "over"
    BY <1>2, <1>t DEF ByStimulus, Settle, AgentStimulus, PollsIdle, TakeScripted, TakeRecorded,
         TurnReturns, GreenRun, SaveTurn, Settles, Plays, Typed, LastRuns
  <2>2. QED
    BY <1>2, <2>1, ByStimulusFacts DEF Launched
<1>3. ASSUME NEW r \in TapeRuns, Launch(r) PROVE Launched'
  BY <1>t, <1>3, LaunchFacts, RunFacts DEF Launched
<1>4. ASSUME NEW r \in TapeRuns, WaitStarts(r) PROVE Launched'
  BY <1>t, <1>4, WaitStartsFacts, RunFacts DEF Launched
<1>5. ASSUME NEW r \in TapeRuns, TurnEnds(r) PROVE Launched'
  BY <1>t, <1>5, TurnEndsFacts, RunFacts DEF Launched
<1>6. CASE HandOver
  BY <1>t, <1>6, HandOverFacts, RunFacts DEF Launched
<1>7. ASSUME NEW r \in TapeRuns, Capture(r) PROVE Launched'
  BY <1>t, <1>7, CaptureFacts, RunFacts DEF Launched
<1>8. ASSUME NEW r \in TapeRuns, EmitFinish(r) PROVE Launched'
  <2>1. r \in DOMAIN runs
    BY <1>8 DEF EmitFinish, LastRuns
  <2>2. QED
    BY <1>t, <1>8, <2>1, EmitFinishFacts, RunFacts DEF Launched
<1>9. ASSUME NEW r \in TapeRuns, MarkEmitted(r) PROVE Launched'
  BY <1>t, <1>9, MarkEmittedFacts, RunFacts DEF Launched
<1>10. CASE UNCHANGED tapeVars
  BY <1>10 DEF tapeVars, Launched, Running
<1>11. QED
  BY <1>1, <1>2, <1>3, <1>4, <1>5, <1>6, <1>7, <1>8, <1>9, <1>10
     DEF TapeNext, ByStimulus, TurnEnds

\* Every step keeps Seated.
LEMMA SeatedNext == SettledInv /\ [TapeNext]_tapeVars => Seated'
<1> SUFFICES ASSUME SettledInv, [TapeNext]_tapeVars, 0 \notin odd' PROVE Seated'
  BY DEF Seated
<1>t. TapeTypes /\ Typed /\ LastRuns /\ Launched /\ Seated /\ GivenTurn
  BY TypedFacts DEF SettledInv
<1> USE <1>t
<1> DEFINE Awaits(r) == ring \in {"sim", "recorded"} /\ ~(stimulus.pc = "handed" /\ stimulus.run = r)
                         => live[r].watch \in {"starts", "waits"}
           Sits(r) == (live[r].launch = "over" => entry = r) /\ ~live[r].cancel /\ Awaits(r)
<1>s. 0 \notin odd => \A r \in Running : Sits(r)
  BY DEF Seated
<1>g. (\A r \in Running' : Sits(r)') => Seated'
  BY DEF Seated
<1>1. CASE DeliverMail
  <2>1. Running' = {Len(runs) + 1} /\ live'[Len(runs) + 1] = Declared
    BY <1>1, DeliverFacts
  <2>2. QED
    BY <2>1, <1>g, RunFacts
<1>2. CASE StopStimulus \/ LoadCassette
  BY <1>2, <1>g, StopFacts, LoadFacts
<1>3. CASE CrashStimulus
  <2>1. \A r \in Running' : live'[r] = Declared
    BY <1>3, CrashFacts, RunFacts
  <2>2. QED
    BY <2>1, <1>g, RunFacts
<1>4. CASE ByStimulus
  <2>1. UNCHANGED <<runs, live, entry, odd>> /\ Running' = Running
    BY <1>4, ByStimulusFacts
  <2>2. ring' \in {"sim", "recorded"} => ring' = ring
    BY <1>4 DEF ByStimulus, Settle, AgentStimulus, PollsIdle, TakeScripted, TakeRecorded,
         TurnReturns, GreenRun, SaveTurn, Fails
  <2>3. ASSUME NEW r \in Running, stimulus.pc = "handed", stimulus.run = r
        PROVE  stimulus' = stimulus
    <3>1. CASE TurnReturns
      <4>1. live[r].emitted /\ r \in TapeRuns /\ runs[r] = "running"
        BY <2>3, <3>1, RunFacts DEF TurnReturns
      <4>2. live[r].watch = "over"
        BY <4>1 DEF LastRuns
      <4>3. FALSE
        BY <2>1, <2>3, <4>1, <4>2 DEF GivenTurn
      <4>4. QED
        BY <4>3
    <3>2. CASE SaveTurn
      BY <2>3, <3>2 DEF SaveTurn, LastRuns
    <3>3. QED
      BY <1>4, <2>3, <3>1, <3>2 DEF ByStimulus, Settle, AgentStimulus, PollsIdle, TakeScripted,
         TakeRecorded, GreenRun, Plays
  <2>4. \A r \in Running : Sits(r)'
    BY <1>s, <2>1, <2>2, <2>3
  <2>5. QED
    BY <1>g, <2>1, <2>4
<1>5. ASSUME NEW r \in TapeRuns, Launch(r) PROVE Seated'
  <2>1. Running = {r} /\ Running' = Running /\ entry' = r
    BY <1>5, LaunchFacts DEF LastRuns
  <2>2. /\ live'[r].cancel = live[r].cancel /\ live'[r].watch = live[r].watch
        /\ UNCHANGED <<stimulus, ring>> /\ 0 \notin odd
    BY <1>5, LaunchFacts
  <2>3. Sits(r)'
    BY <1>s, <2>1, <2>2
  <2>4. QED
    BY <1>g, <2>1, <2>3
<1>6. ASSUME NEW r \in TapeRuns, WaitStarts(r) PROVE Seated'
  <2>1. /\ UNCHANGED <<runs, stimulus, ring>> /\ Running' = Running
        /\ live[r].watch = "starts" /\ entry' = r /\ 0 \notin odd /\ (entry = r \/ r \in Running)
    BY <1>6, WaitStartsFacts
  <2>2. ASSUME NEW q \in Running PROVE Sits(q)'
    <3>1. q \in TapeRuns /\ Sits(q)
      BY <1>s, <2>1, <2>2, RunFacts
    <3>2. /\ live'[q].launch = live[q].launch /\ live'[q].cancel = live[q].cancel
          /\ live'[q].watch = IF q = r THEN "waits" ELSE live[q].watch
      BY <1>6, <3>1, WaitStartsFacts
    <3>3. r \in Running => r = q
      BY <2>2 DEF LastRuns
    <3>4. live'[q].launch = "over" => entry' = q
      BY <2>1, <3>1, <3>2, <3>3
    <3>5. QED
      BY <2>1, <3>1, <3>2, <3>4
  <2>3. QED
    BY <1>g, <2>1, <2>2
<1>7. ASSUME NEW r \in TapeRuns, TurnEnds(r) PROVE Seated'
  <2>1. UNCHANGED <<runs, stimulus, ring, entry, odd>> /\ Running' = Running
    BY <1>7, TurnEndsFacts
  <2>2. ASSUME NEW q \in Running PROVE Sits(q)'
    <3>1. q \in TapeRuns /\ Sits(q)
      BY <1>s, <2>1, <2>2, RunFacts
    <3>2. /\ live'[q].launch = live[q].launch /\ live'[q].cancel = live[q].cancel
          /\ live'[q].watch = IF q = r THEN "ended" ELSE live[q].watch
      BY <1>7, <3>1, TurnEndsFacts
    <3>3. q = r => ring = "live"
      BY <1>7, <2>2, <3>1, TurnEndsFacts
    <3>4. QED
      BY <2>1, <3>1, <3>2, <3>3
  <2>3. QED
    BY <1>g, <2>1, <2>2
<1>8. CASE HandOver
  <2>1. UNCHANGED <<runs, ring, entry, odd>> /\ Running' = Running
        /\ stimulus.pc = "offers" /\ stimulus'.pc = "handed" /\ stimulus'.run = stimulus.run
    BY <1>8, HandOverFacts
  <2>2. ASSUME NEW q \in Running PROVE Sits(q)'
    <3>1. q \in TapeRuns /\ Sits(q)
      BY <1>s, <2>1, <2>2, RunFacts
    <3>2. /\ live'[q].launch = live[q].launch /\ live'[q].cancel = live[q].cancel
          /\ live'[q].watch = IF q = stimulus.run THEN "ended" ELSE live[q].watch
      BY <1>8, <3>1, HandOverFacts
    <3>3. QED
      BY <2>1, <3>1, <3>2
  <2>3. QED
    BY <1>g, <2>1, <2>2
<1>9. ASSUME NEW r \in TapeRuns, Capture(r) PROVE Seated'
  <2>1. UNCHANGED <<runs, stimulus, ring, entry, odd>> /\ Running' = Running /\ ring = "live"
    BY <1>9, CaptureFacts
  <2>2. ASSUME NEW q \in Running PROVE Sits(q)'
    <3>1. q \in TapeRuns /\ Sits(q)
      BY <1>s, <2>1, <2>2, RunFacts
    <3>2. live'[q].launch = live[q].launch /\ live'[q].cancel = live[q].cancel
      BY <1>9, <3>1, CaptureFacts
    <3>3. QED
      BY <2>1, <3>1, <3>2
  <2>3. QED
    BY <1>g, <2>1, <2>2
<1>10. ASSUME NEW r \in TapeRuns, EmitFinish(r) PROVE Seated'
  <2>1. r \in DOMAIN runs
    BY <1>10 DEF EmitFinish, LastRuns
  <2>2. UNCHANGED <<stimulus, ring, entry, odd>> /\ Running' = Running \ {r}
    BY <1>10, <2>1, EmitFinishFacts
  <2>3. ASSUME NEW q \in Running, q # r PROVE Sits(q)'
    <3>1. q \in TapeRuns /\ Sits(q)
      BY <1>s, <2>2, <2>3, RunFacts
    <3>2. /\ live'[q].launch = live[q].launch /\ live'[q].cancel = live[q].cancel
          /\ live'[q].watch = live[q].watch
      BY <1>10, <2>1, <2>3, <3>1, EmitFinishFacts
    <3>3. QED
      BY <2>2, <3>1, <3>2
  <2>4. QED
    BY <1>g, <2>2, <2>3
<1>11. ASSUME NEW r \in TapeRuns, MarkEmitted(r) PROVE Seated'
  <2>1. UNCHANGED <<runs, stimulus, ring, entry, odd>> /\ Running' = Running
        /\ live[r].watch = "emitted"
    BY <1>11, MarkEmittedFacts
  <2>2. ASSUME NEW q \in Running PROVE Sits(q)'
    <3>1. q \in TapeRuns /\ Sits(q)
      BY <1>s, <2>1, <2>2, RunFacts
    <3>2. /\ live'[q].launch = live[q].launch /\ live'[q].cancel = live[q].cancel
          /\ live'[q].watch = IF q = r THEN "over" ELSE live[q].watch
      BY <1>11, <3>1, MarkEmittedFacts
    <3>3. QED
      BY <2>1, <3>1, <3>2
  <2>3. QED
    BY <1>g, <2>1, <2>2
<1>12. CASE UNCHANGED tapeVars
  BY <1>12 DEF tapeVars, Seated, Running
<1>13. QED
  BY <1>1, <1>2, <1>3, <1>4, <1>5, <1>6, <1>7, <1>8, <1>9, <1>10, <1>11, <1>12
     DEF TapeNext, ByStimulus, TurnEnds

\* Somebody's turn is under way only for a run that is there to take it.
LEMMA MeetsFacts ==
  ASSUME SettledInv, 0 \notin odd
  PROVE  /\ stimulus.pc = "takes" => Running = {entry} /\ entry = Len(runs)
         /\ stimulus.pc \in {"takes", "offers"} =>
              \A r \in Running : live[r].watch \in {"starts", "waits"}
         /\ stimulus.pc \in {"handed", "settles"} /\ stimulus.run # 0 =>
              /\ stimulus.run \in TapeRuns
              /\ live[stimulus.run].watch \in {"ended", "emitted", "over"}
              /\ stimulus.pc = "settles" => live[stimulus.run].watch = "over"
<1>t. TapeTypes /\ Typed /\ LastRuns /\ Launched /\ Seated /\ GivenTurn
  BY TypedFacts DEF SettledInv
<1>1. stimulus.pc = "takes" => Running = {entry} /\ entry = Len(runs)
  <2>1. SUFFICES ASSUME stimulus.pc = "takes" PROVE Running = {entry} /\ entry = Len(runs)
    OBVIOUS
  <2>2. Running = {Len(runs)}
    BY <1>t, <2>1 DEF GivenTurn, LastRuns
  <2>3. entry = Len(runs)
    BY <1>t, <2>1, <2>2 DEF Launched, Seated
  <2>4. QED
    BY <2>2, <2>3
<1>2. stimulus.pc \in {"takes", "offers"} =>
        \A r \in Running : live[r].watch \in {"starts", "waits"}
  BY <1>t DEF Seated, LastRuns
<1>3. stimulus.pc \in {"handed", "settles"} /\ stimulus.run # 0 =>
        /\ stimulus.run \in TapeRuns
        /\ live[stimulus.run].watch \in {"ended", "emitted", "over"}
        /\ stimulus.pc = "settles" => live[stimulus.run].watch = "over"
  BY <1>t DEF GivenTurn, Typed
<1>4. QED
  BY <1>1, <1>2, <1>3

\* Every step keeps GivenTurn.
LEMMA GivenTurnNext == SettledInv /\ [TapeNext]_tapeVars => GivenTurn'
<1> SUFFICES ASSUME SettledInv, [TapeNext]_tapeVars, 0 \notin odd' PROVE GivenTurn'
  BY DEF GivenTurn
<1>t. TapeTypes /\ Typed /\ LastRuns /\ Launched /\ Seated /\ GivenTurn
  BY TypedFacts DEF SettledInv
<1> USE <1>t
<1> DEFINE r0 == stimulus.run
           Handed == /\ r0 \in DOMAIN runs /\ r0 = Len(runs)
                     /\ Same(live[r0].result, stimulus.turn) /\ ~live[r0].result.stopped
                     /\ \/ live[r0].watch = "ended" /\ runs[r0] = "running"
                        \/ live[r0].watch \in {"emitted", "over"} /\ runs[r0] = "finished"
           Settled == /\ r0 \in DOMAIN runs /\ runs[r0] = "finished"
                      /\ live[r0].watch = "over" /\ Same(live[r0].result, stimulus.turn)
           Given == /\ stimulus.pc = "takes" => Running # {}
                    /\ stimulus.pc = "offers" => r0 \in Running
                    /\ stimulus.pc = "handed" => Handed
                    /\ stimulus.pc = "settles" /\ r0 # 0 => Settled
<1>s. 0 \notin odd => Given
  BY DEF GivenTurn
<1>g. Given' => GivenTurn'
  BY DEF GivenTurn
<1> HIDE DEF Given
<1>1. CASE DeliverMail \/ StopStimulus \/ CrashStimulus \/ LoadCassette
  <2>1. stimulus'.pc \in {"idle", "settles"} /\ stimulus'.run = 0
    BY <1>1, DeliverFacts, StopFacts, CrashFacts, LoadFacts DEF LastRuns
  <2>2. QED
    BY <1>g, <2>1 DEF Given
<1>2. CASE ByStimulus
  <2>1. UNCHANGED <<runs, live, entry, odd>> /\ Running' = Running /\ Given
    BY <1>2, <1>s, ByStimulusFacts
  <2>2. CASE Settle \/ GreenRun \/ SaveTurn
    <3>1. stimulus'.pc = "idle"
      BY <2>2 DEF Settle, GreenRun, SaveTurn, Fails, Quiet, LastRuns
    <3>2. QED
      BY <1>g, <3>1 DEF Given
  <2>3. CASE AgentStimulus
    <3>1. stimulus'.pc \in {"idle", "polls", "takes"} /\ (stimulus'.pc = "takes" => Running # {})
      BY <2>3 DEF AgentStimulus, Fails, Quiet
    <3>2. QED
      BY <1>g, <2>1, <3>1 DEF Given
  <2>4. CASE PollsIdle
    <3>1. stimulus'.pc = "settles" /\ stimulus'.run = 0
      BY <2>4 DEF PollsIdle, Settles, Typed, LastRuns
    <3>2. QED
      BY <1>g, <3>1 DEF Given
  <2>5. CASE TakeScripted \/ TakeRecorded
    <3>1. stimulus.pc = "takes" /\ (stimulus'.pc = "idle" \/ (stimulus'.pc = "offers" /\ stimulus'.run = entry))
      <4>1. Quiet.pc = "idle"
        BY DEF Quiet
      <4>2. CASE TakeScripted
        <5>1. PICK given : stimulus' = [pc |-> "offers", run |-> entry, turn |-> given]
          BY <4>2 DEF TakeScripted
        <5>2. QED
          BY <4>2, <5>1 DEF TakeScripted
      <4>3. CASE TakeRecorded
        BY <4>1, <4>3 DEF TakeRecorded, Fails
      <4>4. QED
        BY <2>5, <4>2, <4>3
    <3>2. Running = {entry}
      BY <2>1, <3>1, MeetsFacts
    <3>3. QED
      BY <1>g, <2>1, <3>1, <3>2 DEF Given
  <2>6. CASE TurnReturns
    <3>1. /\ stimulus.pc = "handed" /\ live[r0].emitted
          /\ stimulus'.pc = "settles" /\ stimulus'.run = r0 /\ stimulus'.turn = stimulus.turn
      BY <2>6 DEF TurnReturns, Settles, Typed
    <3>2. Handed
      BY <2>1, <3>1 DEF Given
    <3>3. r0 \in TapeRuns /\ live[r0].watch = "over"
      BY <3>1, <3>2 DEF Typed, LastRuns
    <3>4. Settled'
      BY <2>1, <3>1, <3>2, <3>3
    <3>5. QED
      BY <1>g, <3>1, <3>4 DEF Given
  <2>7. QED
    BY <1>2, <2>2, <2>3, <2>4, <2>5, <2>6 DEF ByStimulus
<1>3. ASSUME NEW r \in TapeRuns, Launch(r) \/ WaitStarts(r) \/ TurnEnds(r) PROVE GivenTurn'
  <2>1. UNCHANGED <<runs, stimulus, ring>> /\ Running' = Running /\ 0 \notin odd
    BY <1>3, LaunchFacts, WaitStartsFacts, TurnEndsFacts
  <2>2. Given
    BY <1>s, <2>1
  <2>3. stimulus.pc \in {"handed", "settles"} /\ r0 # 0 =>
          /\ r0 \in TapeRuns /\ live[r0].watch \notin {"starts", "waits"}
    BY <2>1, MeetsFacts
  <2>4. stimulus.pc \in {"handed", "settles"} /\ r0 # 0 =>
          live'[r0].watch = live[r0].watch /\ live'[r0].result = live[r0].result
    <3>1. SUFFICES ASSUME stimulus.pc \in {"handed", "settles"}, r0 # 0
                   PROVE  live'[r0].watch = live[r0].watch /\ live'[r0].result = live[r0].result
      OBVIOUS
    <3>2. CASE Launch(r)
      BY <2>3, <3>1, <3>2, LaunchFacts
    <3>3. CASE WaitStarts(r)
      BY <2>3, <3>1, <3>3, WaitStartsFacts
    <3>4. CASE TurnEnds(r)
      BY <2>3, <3>1, <3>4, TurnEndsFacts
    <3>5. QED
      BY <1>3, <3>2, <3>3, <3>4
  <2>5. Handed => r0 # 0
    BY DEF Typed
  <2>6. QED
    BY <1>g, <2>1, <2>2, <2>4, <2>5 DEF Given
<1>4. CASE HandOver
  <2>1. /\ UNCHANGED <<runs, ring, entry, odd>> /\ Running' = Running
        /\ stimulus.pc = "offers" /\ stimulus'.pc = "handed" /\ stimulus'.run = r0
        /\ stimulus'.turn = stimulus.turn
    BY <1>4, HandOverFacts
  <2>2. r0 \in Running /\ r0 \in TapeRuns /\ r0 \in DOMAIN runs /\ runs[r0] = "running" /\ r0 = Len(runs)
    BY <1>s, <2>1, RunFacts DEF Given, LastRuns
  <2>3. live'[r0].watch = "ended" /\ Same(live'[r0].result, stimulus.turn)
        /\ ~live'[r0].result.stopped
    BY <1>4, <2>2, HandOverFacts
  <2>4. Handed'
    BY <2>1, <2>2, <2>3
  <2>5. QED
    BY <1>g, <2>1, <2>4 DEF Given
<1>5. ASSUME NEW r \in TapeRuns, Capture(r) PROVE GivenTurn'
  <2>1. /\ UNCHANGED <<runs, stimulus, ring, entry, odd>> /\ Running' = Running /\ ring = "live"
        /\ live[r].watch = "ended"
    BY <1>5, CaptureFacts
  <2>2. stimulus.pc \notin {"takes", "offers", "handed"} /\ Given
    BY <1>s, <2>1 DEF LastRuns
  <2>3. stimulus.pc = "settles" /\ r0 # 0 =>
          /\ live'[r0].watch = live[r0].watch /\ live'[r0].result = live[r0].result
    BY <1>5, <2>1, MeetsFacts, CaptureFacts
  <2>4. QED
    BY <1>g, <2>1, <2>2, <2>3 DEF Given
<1>6. ASSUME NEW r \in TapeRuns, EmitFinish(r) PROVE GivenTurn'
  <2>1. r \in DOMAIN runs
    BY <1>6 DEF EmitFinish, LastRuns
  <2>2. /\ UNCHANGED <<stimulus, ring, entry, odd>>
        /\ Len(runs') = Len(runs) /\ DOMAIN runs' = DOMAIN runs /\ Running' = Running \ {r}
        /\ \A q \in DOMAIN runs : q # r => runs'[q] = runs[q]
        /\ runs'[r] = IF runs[r] = "stopping" \/ live[r].result.stopped THEN "stopped" ELSE "finished"
        /\ live[r].watch \in {"ended", "captured"} /\ (ring # "live" => live[r].watch = "ended")
        /\ \A q \in TapeRuns : /\ live'[q].result = live[q].result
                               /\ live'[q].watch = IF q = r THEN "emitted" ELSE live[q].watch
    BY <1>6, <2>1, EmitFinishFacts
  <2>3. Given
    BY <1>s, <2>2
  <2>4. stimulus.pc \in {"takes", "offers"} => r \notin Running
    BY <2>2, MeetsFacts
  <2>5. ASSUME stimulus.pc = "handed" PROVE Handed'
    <3>1. Handed /\ r0 \in TapeRuns
      BY <2>3, <2>5 DEF Given, Typed
    <3>2. CASE r = r0
      <4>1. live[r0].watch = "ended" /\ runs[r0] = "running" /\ ~live[r0].result.stopped
        BY <2>2, <3>1, <3>2
      <4>2. runs'[r0] = "finished" /\ live'[r0].watch = "emitted" /\ live'[r0].result = live[r0].result
        BY <2>2, <3>1, <3>2, <4>1
      <4>3. QED
        BY <2>2, <3>1, <4>2
    <3>3. CASE r # r0
      BY <2>2, <3>1, <3>3
    <3>4. QED
      BY <3>2, <3>3
  <2>6. ASSUME stimulus.pc = "settles", r0 # 0 PROVE Settled'
    <3>1. Settled /\ r0 \in TapeRuns
      BY <2>3, <2>6 DEF Given, Typed
    <3>2. r # r0
      BY <2>2, <3>1
    <3>3. QED
      BY <2>2, <3>1, <3>2
  <2>7. QED
    BY <1>g, <2>2, <2>3, <2>4, <2>5, <2>6 DEF Given
<1>7. ASSUME NEW r \in TapeRuns, MarkEmitted(r) PROVE GivenTurn'
  <2>1. /\ UNCHANGED <<runs, stimulus, ring, entry, odd>> /\ Running' = Running
        /\ live[r].watch = "emitted"
        /\ \A q \in TapeRuns : /\ live'[q].result = live[q].result
                               /\ live'[q].watch = IF q = r THEN "over" ELSE live[q].watch
    BY <1>7, MarkEmittedFacts
  <2>2. Given
    BY <1>s, <2>1
  <2>3. ASSUME stimulus.pc = "handed" PROVE Handed'
    <3>1. Handed /\ r0 \in TapeRuns
      BY <2>2, <2>3 DEF Given, Typed
    <3>2. QED
      BY <2>1, <3>1
  <2>4. ASSUME stimulus.pc = "settles", r0 # 0 PROVE Settled'
    <3>1. Settled /\ r0 \in TapeRuns
      BY <2>2, <2>4 DEF Given, Typed
    <3>2. QED
      BY <2>1, <3>1
  <2>5. QED
    BY <1>g, <2>1, <2>2, <2>3, <2>4 DEF Given
<1>8. CASE UNCHANGED tapeVars
  BY <1>8 DEF tapeVars, GivenTurn, Running
<1>9. QED
  BY <1>1, <1>2, <1>3, <1>4, <1>5, <1>6, <1>7, <1>8 DEF TapeNext, ByStimulus, TurnEnds

\* The agent command takes its turn from the script, or from the cassette's queue.
LEMMA TakeFacts ==
  ASSUME Typed, TakeRecorded
  PROVE  /\ ring = "recorded" /\ stimulus.pc = "takes" /\ UNCHANGED <<tape, folder, runs, live, odd>>
         /\ \/ ring' = "failed"
            \/ /\ ring' = ring /\ queue # <<>> /\ queue' = Tail(queue)
               /\ Head(queue).in = box.in
               /\ box' = [box EXCEPT !.out = @ \cup Head(queue).out]
               /\ stimulus'.pc = "offers" /\ stimulus'.turn = Head(queue)
BY DEF TakeRecorded, Fails

\* A part of the tape is one still when the next turn is captured.
LEMMA TapePart ==
  ASSUME NEW s \in Seq(TapedTurn), NEW t \in Seq(TapedTurn), NEW x \in TapedTurn,
         Len(s) <= Len(t), \A i \in DOMAIN s : s[i] = t[i]
  PROVE  Len(s) <= Len(Append(t, x)) /\ \A i \in DOMAIN s : s[i] = Append(t, x)[i]
BY DEF TapedTurn

\* A part of the tape that the next turn of it is added to is a part of it.
LEMMA SavedPart ==
  ASSUME NEW s \in Seq(TapedTurn), NEW t \in Seq(TapedTurn),
         Len(s) < Len(t), \A i \in DOMAIN s : s[i] = t[i]
  PROVE  /\ Len(Append(s, t[Len(s) + 1])) = Len(s) + 1 /\ Len(s) + 1 <= Len(t)
         /\ \A i \in DOMAIN Append(s, t[Len(s) + 1]) : Append(s, t[Len(s) + 1])[i] = t[i]
<1>1. t[Len(s) + 1] \in TapedTurn /\ Len(s) + 1 \in Nat
  OBVIOUS
<1>2. PICK x \in TapedTurn : x = t[Len(s) + 1]
  BY <1>1
<1>3. /\ Len(Append(s, x)) = Len(s) + 1 /\ DOMAIN Append(s, x) = 1..(Len(s) + 1)
      /\ \A i \in 1..(Len(s) + 1) : Append(s, x)[i] = IF i = Len(s) + 1 THEN x ELSE s[i]
  OBVIOUS
<1>4. QED
  BY <1>2, <1>3

\* The rest of a queue is the rest of the folder, and its head the turn before it.
LEMMA QueuePart ==
  ASSUME NEW q \in Seq(TapedTurn), NEW f \in Seq(TapedTurn), q # <<>>, Len(q) <= Len(f),
         \A i \in DOMAIN q : q[i] = f[Len(f) - Len(q) + i]
  PROVE  /\ Tail(q) \in Seq(TapedTurn) /\ Len(Tail(q)) < Len(f)
         /\ Head(q) = f[Len(f) - Len(Tail(q))]
         /\ \A i \in DOMAIN Tail(q) : Tail(q)[i] = f[Len(f) - Len(Tail(q)) + i]
<1>1. /\ Len(q) \in Nat /\ Len(q) > 0 /\ DOMAIN q = 1..Len(q) /\ Len(f) \in Nat
      /\ Tail(q) \in Seq(TapedTurn) /\ Len(Tail(q)) = Len(q) - 1 /\ Head(q) = q[1]
      /\ DOMAIN Tail(q) = 1..(Len(q) - 1)
      /\ \A i \in 1..(Len(q) - 1) : Tail(q)[i] = q[i + 1]
  OBVIOUS
<1>2. Head(q) = f[Len(f) - Len(q) + 1] /\ Len(f) - Len(q) + 1 = Len(f) - Len(Tail(q))
  BY <1>1
<1>3. ASSUME NEW i \in DOMAIN Tail(q) PROVE Tail(q)[i] = f[Len(f) - Len(Tail(q)) + i]
  <2>1. i + 1 \in DOMAIN q /\ Tail(q)[i] = q[i + 1] /\ i \in Nat
    BY <1>1, <1>3
  <2>2. q[i + 1] = f[Len(f) - Len(q) + (i + 1)]
    BY <2>1
  <2>3. Len(f) - Len(q) + (i + 1) = Len(f) - Len(Tail(q)) + i
    BY <1>1, <2>1
  <2>4. QED
    BY <2>1, <2>2, <2>3
<1>4. QED
  BY <1>1, <1>2, <1>3

\* What leaves the cassette and the played turn alone.
Unwound == /\ UNCHANGED <<earlier, tape, folder, queue, step>>
           /\ ring' \in {ring, "failed"}
           /\ \/ stimulus'.pc \notin {"offers", "handed"}
              \/ /\ stimulus.pc \in {"offers", "handed"} /\ stimulus'.turn = stimulus.turn
                 /\ ring = "recorded" => box'.in = box.in

\* Wound is about these alone.
LEMMA UnwoundKeeps == Wound /\ Unwound => Wound'
BY DEF Wound, Unwound

\* The cassette's first state.
LEMMA WoundInit == TapeInit => Wound /\ Emptied
BY DEF TapeInit, Wound, Emptied, Running, Quiet

\* Every step keeps Wound.
LEMMA WoundNext == SettledInv /\ Wound /\ [TapeNext]_tapeVars => Wound'
<1> SUFFICES ASSUME SettledInv, Wound, [TapeNext]_tapeVars PROVE Wound'
  OBVIOUS
<1>t. TapeTypes /\ Typed /\ LastRuns /\ Launched
  BY TypedFacts DEF SettledInv
<1>u. tape \in Seq(TapedTurn) /\ folder \in Seq(TapedTurn) /\ queue \in Seq(TapedTurn) /\ step \in Nat
      /\ box \in [in : SUBSET TapeFile, out : SUBSET TapeFile]
  BY <1>t DEF TapeTypes
<1>1. CASE DeliverMail \/ StopStimulus \/ CrashStimulus \/ AgentStimulus
  <2>1. UNCHANGED <<earlier, tape, folder, queue>> /\ ring' \in {ring, "failed"} /\ ring # "saving"
    BY <1>1 DEF DeliverMail, StopStimulus, CrashStimulus, AgentStimulus, Plays, cassette, Fails
  <2>2. stimulus'.pc \notin {"offers", "handed"}
    BY <1>1, <1>t, DeliverFacts, StopFacts, CrashFacts DEF AgentStimulus, Fails, Quiet
  <2>3. QED
    BY <2>1, <2>2 DEF Wound
<1>2. CASE Settle \/ PollsIdle \/ TurnReturns
  <2>1. UNCHANGED <<earlier, tape, folder, queue, step, ring>>
    BY <1>2 DEF Settle, PollsIdle, TurnReturns, cassette
  <2>2. stimulus'.pc \notin {"offers", "handed"}
    BY <1>2, <1>t DEF Settle, PollsIdle, TurnReturns, Settles, Quiet, Typed
  <2>3. QED
    BY <2>1, <2>2, UnwoundKeeps DEF Unwound
<1>3. CASE TakeScripted
  BY <1>3 DEF TakeScripted, cassette, Wound
<1>4. CASE TakeRecorded
  <2>1. ring = "recorded" /\ UNCHANGED <<earlier, tape, folder, step>>
    BY <1>4 DEF TakeRecorded
  <2>2. CASE ring' = "failed"
    BY <2>1, <2>2 DEF Wound
  <2>3. CASE ring' # "failed"
    <3>1. /\ ring' = ring /\ queue # <<>> /\ queue' = Tail(queue) /\ Head(queue).in = box.in
          /\ box' = [box EXCEPT !.out = @ \cup Head(queue).out]
          /\ stimulus'.pc = "offers" /\ stimulus'.turn = Head(queue)
      BY <1>4, <1>t, <2>3, TakeFacts
    <3>2. box'.in = box.in
      BY <1>u, <3>1
    <3>3. Len(queue) <= Len(folder) /\ \A i \in DOMAIN queue : queue[i] = folder[Len(folder) - Len(queue) + i]
      BY <2>1 DEF Wound
    <3>4. /\ Len(queue') < Len(folder) /\ Head(queue) = folder[Len(folder) - Len(queue')]
          /\ \A i \in DOMAIN queue' : queue'[i] = folder[Len(folder) - Len(queue') + i]
          /\ queue' \in Seq(TapedTurn)
      BY <1>u, <3>1, <3>3, QueuePart
    <3>5. Len(queue') <= Len(folder)
      BY <1>u, <3>4
    <3>6. QED
      BY <2>1, <3>1, <3>2, <3>4, <3>5 DEF Wound
  <2>4. QED
    BY <2>2, <2>3
<1>5. CASE HandOver
  <2>1. stimulus.pc = "offers" /\ stimulus'.pc = "handed" /\ stimulus'.turn = stimulus.turn
    BY <1>5, <1>t, HandOverFacts
  <2>2. UNCHANGED <<earlier, tape, folder, queue, step, ring, box>>
    BY <1>5 DEF HandOver, cassette
  <2>3. QED
    BY <2>1, <2>2, UnwoundKeeps DEF Unwound
<1>6. CASE GreenRun
  <2>1. ring = "live" /\ ring' = "saving" /\ step' = 0 /\ UNCHANGED <<earlier, tape, folder, queue>>
    BY <1>6 DEF GreenRun, cassette
  <2>2. QED
    BY <2>1 DEF Wound
<1>7. CASE SaveTurn
  <2>1. ring = "saving" /\ step < Len(tape) /\ step' = step + 1 /\ UNCHANGED <<earlier, tape, queue>>
        /\ ring' \in {"saving", "failed"}
    BY <1>7 DEF SaveTurn, Fails
  <2>2. CASE earlier
    BY <2>1, <2>2 DEF Wound
  <2>3. CASE ~earlier
    <3>1. Len(folder) = step /\ \A i \in DOMAIN folder : folder[i] = tape[i]
      BY <2>1, <2>3 DEF Wound
    <3>2. \/ ring' = "failed" /\ folder' = folder
          \/ folder' = Append(folder, tape[step + 1])
      BY <1>7, <1>u, <3>1 DEF SaveTurn, Fails
    <3>3. CASE ring' = "failed" /\ folder' = folder
      BY <2>1, <3>3 DEF Wound
    <3>4. CASE folder' = Append(folder, tape[step + 1])
      <4>1. /\ Len(folder') = step' /\ Len(folder') <= Len(tape)
            /\ \A i \in DOMAIN folder' : folder'[i] = tape[i]
        BY <1>u, <2>1, <3>1, <3>4, SavedPart
      <4>2. QED
        BY <2>1, <4>1 DEF Wound
    <3>5. QED
      BY <3>2, <3>3, <3>4
  <2>4. QED
    BY <2>2, <2>3
<1>8. CASE LoadCassette
  <2>1. ring' = "recorded" /\ queue' = folder /\ UNCHANGED <<earlier, tape, folder>>
    BY <1>8 DEF LoadCassette
  <2>2. stimulus'.pc = "idle"
    BY <1>8, LoadFacts
  <2>3. /\ Len(queue') <= Len(folder')
        /\ \A i \in DOMAIN queue' : queue'[i] = folder'[Len(folder') - Len(queue') + i]
    BY <1>u, <2>1
  <2>4. QED
    BY <2>1, <2>2, <2>3 DEF Wound
<1>9. ASSUME NEW r \in TapeRuns, Launch(r) PROVE Wound'
  <2>1. stimulus.pc = "settles" /\ stimulus' = stimulus
    BY <1>9, <1>t, LaunchFacts DEF Launched
  <2>2. UNCHANGED <<earlier, tape, folder, queue, step, ring>>
    BY <1>9 DEF Launch, cassette
  <2>3. QED
    BY <2>1, <2>2, UnwoundKeeps DEF Unwound
<1>10. ASSUME NEW r \in TapeRuns, WaitStarts(r) \/ WaitStopped(r) \/ EmitFinish(r) \/ MarkEmitted(r)
       PROVE  Wound'
  <2>1. UNCHANGED <<earlier, tape, folder, queue, step, ring, box, stimulus>>
    BY <1>10 DEF WaitStarts, WaitStopped, EmitFinish, MarkEmitted, cassette
  <2>2. QED
    BY <2>1, UnwoundKeeps DEF Unwound
<1>11. ASSUME NEW r \in TapeRuns, LiveTurnEnds(r) PROVE Wound'
  <2>1. ring = "live" /\ UNCHANGED <<earlier, tape, folder, queue, step, ring, stimulus>>
    BY <1>11 DEF LiveTurnEnds, cassette
  <2>2. QED
    BY <2>1, UnwoundKeeps DEF Unwound
<1>12. ASSUME NEW r \in TapeRuns, Capture(r) PROVE Wound'
  <2>1. ring = "live" /\ UNCHANGED <<ring, earlier, folder, queue, step>>
    BY <1>12 DEF Capture
  <2>2. [live[r].result EXCEPT !.in = box.in, !.out = box.out] \in TapedTurn
    BY <1>t, <1>u DEF Typed, LiveType, TapedTurn
  <2>3. PICK x \in TapedTurn : tape' = Append(tape, x)
    BY <1>12, <2>2 DEF Capture
  <2>4. CASE ~earlier
    <3>1. Len(folder) <= Len(tape') /\ \A i \in DOMAIN folder : folder[i] = tape'[i]
      <4>1. Len(folder) <= Len(tape) /\ \A i \in DOMAIN folder : folder[i] = tape[i]
        BY <2>4 DEF Wound
      <4>2. QED
        BY <1>u, <2>3, <4>1, TapePart
    <3>2. QED
      BY <2>1, <2>4, <3>1 DEF Wound
  <2>5. CASE earlier
    BY <2>1, <2>5 DEF Wound
  <2>6. QED
    BY <2>4, <2>5
<1>13. CASE UNCHANGED tapeVars
  BY <1>13 DEF tapeVars, Wound
<1>14. QED
  BY <1>1, <1>2, <1>3, <1>4, <1>5, <1>6, <1>7, <1>8, <1>9, <1>10, <1>11, <1>12, <1>13 DEF TapeNext

\* Every step keeps Emptied.
LEMMA EmptiedNext == SettledInv /\ Emptied /\ [TapeNext]_tapeVars => Emptied'
<1> SUFFICES ASSUME SettledInv, Emptied, [TapeNext]_tapeVars, odd' = {}, ring' = "recorded"
             PROVE  Emptied'
  BY DEF Emptied
<1>t. TapeTypes /\ Typed /\ LastRuns /\ Launched /\ Seated /\ GivenTurn
  BY TypedFacts DEF SettledInv
<1>u. box \in [in : SUBSET TapeFile, out : SUBSET TapeFile]
  BY <1>t DEF TapeTypes
<1> USE <1>t
<1> DEFINE Played == stimulus.pc \in {"offers", "handed"}
           Clean == \A r \in Running : live[r].launch = "over" => box.out = {}
           Full == box.out = stimulus.turn.out
<1>s. odd = {} /\ ring = "recorded" => IF Played THEN Full ELSE Clean
  BY DEF Emptied
<1>g. (IF Played' THEN Full' ELSE Clean') => Emptied'
  BY DEF Emptied
<1>1. CASE DeliverMail
  <2>1. Running' = {Len(runs) + 1} /\ live'[Len(runs) + 1] = Declared /\ ~Played'
    BY <1>1, DeliverFacts
  <2>2. QED
    BY <2>1, <1>g, RunFacts
<1>2. CASE StopStimulus \/ LoadCassette
  <2>1. Running' = {} /\ ~Played'
    BY <1>2, StopFacts, LoadFacts
  <2>2. QED
    BY <2>1, <1>g
<1>3. CASE CrashStimulus
  BY <1>3, CrashFacts
<1>4. CASE Settle \/ PollsIdle \/ AgentStimulus
  <2>1. UNCHANGED <<box, ring, runs, live, odd>> /\ Running' = Running
    BY <1>4 DEF Settle, PollsIdle, AgentStimulus, Fails, cassette, Running
  <2>2. ~Played /\ ~Played'
    BY <1>4 DEF Settle, PollsIdle, AgentStimulus, Fails, Plays, Settles, Quiet, Typed
  <2>3. QED
    BY <1>g, <1>s, <2>1, <2>2
<1>5. CASE TakeScripted \/ GreenRun \/ SaveTurn
  BY <1>5 DEF TakeScripted, GreenRun, SaveTurn, Fails
<1>6. CASE TakeRecorded
  <2>1. /\ ring = "recorded" /\ stimulus.pc = "takes" /\ odd = {}
        /\ box' = [box EXCEPT !.out = @ \cup Head(queue).out]
        /\ stimulus'.pc = "offers" /\ stimulus'.turn = Head(queue)
    BY <1>6, TakeFacts
  <2>2. Running = {entry} /\ \A r \in Running : live[r].launch = "over"
    BY <2>1, MeetsFacts DEF Launched
  <2>3. box.out = {}
    BY <1>s, <2>1, <2>2
  <2>4. box'.out = Head(queue).out
    BY <1>u, <2>1, <2>3
  <2>5. QED
    BY <1>g, <2>1, <2>4
<1>7. CASE HandOver
  <2>1. /\ stimulus.pc = "offers" /\ stimulus'.pc = "handed" /\ stimulus'.turn = stimulus.turn
        /\ UNCHANGED <<ring, odd>>
    BY <1>7, HandOverFacts
  <2>2. UNCHANGED box
    BY <1>7 DEF HandOver
  <2>3. QED
    BY <1>g, <1>s, <2>1, <2>2
<1>8. CASE TurnReturns
  <2>1. /\ stimulus.pc = "handed" /\ live[stimulus.run].emitted /\ stimulus'.pc = "settles"
        /\ UNCHANGED <<runs, odd>> /\ Running' = Running
    BY <1>8 DEF TurnReturns, Settles, Running, Typed
  <2>2. stimulus.run \in DOMAIN runs /\ stimulus.run = Len(runs) /\ stimulus.run \in TapeRuns
    BY <2>1 DEF GivenTurn, Typed
  <2>3. live[stimulus.run].watch = "over"
    BY <2>1, <2>2 DEF LastRuns
  <2>4. runs[stimulus.run] = "finished"
    BY <2>1, <2>3 DEF GivenTurn
  <2>5. Running = {}
    BY <2>2, <2>4 DEF LastRuns, Running
  <2>6. QED
    BY <1>g, <2>1, <2>5
<1>9. ASSUME NEW r \in TapeRuns, Launch(r) PROVE Emptied'
  <2>1. /\ UNCHANGED <<stimulus, ring>> /\ Running' = Running /\ entry # r
        /\ live[r].launch = "owed" /\ r \in Running
    BY <1>9, LaunchFacts
  <2>2. ~Played /\ ~Played'
    BY <2>1 DEF Launched
  <2>3. box'.out = {}
    BY <1>9, <2>1 DEF Launch
  <2>4. QED
    BY <1>g, <2>2, <2>3
<1>10. ASSUME NEW r \in TapeRuns, WaitStarts(r) \/ WaitStopped(r) \/ MarkEmitted(r) PROVE Emptied'
  <2>1. UNCHANGED <<runs, stimulus, ring>> /\ Running' = Running /\ odd = {}
        /\ \A q \in TapeRuns : live'[q].launch = live[q].launch
    BY <1>10, WaitStartsFacts, TurnEndsFacts, MarkEmittedFacts DEF TurnEnds
  <2>2. UNCHANGED box
    BY <1>10 DEF WaitStarts, WaitStopped, MarkEmitted
  <2>3. \A q \in Running : live'[q].launch = live[q].launch
    BY <2>1, RunFacts
  <2>4. QED
    BY <1>g, <1>s, <2>1, <2>2, <2>3
<1>11. ASSUME NEW r \in TapeRuns, LiveTurnEnds(r) \/ Capture(r) PROVE Emptied'
  BY <1>11 DEF LiveTurnEnds, Capture
<1>12. ASSUME NEW r \in TapeRuns, EmitFinish(r) PROVE Emptied'
  <2>1. r \in DOMAIN runs
    BY <1>12 DEF EmitFinish, LastRuns
  <2>2. UNCHANGED <<stimulus, ring, odd>> /\ Running' = Running \ {r}
        /\ \A q \in TapeRuns : live'[q].launch = live[q].launch
    BY <1>12, <2>1, EmitFinishFacts
  <2>3. UNCHANGED box /\ \A q \in Running' : live'[q].launch = live[q].launch
    BY <1>12, <2>2, RunFacts DEF EmitFinish
  <2>4. QED
    BY <1>g, <1>s, <2>2, <2>3
<1>13. CASE UNCHANGED tapeVars
  BY <1>13 DEF tapeVars, Emptied, Running
<1>14. QED
  BY <1>1, <1>2, <1>3, <1>4, <1>5, <1>6, <1>7, <1>8, <1>9, <1>10, <1>11, <1>12, <1>13 DEF TapeNext

\* What is inductive of the rings, the initial states included.
TapeInv == SettledInv /\ Wound /\ Emptied

\* It holds of every behaviour.
LEMMA TapeInvariant == TapeSpec => []TapeInv
<1>1. TapeInit => TapeInv
  BY TapeTypesInit, LastRunsInit, WoundInit DEF TapeInv, SettledInv
<1>2. TapeInv /\ [TapeNext]_tapeVars => TapeInv'
  BY TapeTypesNext, LastRunsNext, LaunchedNext, SeatedNext, GivenTurnNext, WoundNext, EmptiedNext
     DEF TapeInv, SettledInv
<1>3. QED
  BY <1>1, <1>2, PTL DEF TapeSpec

(***************************************************************************)
(* The agent command settles the whole turn and meets somebody: the run    *)
(* that SimHarness or RecordedHarness offers the turn to is waiting for    *)
(* it, and when DeliverTurn returns that run has finished with that turn.  *)
(***************************************************************************)
THEOREM TurnsSettle == TapeSpec => []TurnSettled
<1>1. TapeInv => TurnSettled
  <2>1. SUFFICES ASSUME TapeInv, 0 \notin odd PROVE TurnSettled
    BY DEF TurnSettled
  <2>2. GivenTurn /\ SettledInv
    BY <2>1 DEF TapeInv, SettledInv
  <2>3. stimulus.pc = "offers" => live[stimulus.run].watch \in {"starts", "waits"}
    BY <2>1, <2>2, MeetsFacts DEF GivenTurn
  <2>4. stimulus.pc = "settles" /\ stimulus.run # 0 =>
          /\ runs[stimulus.run] = "finished"
          /\ Same(live[stimulus.run].result, stimulus.turn)
    BY <2>1, <2>2 DEF GivenTurn
  <2>5. QED
    BY <2>3, <2>4 DEF TurnSettled, Same
<1>2. QED
  BY <1>1, TapeInvariant, PTL

(***************************************************************************)
(* Staleness is loud (docs/13): a turn the recorded ring plays back has    *)
(* the in/ the run now has, is the tape's turn of this place, and leaves   *)
(* the out/ it left, however long the script and the tape are.             *)
(***************************************************************************)
THEOREM ReplaysAreReal == TapeSpec => []ReplayIsReality
<1>1. TapeInv => ReplayIsReality
  <2>1. SUFFICES ASSUME TapeInv, ring = "recorded", stimulus.pc \in {"offers", "handed"}
                 PROVE  ReplayIsReality
    BY DEF ReplayIsReality
  <2> DEFINE k == Len(folder) - Len(queue)
  <2>2. folder \in Seq(TapedTurn) /\ queue \in Seq(TapedTurn) /\ tape \in Seq(TapedTurn)
    BY <2>1 DEF TapeInv, SettledInv, TapeTypes
  <2>3. Len(queue) < Len(folder) /\ stimulus.turn = folder[k] /\ stimulus.turn.in = box.in
    BY <2>1 DEF TapeInv, Wound
  <2>4. k \in DOMAIN folder
    BY <2>2, <2>3
  <2>5. ~earlier => k \in DOMAIN tape /\ stimulus.turn = tape[k]
    <3>1. ~earlier => Len(folder) <= Len(tape) /\ folder[k] = tape[k]
      BY <2>1, <2>4 DEF TapeInv, Wound
    <3>2. QED
      BY <2>2, <2>3, <2>4, <3>1
  <2>6. odd = {} => box.out = stimulus.turn.out
    BY <2>1 DEF TapeInv, Emptied
  <2>7. QED
    BY <2>3, <2>5, <2>6 DEF ReplayIsReality
<1>2. QED
  BY <1>1, TapeInvariant, PTL
=============================================================================
