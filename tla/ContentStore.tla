----------------------------- MODULE ContentStore -----------------------------
(***************************************************************************)
(* The content store (decision-013): mails taken in, mails to send and the *)
(* archive, each row known by a key that makes adding it idempotent (the   *)
(* Message-ID, or task and filename), and the bytes the archive's rows     *)
(* refer to by their hash.  lite is SQLiteContent, whose calls are several *)
(* statements, each one a transaction; mem is MemoryContent, whose calls   *)
(* hold a mutex and happen as a whole, with the last statement of their    *)
(* twin.  Opening the database first brings one written by an older kasi,  *)
(* with the bytes inside the archive's rows, to the present schema.        *)
(*                                                                         *)
(* Abstracted: a row is its id and what it holds (a hash stands for the    *)
(* bytes); recipients, times, kinds and SQL are left out.                  *)
(***************************************************************************)
EXTENDS Naturals, Sequences, FiniteSets

CONSTANTS
  Callers,   \* goroutines that call the store
  MailKeys,  \* Message-IDs, <<id>>; <<>> is that of a mail that has none
  FileKeys,  \* <<task, filename>>
  Bytes,     \* contents
  MaxCalls   \* bound: calls of all callers

Unnamed == <<>>

ASSUME ContentAssumption == Unnamed \notin FileKeys

VARIABLES
  schema,  \* PRAGMA user_version
  old,     \* rows of the archive as version 0 kept them: id, key, bytes
  lite,    \* tables of SQLiteContent
  mem,     \* tables of MemoryContent
  call,    \* what each caller is in the middle of
  reply,   \* what its last call returned
  calls    \* calls so far

storeVars == <<schema, old, lite, mem, call, reply, calls>>
-----------------------------------------------------------------------------
\* A table is the set of its rows.
Row(id, key, data) == [id |-> id, key |-> key, data |-> data]
Keyed(rows, key) == {r \in rows : r.key = key}
Empty == [mail |-> {}, archive |-> {}, blobs |-> {}, next |-> [mail |-> 0, archive |-> 0]]

\* The next rowid: one above the greatest.  No row of these tables is deleted, so
\* it is one above the number of rows.
NextId(rows) == IF rows = {} THEN 1
                ELSE 1 + CHOOSE i \in {r.id : r \in rows} : \A r \in rows : r.id <= i

NoCall == [pc |-> "idle", table |-> "mail", key |-> Unnamed, data |-> CHOOSE b \in Bytes : TRUE]
Nothing == [lite |-> <<>>, mem |-> <<>>, key |-> Unnamed, table |-> "mail"]

\* A database that is new, or one of version 0, in which a file could be archived
\* for a task more than once.
StoreInit ==
  /\ schema = 0
  /\ old \in {{}} \cup {{Row(1, f, b), Row(2, g, c)} : f, g \in FileKeys, b, c \in Bytes}
  /\ lite = Empty /\ mem = Empty
  /\ call = [c \in Callers |-> NoCall]
  /\ reply = [c \in Callers |-> Nothing]
  /\ calls = 0

\* migrateContentV1: every byte string once; the rows keep their ids, and of two
\* for the same file the earliest stays.
Earliest(rows) == {r \in rows : \A s \in Keyed(rows, r.key) : r.id <= s.id}
Content(rows) == [Empty EXCEPT !.archive = Earliest(rows),
                               !.blobs = {r.data : r \in rows},
                               !.next.archive = NextId(rows) - 1]

MigrateLatest ==
  /\ schema = 0 /\ schema' = 1
  /\ LET Latest(rows) == {r \in rows : \A s \in Keyed(rows, r.key) : r.id >= s.id}
         t == [Empty EXCEPT !.archive = Latest(old), !.blobs = {r.data : r \in Latest(old)}]
     IN lite' = t /\ mem' = [t EXCEPT !.next.archive = NextId(t.archive) - 1]
  /\ UNCHANGED <<old, call, reply, calls>>

\* OpenSQLiteContent: the step and the new version are one transaction, so a crash
\* or an error leaves version 0 to be migrated again.  The in-memory twin has no
\* past: it is given the same rows.
Migrate ==
  /\ schema = 0 /\ schema' = 1
  /\ lite' = Content(old)
  /\ mem' = [Content(old) EXCEPT !.next.archive = NextId(Earliest(old)) - 1]
  /\ UNCHANGED <<old, call, reply, calls>>
-----------------------------------------------------------------------------
Begin(c, table, key, data, pc) ==
  /\ schema = 1 /\ call[c].pc = "idle" /\ calls < MaxCalls
  /\ call' = [call EXCEPT ![c] = [pc |-> pc, table |-> table, key |-> key, data |-> data]]
  /\ calls' = calls + 1

\* AddInbox, AddOutbox: SELECT, unless there is no Message-ID to look for.
AddMail(c, key, data) ==
  /\ Begin(c, "mail", key, data, IF key = Unnamed THEN "insert" ELSE "select")
  /\ UNCHANGED <<schema, old, lite, mem, reply>>

\* AddArchive: INSERT OR IGNORE of the bytes comes before the row that needs them.
AddArchive(c, key, data) ==
  /\ Begin(c, "archive", key, data, "select")
  /\ lite' = [lite EXCEPT !.blobs = @ \cup {data}]
  /\ UNCHANGED <<schema, old, mem, reply>>

\* The twin's call: the row of that key if there is one, else a new row.
Existing(t, c) == IF call[c].key = Unnamed THEN {} ELSE Keyed(t[call[c].table], call[c].key)
MemoryAdd(c) ==
  LET table == call[c].table
      id    == mem.next[table] + 1
      blobs == IF table = "archive" THEN mem.blobs \cup {call[c].data} ELSE mem.blobs
  IN IF Existing(mem, c) # {}
     THEN [tables |-> [mem EXCEPT !.blobs = blobs],
           id |-> (CHOOSE r \in Existing(mem, c) : TRUE).id]
     ELSE [tables |-> [mem EXCEPT ![table] = @ \cup {Row(id, call[c].key, call[c].data)},
                                  !.next[table] = id, !.blobs = blobs],
           id |-> id]

\* The call returns, an id or, <<>>, an error.
Return(c, id) ==
  LET twin == MemoryAdd(c)
  IN /\ mem' = twin.tables
     /\ reply' = [reply EXCEPT ![c] = [lite |-> id, mem |-> <<twin.id>>,
                                        key |-> call[c].key, table |-> call[c].table]]
     /\ call' = [call EXCEPT ![c] = NoCall]

SelectMisses(c) ==
  /\ call[c].pc = "select"
  /\ call' = [call EXCEPT ![c].pc = "insert"]
  /\ UNCHANGED <<schema, old, lite, mem, reply, calls>>

Select(c) ==
  /\ call[c].pc = "select"
  /\ LET found == Existing(lite, c)
     IN \/ /\ found = {}
           /\ call' = [call EXCEPT ![c].pc = "insert"]
           /\ UNCHANGED <<mem, reply>>
        \/ \E r \in found : Return(c, <<r.id>>)
  /\ UNCHANGED <<schema, old, lite, calls>>

\* INSERT: the key is UNIQUE, in the mail tables even when it is empty.
InsertTwice(c) ==
  /\ call[c].pc = "insert"
  /\ LET table == call[c].table
         id    == NextId(lite[table])
     IN lite' = [lite EXCEPT ![table] = @ \cup {Row(id, call[c].key, call[c].data)}] /\ Return(c, <<id>>)
  /\ UNCHANGED <<schema, old, calls>>

Insert(c) ==
  /\ call[c].pc = "insert"
  /\ LET table == call[c].table
         id    == NextId(lite[table])
     IN IF Keyed(lite[table], call[c].key) # {} THEN Return(c, <<>>) /\ UNCHANGED lite
        ELSE /\ lite' = [lite EXCEPT ![table] = @ \cup {Row(id, call[c].key, call[c].data)}]
             /\ Return(c, <<id>>)
  /\ UNCHANGED <<schema, old, calls>>

\* The process dies between two statements, or a statement fails.
CallCut(c) ==
  /\ call[c].pc # "idle"
  /\ call' = [call EXCEPT ![c] = NoCall]
  /\ UNCHANGED <<schema, old, lite, mem, reply, calls>>

StoreNext ==
  \/ Migrate
  \/ \E c \in Callers : \/ \E k \in MailKeys, b \in Bytes : AddMail(c, k, b)
                        \/ \E k \in FileKeys, b \in Bytes : AddArchive(c, k, b)
                        \/ Select(c) \/ Insert(c) \/ CallCut(c)

StoreSpec == StoreInit /\ [][StoreNext]_storeVars
-----------------------------------------------------------------------------
\* ArchiveByTask, ArchiveByID: SQLite joins the rows with the bytes, the twin looks
\* the bytes up and answers none if they are missing.
LiteReads == {r \in lite.archive : r.data \in lite.blobs}
MemReads == {r \in mem.archive : r.data \in mem.blobs}

\* Adding is idempotent and twinned (decision-013, decision-012): one row per key
\* and the first content for good, what two goroutines and a crash between two
\* statements do included; whoever is answered with an id got the row of its key,
\* from either store the same; the two stores read the same; no row lacks its
\* bytes; and the migration keeps the earliest of every file it found.  Mails
\* without a Message-ID are apart: the twin stores each, SQLite the first.
RowsFaithful ==
  LET named(t) == {r \in t.mail : r.key # Unnamed}
  IN /\ \A r, s \in lite.archive : r.key = s.key => r = s
     /\ \A r, s \in named(lite) : r.key = s.key => r = s
     /\ LiteReads = lite.archive /\ MemReads = LiteReads
     /\ {<<r.key, r.data>> : r \in named(mem)} = {<<r.key, r.data>> : r \in named(lite)}
     /\ \A c \in Callers : reply[c].lite # <<>> /\ reply[c].key # Unnamed =>
          /\ \E r \in Keyed(lite[reply[c].table], reply[c].key) : <<r.id>> = reply[c].lite
          /\ \E r \in Keyed(mem[reply[c].table], reply[c].key) : <<r.id>> = reply[c].mem
     /\ schema = 1 => Earliest(old) \subseteq LiteReads \cap MemReads
=============================================================================
