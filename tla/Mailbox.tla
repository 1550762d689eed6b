------------------------------- MODULE Mailbox -------------------------------
(***************************************************************************)
(* How a poller takes mail out of its provider.  Inbound says that Fetch   *)
(* returns what lies between a cursor and the next; here is how it finds   *)
(* out, over Fastmail's JMAP (a cursor is a state of the account, and      *)
(* Email/changes tells what happened since, a window at a time) and over   *)
(* ForwardEmail's IMAP (a cursor is <<UIDVALIDITY, UIDNEXT>>, and SELECT   *)
(* and UID FETCH are two commands).  Mail arrives, is deleted and is       *)
(* renumbered while a Fetch is under way, any of whose requests may fail.  *)
(*                                                                         *)
(* Abstracted: a mail is the position it arrived in; what kasi itself sent *)
(* arrives like any other; tokens, sessions and syntax are left out.       *)
(***************************************************************************)
EXTENDS Naturals, Sequences, FiniteSets, SequencesExt

CONSTANTS
  MaxMails,   \* bound: mails
  MaxChanges, \* maxChanges of Email/changes
  MaxFaults   \* bound: deletions, renumberings, failing requests and deaths together

ASSUME MailboxAssumption ==
  MaxMails \in Nat /\ MaxChanges \in Nat \ {0} /\ MaxFaults \in Nat

VARIABLES
  protocol, \* "jmap" or "imap"
  born,     \* mails so far
  gone,     \* mails deleted
  quoted,   \* mails whose BODY[] the IMAP server does not send as a literal
  changes,  \* JMAP: what happened to mails, <<what, mail>>
  uids,     \* IMAP: the mail of each UID given out
  validity, \* IMAP: UIDVALIDITY
  cursor,   \* poll cursor in the log: <<>>, <<state>> or <<validity, uidNext>>
  poll,     \* the poller, from Fetch to record-poll-state
  routed,   \* history: how often each mail was handed to route()
  before,   \* history: mails there when kasi first anchored
  missed,   \* history: mails there when it anchored again
  faults    \* faults, and deaths among them

mailboxVars == <<protocol, born, gone, quoted, changes, uids, validity, cursor, poll,
                 routed, before, missed, faults>>
-----------------------------------------------------------------------------
Arrived == 1 .. born
Asleep == [pc |-> "asleep", next |-> <<>>, todo |-> {}, got |-> {}]
UidNext == Len(uids) + 1
Least(m, n) == IF m < n THEN m ELSE n
Greatest(S) == CHOOSE m \in S : \A n \in S : n <= m

MailboxInit ==
  /\ protocol \in {"jmap", "imap"}
  /\ born = 0 /\ gone = {} /\ quoted = {}
  /\ changes = <<>> /\ uids = <<>> /\ validity = 1
  /\ cursor = <<>> /\ poll = Asleep
  /\ routed = [m \in 1 .. MaxMails |-> 0] /\ before = {} /\ missed = {}
  /\ faults = [all |-> 0, deaths |-> 0]

-----------------------------------------------------------------------------
\* The provider.
poller == <<cursor, poll, routed, before, missed>>

Arrive(odd) ==
  /\ born < MaxMails /\ born' = born + 1
  /\ odd => protocol = "imap"
  /\ changes' = Append(changes, <<"created", born'>>)
  /\ uids' = Append(uids, born')
  /\ quoted' = IF odd THEN quoted \cup {born'} ELSE quoted
  /\ UNCHANGED <<protocol, gone, validity, poller, faults>>

Trouble == faults.all < MaxFaults /\ faults' = [faults EXCEPT !.all = @ + 1]

Expunge(m) ==
  /\ Trouble
  /\ m \in Arrived \ gone
  /\ gone' = gone \cup {m}
  /\ changes' = Append(changes, <<"destroyed", m>>)
  /\ UNCHANGED <<protocol, born, quoted, uids, validity, poller>>

\* The mailbox is rebuilt under a new UIDVALIDITY, which ends an IMAP session; what
\* is left is numbered from 1 again, in an order of the server's.
Renumber ==
  /\ Trouble
  /\ protocol = "imap" /\ poll.pc # "fetch"
  /\ validity' = validity + 1
  /\ uids' = SetToSeq(Arrived \ gone)
  /\ UNCHANGED <<protocol, born, gone, quoted, changes, poller>>
-----------------------------------------------------------------------------
provider == <<protocol, born, gone, quoted, changes, uids, validity>>

\* Fetch returns these, or nothing but a place to go on from.
Got(S, next) == poll' = [Asleep EXCEPT !.pc = "hand", !.got = S, !.next = next]

\* A place of which nothing earlier is ever asked for.
Anchor(next) ==
  /\ Got({}, next)
  /\ before' = IF cursor = <<>> THEN Arrived ELSE before
  /\ missed' = IF cursor = <<>> THEN missed ELSE missed \cup Arrived

\* JMAP.Fetch of the empty cursor: the state the account is in.
MailState ==
  /\ protocol = "jmap" /\ poll.pc = "asleep" /\ cursor = <<>>
  /\ Anchor(<<Len(changes)>>)
  /\ UNCHANGED <<provider, cursor, routed, faults>>

EmailChangesToTheEnd ==
  /\ protocol = "jmap" /\ poll.pc = "asleep" /\ cursor # <<>>
  /\ LET upto == Least(cursor[1] + MaxChanges, Len(changes))
     IN poll' = [pc |-> "download", got |-> {}, next |-> <<Len(changes)>>,
                 todo |-> {changes[i][2] : i \in {j \in cursor[1] + 1 .. upto :
                             changes[j][1] = "created" /\ changes[j][2] \notin gone}}]
  /\ UNCHANGED <<provider, cursor, routed, before, missed, faults>>

\* Email/changes, and Email/get of the ids created: a window of the changes, and of
\* the mails created in it those that are there.  That there are more is not
\* looked at: the new state is the end of the window.
EmailChanges ==
  /\ protocol = "jmap" /\ poll.pc = "asleep" /\ cursor # <<>>
  /\ LET upto == Least(cursor[1] + MaxChanges, Len(changes))
     IN poll' = [pc |-> "download", got |-> {}, next |-> <<upto>>,
                 todo |-> {changes[i][2] : i \in {j \in cursor[1] + 1 .. upto :
                             changes[j][1] = "created" /\ changes[j][2] \notin gone}}]
  /\ UNCHANGED <<provider, cursor, routed, before, missed, faults>>

\* One request per mail; the blob of one deleted meanwhile may be gone, and then
\* the whole Fetch has failed.
Download(m) ==
  /\ poll.pc = "download" /\ m \in poll.todo
  /\ \/ poll' = [poll EXCEPT !.todo = @ \ {m}, !.got = @ \cup {m}]
     \/ m \in gone /\ poll' = Asleep
  /\ UNCHANGED <<provider, cursor, routed, before, missed, faults>>

Downloaded ==
  /\ poll.pc = "download" /\ poll.todo = {}
  /\ Got(poll.got, poll.next)
  /\ UNCHANGED <<provider, cursor, routed, before, missed, faults>>

\* IMAP.Fetch up to SELECT: anchor on the empty cursor and when UIDVALIDITY has
\* changed; nothing new below UIDNEXT; or there is something to fetch.
SelectInbox ==
  /\ protocol = "imap" /\ poll.pc = "asleep"
  /\ LET next == <<validity, UidNext>>
     IN IF cursor = <<>> \/ Head(cursor) # validity THEN Anchor(next)
        ELSE /\ IF cursor[2] >= UidNext THEN Got({}, next)
                ELSE poll' = [Asleep EXCEPT !.pc = "fetch", !.next = next]
             /\ UNCHANGED <<before, missed>>
  /\ UNCHANGED <<provider, cursor, routed, faults>>

\* UID FETCH n:* of what is there by now, and of the highest UID whatever it is;
\* what is below n or no literal is not taken.
Listed == LET present == {u \in DOMAIN uids : uids[u] \notin gone}
          IN {u \in present : u >= cursor[2] \/ u = Greatest(present)}
Taken(S) == {u \in S : uids[u] \notin quoted}

UidFetch ==
  /\ poll.pc = "fetch"
  /\ LET new == Taken({u \in Listed : u >= cursor[2]})
     IN Got({uids[u] : u \in new},
            <<validity, Greatest({poll.next[2]} \cup {u + 1 : u \in new})>>)
  /\ UNCHANGED <<provider, cursor, routed, before, missed, faults>>

\* Any request may fail, or the answer be an error: the poll is over, the cursor
\* what it was.
FetchFails ==
  /\ Trouble
  /\ poll.pc \in {"download", "fetch"} /\ poll' = Asleep
  /\ UNCHANGED <<provider, cursor, routed, before, missed>>
-----------------------------------------------------------------------------
\* pollInbox, pollForwardEmail: one mail after the other, then the cursor.
RouteMail(m) ==
  /\ poll.pc = "hand" /\ m \in poll.got
  /\ poll' = [poll EXCEPT !.got = @ \ {m}]
  /\ routed' = [routed EXCEPT ![m] = @ + 1]
  /\ UNCHANGED <<provider, cursor, before, missed, faults>>

RecordPollState ==
  /\ poll.pc = "hand" /\ poll.got = {}
  /\ cursor' = poll.next /\ poll' = Asleep
  /\ UNCHANGED <<provider, routed, before, missed, faults>>

\* kasi dies, and polls from the logged cursor when it is back.
PollerDies ==
  /\ faults.all < MaxFaults /\ poll.pc # "asleep"
  /\ faults' = [all |-> faults.all + 1, deaths |-> faults.deaths + 1]
  /\ poll' = Asleep
  /\ UNCHANGED <<provider, cursor, routed, before, missed>>

MailboxNext ==
  \/ \E odd \in BOOLEAN : Arrive(odd)
  \/ \E m \in 1 .. MaxMails : Expunge(m) \/ Download(m) \/ RouteMail(m)
  \/ Renumber \/ MailState \/ EmailChanges \/ Downloaded \/ SelectInbox \/ UidFetch
  \/ FetchFails \/ RecordPollState \/ PollerDies

MailboxSpec == MailboxInit /\ [][MailboxNext]_mailboxVars
-----------------------------------------------------------------------------
\* The mails before the cursor.
Passed ==
  IF cursor = <<>> THEN {}
  ELSE IF protocol = "jmap"
  THEN {changes[i][2] : i \in {j \in 1 .. cursor[1] : changes[j][1] = "created"}}
  ELSE {uids[u] : u \in {v \in DOMAIN uids : cursor[1] = validity /\ v < cursor[2]}}

\* The cursor is exact (decision-018; email/imap.go, "a fresh deployment anchors to
\* now and never ingests the whole existing mailbox"): what was there at first is
\* never taken in; whatever else the cursor has passed was handed over, in spite of
\* arrivals, deletions, failed requests and deaths in the middle of a poll, unless it
\* had been deleted; and nothing is handed over again but by a death before the
\* cursor was logged.  Passed over are only the mails of a mailbox that was
\* renumbered, and over IMAP one whose text is not sent as a literal.
CursorExact ==
  /\ \A m \in Passed : \/ m \in before \cup missed \cup gone
                       \/ protocol = "imap" /\ m \in quoted
                       \/ routed[m] > 0
  /\ \A m \in before : routed[m] = 0
  /\ \A m \in Arrived : routed[m] <= 1 + faults.deaths
=============================================================================
