------------------------------ MODULE Absoluta ------------------------------
(***************************************************************************)
(* The alarm driver, mylife-home-core-plugins-driver-absoluta: the alarm   *)
(* panel writes a mail for each zone that becomes active or inactive; an   *)
(* ImapBox keeps a connection to the mailbox (engine/connection.ts), reads *)
(* the new mails (engine/engine.ts), and a store shared by the components  *)
(* of the box holds the zones (engine/store.ts) for the Zone components.   *)
(*                                                                         *)
(* The mailbox is external: mails get increasing sequence numbers, and may *)
(* be delivered out of the order of their dates.  The commands of one      *)
(* connection run in order; the range n:* of a fetch always has the last   *)
(* mail, also when n is beyond it (the star of IMAP).                      *)
(***************************************************************************)
EXTENDS Naturals, Sequences, SequencesExt, FiniteSets

CONSTANTS
  Zones,            \* the labels of the zones
  MaxMails,         \* bound: mails
  MaxEvents,        \* bound: errors of the connection and of fetches, creations and removals of the box
  MaxRefreshes      \* bound: refreshes in flight

VARIABLES
  mailbox,          \* mails [zone, active, date]; the sequence number is the position
  box,              \* the ImapBox: "none", "open" once created, "broken" when its removal failed
  conn,             \* "none", "connecting", "opening" (the mailbox), "connected"
  gone,             \* the connection has set its client to null
  lingering,        \* a client whose opening failed after its listeners were added
  lastSeq,          \* 0: null
  fetches,          \* the refreshes in flight: [from, read] in the order of their commands
  leaked,           \* those of a client that was dropped and not closed, with [own]: of this box
  dead,             \* those of a connection that was lost, and have still to fail
  interval,         \* the timer of the next refresh
  online, values,   \* the store
  zone,             \* the Zone components: [online, active]
  faults, boxes,
  quirks            \* history: see ZonesFollow

vars == <<mailbox, box, conn, gone, lingering, lastSeq, fetches, leaked, dead, interval, online, values, zone, faults,
          boxes, quirks>>

Inactive == [z \in Zones |-> FALSE]

Init ==
  /\ mailbox = <<>> /\ box = "none" /\ conn = "none" /\ gone = FALSE /\ leaked = <<>> /\ lingering = FALSE /\ lastSeq = 0 /\ fetches = <<>>
  /\ dead = 0 /\ interval = FALSE /\ online = FALSE /\ values = Inactive
  /\ zone = [z \in Zones |-> [online |-> FALSE, active |-> FALSE]] /\ faults = 0 /\ boxes = 0 /\ quirks = {}

(***************************************************************************)
(* The store: setActive tells the zones of a change; going offline makes   *)
(* all of them inactive.                                                   *)
(***************************************************************************)
setValues(vs) ==
  /\ values' = vs
  /\ zone' = [z \in Zones |-> [online |-> zone[z].online,
                               active |-> IF vs[z] # values[z] THEN vs[z] ELSE zone[z].active]]

setOffline ==
  IF ~online THEN UNCHANGED <<online, values, zone>>
  ELSE /\ online' = FALSE /\ values' = Inactive
       /\ zone' = [z \in Zones |-> [online |-> FALSE, active |-> IF values[z] THEN FALSE ELSE zone[z].active]]
\* the zones that were active are not read again: lastSeq stays
Forgets == IF \E z \in Zones : values[z] THEN {"reconnect"} ELSE {}

(***************************************************************************)
(* Connection.  A failed attempt is followed by another one.               *)
(***************************************************************************)
BoxCreate ==
  /\ box = "none" /\ faults + boxes < MaxEvents /\ boxes' = boxes + 1
  /\ box' = "open" /\ conn' = "connecting" /\ gone' = FALSE /\ lastSeq' = 0 /\ lingering' = FALSE
  /\ UNCHANGED <<mailbox, fetches, leaked, dead, interval, online, values, zone, faults, quirks>>

\* Engine.close; what its client has in flight ends without effect.  Without a client the close
\* throws: the store keeps what it has, and the component cannot be removed.
BoxDestroy ==
  /\ box = "open" /\ faults + boxes < MaxEvents /\ boxes' = boxes + 1
  /\ conn' = "none" /\ fetches' = <<>> /\ dead' = 0 /\ lingering' = FALSE
  /\ leaked' = [i \in DOMAIN leaked |-> [leaked[i] EXCEPT !.own = FALSE]]
  /\ IF gone
     THEN box' = "broken" /\ UNCHANGED <<interval, online, values, zone, quirks>>
     ELSE box' = "none" /\ interval' = FALSE /\ setOffline /\ quirks' = quirks \cup Forgets
  /\ UNCHANGED <<mailbox, gone, lastSeq, faults>>

\* the listeners are added to the client; when there is none this throws and the loop goes on
Connected ==
  /\ conn = "connecting" /\ conn' = (IF gone THEN "connecting" ELSE "opening") /\ gone' = FALSE
  /\ UNCHANGED <<mailbox, box, lingering, lastSeq, fetches, leaked, dead, interval, online, values, zone, faults, boxes,
                 quirks>>

\* fetch: the mails of the last three days, or those after the last one that was read, which is read
\* again when there are none; without a client it fails at once, and the store is online
Fetch == [from |-> IF lastSeq = 0 \/ lastSeq < Len(mailbox') THEN lastSeq + 1 ELSE lastSeq, read |-> <<>>,
          own |-> TRUE]
refresh ==
  IF gone THEN interval' = TRUE /\ UNCHANGED fetches ELSE interval' = FALSE /\ fetches' = Append(fetches, Fetch)

\* 'connected': onConnected, also when the client was dropped meanwhile ("deaf")
Opened ==
  /\ conn = "opening" /\ conn' = "connected" /\ UNCHANGED mailbox
  /\ online' = TRUE /\ zone' = [z \in Zones |-> [zone[z] EXCEPT !.online = TRUE]] /\ refresh
  /\ quirks' = quirks \cup (IF gone THEN {"deaf"} ELSE {})
  /\ UNCHANGED <<box, gone, lingering, lastSeq, leaked, dead, values, faults, boxes>>

Fault == faults + boxes < MaxEvents /\ faults' = faults + 1

OpenFails ==
  /\ conn \in {"connecting", "opening"} /\ Fault
  /\ conn' = "connecting" /\ gone' = FALSE /\ lingering' = (lingering \/ (conn = "opening" /\ ~gone))
  /\ UNCHANGED <<mailbox, box, lastSeq, fetches, leaked, dead, interval, online, values, zone, boxes, quirks>>

\* close or error: the client is dropped; onDisconnected; another attempt, unless one is pending,
\* which goes on without a client.  The fetches in flight of a lost client fail, and what they read
\* is not published; those of a client that is still connected go on.
Unpublished(fs) == IF \E i \in 1..Len(fs) : fs[i].read # <<>> THEN {"unpublished"} ELSE {}
reset(connected) ==
  /\ ~gone /\ setOffline /\ interval' = FALSE /\ fetches' = <<>>
  /\ IF conn = "connected" THEN conn' = "connecting" /\ UNCHANGED gone ELSE gone' = TRUE /\ UNCHANGED conn
  /\ IF connected
     THEN /\ leaked' = leaked \o fetches /\ UNCHANGED dead
          /\ quirks' = quirks \cup Forgets \cup (IF fetches # <<>> THEN {"leaked"} ELSE {})
     ELSE /\ dead' = dead + Len(fetches) /\ UNCHANGED leaked
          /\ quirks' = quirks \cup Forgets \cup Unpublished(fetches)
  /\ UNCHANGED <<mailbox, box, lastSeq, boxes>>
ConnectionLost == conn \in {"opening", "connected"} /\ Fault /\ reset(FALSE) /\ UNCHANGED lingering

\* the close of a client whose opening failed resets the connection that replaced it; the handler
\* throws when there is no client
LingeringClose ==
  /\ lingering /\ box = "open" /\ lingering' = FALSE /\ UNCHANGED faults
  /\ \/ reset(TRUE)
     \/ gone /\ UNCHANGED <<mailbox, box, conn, gone, lastSeq, fetches, leaked, dead, interval, online, values, zone, boxes,
                            quirks>>

(***************************************************************************)
(* Engine.refresh: the mails are read one at a time, and what they say is  *)
(* published at the end of the fetch, by the newest mail of each zone.     *)
(***************************************************************************)
Arrives(z, a, d) == mailbox' = Append(mailbox, [zone |-> z, active |-> a, date |-> d])
onUpdated ==
  /\ conn = "connected" /\ ~gone /\ Len(fetches) < MaxRefreshes /\ Len(mailbox) < MaxMails
  /\ \E z \in Zones, a \in BOOLEAN, d \in 1..MaxMails : Arrives(z, a, d)
  /\ refresh
  /\ UNCHANGED <<box, conn, gone, lingering, lastSeq, leaked, dead, online, values, zone, faults, boxes, quirks>>

\* a mail that comes while nobody listens
MailArrives ==
  /\ conn # "connected" \/ gone
  /\ Len(mailbox) < MaxMails
  /\ \E z \in Zones, a \in BOOLEAN, d \in 1..MaxMails : Arrives(z, a, d)
  /\ UNCHANGED <<box, conn, gone, lingering, lastSeq, fetches, leaked, dead, interval, online, values, zone, faults, boxes,
                 quirks>>

onInterval ==
  /\ interval /\ UNCHANGED mailbox /\ refresh
  /\ UNCHANGED <<box, conn, gone, lingering, lastSeq, leaked, dead, online, values, zone, faults, boxes, quirks>>

NextSeq(f) == f.from + Len(f.read)
HasNext(fs) == fs # <<>> /\ NextSeq(Head(fs)) <= Len(mailbox)
AtEnd(fs) == fs # <<>> /\ NextSeq(Head(fs)) > Len(mailbox)
ReadOne(fs) == <<[Head(fs) EXCEPT !.read = Append(@, NextSeq(Head(fs)))]>> \o Tail(fs)
Seen(f) == lastSeq' = IF f.own /\ NextSeq(f) > lastSeq THEN NextSeq(f) ELSE lastSeq

Reads ==
  /\ \/ HasNext(fetches) /\ fetches' = ReadOne(fetches) /\ Seen(Head(fetches)) /\ UNCHANGED leaked
     \/ HasNext(leaked) /\ leaked' = ReadOne(leaked) /\ Seen(Head(leaked)) /\ UNCHANGED fetches
  /\ UNCHANGED <<mailbox, box, conn, gone, lingering, dead, interval, online, values, zone, faults, boxes, quirks>>

\* of two mails of the same date the one with the higher seq
isNewer(m, n) == mailbox[m].date < mailbox[n].date \/ (mailbox[m].date = mailbox[n].date /\ m < n)
\* BatchUpdates.add over the mails read
Newest(read, z) ==
  FoldLeft(LAMBDA best, m : IF mailbox[m].zone = z /\ (best = 0 \/ isNewer(best, m)) THEN m ELSE best, 0, read)
LastRead(read, z) == FoldLeft(LAMBDA best, m : IF mailbox[m].zone = z THEN m ELSE best, 0, read)
batchLast(read, z) == LastRead(read, z)
batch(read, z) == Newest(read, z)
Published(read) == [z \in Zones |-> IF batch(read, z) = 0 THEN values[z] ELSE mailbox[batch(read, z)].active]

\* a mail published before one that is older
Late(read) ==
  IF \E i \in 1..Len(read) : \E m \in 1..read[1] - 1 : isNewer(read[i], m) /\ mailbox[m].zone = mailbox[read[i]].zone
  THEN {"late"} ELSE {}

Publishes(f) ==
  /\ setValues(Published(f.read)) /\ quirks' = quirks \cup Late(f.read)
  /\ interval' = IF f.own THEN interval \/ online ELSE interval
FetchEnds ==
  /\ \/ AtEnd(fetches) /\ fetches' = Tail(fetches) /\ Publishes(Head(fetches)) /\ UNCHANGED leaked
     \/ AtEnd(leaked) /\ leaked' = Tail(leaked) /\ Publishes(Head(leaked)) /\ UNCHANGED fetches
  /\ UNCHANGED <<mailbox, box, conn, gone, lingering, lastSeq, dead, online, faults, boxes>>

\* an error: what was read is not published
FetchFails ==
  /\ Fault
  /\ \/ /\ fetches # <<>> /\ fetches' = Tail(fetches) /\ UNCHANGED leaked
        /\ interval' = (interval \/ online) /\ quirks' = quirks \cup Unpublished(<<Head(fetches)>>)
     \/ /\ leaked # <<>> /\ leaked' = Tail(leaked) /\ UNCHANGED fetches
        /\ interval' = IF Head(leaked).own THEN interval \/ online ELSE interval
        /\ quirks' = quirks \cup Unpublished(<<Head(leaked)>>)
  /\ UNCHANGED <<mailbox, box, conn, gone, lingering, lastSeq, dead, online, values, zone, boxes>>

\* a refresh of a connection that was lost ends when it notices
DeadEnds ==
  /\ dead > 0 /\ dead' = dead - 1 /\ interval' = (interval \/ online)
  /\ UNCHANGED <<mailbox, box, conn, gone, lingering, lastSeq, fetches, leaked, online, values, zone, faults, boxes, quirks>>

Next ==
  \/ BoxCreate \/ BoxDestroy \/ Connected \/ Opened \/ OpenFails \/ ConnectionLost \/ LingeringClose
  \/ onUpdated \/ MailArrives \/ onInterval \/ Reads \/ FetchEnds \/ FetchFails \/ DeadEnds

Spec == Init /\ [][Next]_vars

(***************************************************************************)
(* Properties.                                                             *)
(***************************************************************************)
TypeOK ==
  /\ box \in {"none", "open", "broken"} /\ conn \in {"none", "connecting", "opening", "connected"}
  /\ (box = "open") = (conn # "none") /\ lastSeq \in 0..Len(mailbox) /\ interval \in BOOLEAN
  /\ values \in [Zones -> BOOLEAN] /\ quirks \subseteq {"reconnect", "late", "unpublished", "leaked", "deaf"}

\* The zones show what the store has.  The store is online exactly while a client with an open mailbox
\* serves the connection, and offline no zone is active ("Going offline: set all active to false"):
\* but a client that is dropped while its mailbox is being opened leaves the store online for good
\* with nobody to read ("deaf"), and one that is dropped by the close of another goes on with its
\* fetch, whose mails it publishes offline ("leaked").  An online store that nobody reads for has a
\* timer armed, whatever happened.
StoreFaithful ==
  /\ \A z \in Zones : zone[z].online = online /\ zone[z].active = values[z]
  /\ "deaf" \notin quirks => online = (conn = "connected")
  /\ "leaked" \notin quirks => (\A z \in Zones : values[z] => online)
  /\ online /\ fetches = <<>> => interval

LatestOf(z) ==
  LET mails == {m \in 1..Len(mailbox) : mailbox[m].zone = z}
      latest == {m \in mails : \A n \in mails : mailbox[n].date <= mailbox[m].date}
  IN IF mails = {} THEN FALSE ELSE mailbox[CHOOSE m \in latest : \A n \in latest : n <= m].active

\* Once the mails are read, a zone is what the newest mail about it says, whatever the order in which
\* mails arrived within a batch and however refreshes follow each other.  Four things break it for
\* good, as no mail but the last is read twice: a lost connection while a zone was active (the zones
\* are made inactive), a fetch that fails after it read mails (they are not published), a mail read in
\* a later batch than a newer one (or, being the last, read again after it), and a fetch that
\* publishes when its client was dropped.
ZonesFollow ==
  quirks \subseteq {"deaf"} /\ online /\ fetches = <<>> /\ lastSeq = Len(mailbox) => \A z \in Zones : values[z] = LatestOf(z)
=============================================================================
