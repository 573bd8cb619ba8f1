---------------------------- MODULE PrivacyStore ----------------------------
(***************************************************************************)
(* The encrypted session files of the companion                            *)
(* (companion/privacy-store.mjs) under concurrent requests of the browser: *)
(* save, load, list, sweep and remove, each of which first opens the store *)
(* (initialize), failures of the native helper and of the disk, and        *)
(* crashes.                                                                *)
(*                                                                         *)
(* An action is what follows an await that ended.  initialize sets its     *)
(* flag before it sweeps, sweep lists, list loads, and load and remove     *)
(* open the store again: a call holds a stack of scans of the directory,   *)
(* each waiting for the one above it.                                      *)
(*                                                                         *)
(* What a file holds is the version of its snapshot and the day it         *)
(* expires.  Temporary files are left out: no reader looks at them.        *)
(***************************************************************************)
EXTENDS Naturals, Sequences, FiniteSets

CONSTANTS
  Ids,          \* session ids
  None,         \* no session
  Limit,        \* maximumStoredSessions, 100 in the code
  MaxCalls,     \* bound of the model: calls under way at a time
  MaxRequests,  \* bound of the model: calls in a run
  MaxClock      \* bound of the model: days

ASSUME StoreConstants ==
  /\ None \notin Ids
  /\ Limit \in Nat
  /\ MaxCalls \in Nat /\ MaxRequests \in Nat /\ MaxClock \in Nat

VARIABLES
  disk,         \* the .tmps files
  initialized,  \* the flag of initialize
  calls,        \* calls that wait for the helper or the disk
  clock,        \* the day
  requests,     \* calls so far
  overlap,      \* history: the most saves that were past the check of the limit at a time
  saved,        \* history: the version of a session that is promised to stay, 0 for none
  unread        \* history: sessions that a scan of this run could not read

vars == <<disk, initialized, calls, clock, requests, overlap, saved, unread>>

Snapshot == [version : 0..MaxRequests, expires : 1..MaxClock + 1]

Disks == UNION {[names -> Snapshot] : names \in SUBSET Ids}

\* A scan waits for the helper to provision the directory, for the names, for one
\* file, or for the removal of an expired one; names are those still to be handled.
Scan == [for : {"open", "list", "sweep"}, at : {"provision", "dir", "read", "unlink"},
         id : Ids \cup {None}, names : SUBSET Ids, expired : SUBSET Ids]

Call == [key : 1..MaxRequests, op : {"save", "load", "list", "sweep", "remove"},
         id : Ids \cup {None}, file : Snapshot,
         at : {"init", "scan", "check", "write", "rename", "read", "unlink", "done"},
         scans : Seq(Scan)]

TypeOK ==
  /\ disk \in Disks
  /\ initialized \in BOOLEAN
  /\ calls \subseteq Call /\ Cardinality(calls) <= MaxCalls
  /\ clock \in 0..MaxClock /\ requests \in 0..MaxRequests
  /\ overlap \in 0..MaxCalls
  /\ saved \in [Ids -> 0..MaxRequests]
  /\ unread \subseteq Ids

Init ==
  /\ disk = [id \in {} |-> 0]
  /\ initialized = FALSE /\ calls = {} /\ clock = 0 /\ requests = 0
  /\ overlap = 0 /\ saved = [id \in Ids |-> 0] /\ unread = {}

-----------------------------------------------------------------------------
(* Files *)

With(id, file) == [name \in DOMAIN disk \cup {id} |-> IF name = id THEN file ELSE disk[name]]

WithoutFile(id) == [name \in DOMAIN disk \ {id} |-> disk[name]]

Expired(id) == id \in DOMAIN disk /\ disk[id].expires <= clock

-----------------------------------------------------------------------------
(* The stack of a call *)

Becomes(c, d) == calls' = (calls \ {c}) \cup (IF d.at = "done" THEN {} ELSE {d})

Top(c) == c.scans[Len(c.scans)]

Below(c) == SubSeq(c.scans, 1, Len(c.scans) - 1)

WithTop(c, scan) == [c EXCEPT !.scans = Append(Below(c), scan)]

Opening == [for |-> "open", at |-> "provision", id |-> None, names |-> {}, expired |-> {}]

\* The operation itself, once the store is open.
Enter(c) ==
  CASE c.op = "save"   -> [c EXCEPT !.at = "check"]
    [] c.op = "load"   -> [c EXCEPT !.at = "read"]
    [] c.op = "remove" -> [c EXCEPT !.at = "unlink"]
    [] OTHER           -> [c EXCEPT !.at = "scan",
                                    !.scans = <<[Opening EXCEPT !.for = c.op, !.at = "dir"]>>]

\* The top scan is over: the one below goes on with the file it wanted.
Return(c) ==
  LET d == [c EXCEPT !.scans = Below(c)]
  IN CASE d.scans # <<>> -> d
       [] d.scans = <<>> /\ d.at = "init" -> Enter(d)
       [] OTHER -> [d EXCEPT !.at = "done"]

\* load or remove of one file by the top scan; it opens the store first.
Handle(c, scan, ready) ==
  LET d == WithTop(c, scan)
  IN IF ready THEN d ELSE [d EXCEPT !.scans = Append(@, Opening)]

\* How the top scan may go on after a file: to the next one, to the expired ones, to its end.
Onward(c, ready) ==
  LET scan == Top(c)
  IN CASE scan.names # {} ->
            {Handle(c, [scan EXCEPT !.id = id, !.names = @ \ {id}], ready) : id \in scan.names}
       [] scan.names = {} /\ scan.at = "read" /\ scan.for # "list" /\ scan.expired # {} ->
            {Handle(c, [scan EXCEPT !.at = "unlink", !.id = id, !.names = scan.expired \ {id}], ready) :
               id \in scan.expired}
       [] OTHER -> {Return(c)}

\* The call c goes on from where d stands.
Goes(c, d, ready) == \E e \in Onward(d, ready) : Becomes(c, e)

\* Mutant of Throw: a store whose sweep failed stays open.
ThrowStaysOpen(c) ==
  LET catchers == {k \in 1..Len(c.scans) - 1 : c.scans[k].at = "read"}
      caught   == CHOOSE k \in catchers : \A j \in catchers : j <= k
  IN /\ UNCHANGED initialized
     /\ IF catchers = {} THEN calls' = calls \ {c} /\ UNCHANGED unread
        ELSE LET d == [c EXCEPT !.scans = SubSeq(@, 1, caught)]
             IN unread' = unread \cup {Top(d).id} /\ Goes(c, d, initialized')

\* An exception of the top scan: list catches those of its loads and notes the file as
\* unreadable, every opening sweep it passes closes the store again.
Throw(c) ==
  LET catchers == {k \in 1..Len(c.scans) - 1 : c.scans[k].at = "read"}
      caught   == IF catchers = {} THEN 0 ELSE CHOOSE k \in catchers : \A j \in catchers : j <= k
  IN /\ initialized' =
          (initialized /\ \A k \in caught + 1..Len(c.scans) :
                            c.scans[k].for = "open" => c.scans[k].at = "provision")
     /\ IF caught = 0 THEN calls' = calls \ {c} /\ UNCHANGED unread
        ELSE LET d == [c EXCEPT !.scans = SubSeq(@, 1, caught)]
             IN unread' = unread \cup {Top(d).id} /\ Goes(c, d, initialized')

Scanning(c, at) == c \in calls /\ c.scans # <<>> /\ Top(c).at = at

-----------------------------------------------------------------------------
(* Scans *)

Provisioned(c) ==
  /\ Scanning(c, "provision")
  /\ initialized' = TRUE
  /\ Becomes(c, WithTop(c, [Top(c) EXCEPT !.at = "dir"]))
  /\ UNCHANGED <<disk, clock, requests, overlap, saved, unread>>

DirectoryRead(c) ==
  /\ Scanning(c, "dir")
  /\ IF Cardinality(DOMAIN disk) > Limit THEN Throw(c)
     ELSE /\ Goes(c, WithTop(c, [Top(c) EXCEPT !.at = "read", !.names = DOMAIN disk]), initialized)
          /\ UNCHANGED <<initialized, unread>>
  /\ UNCHANGED <<disk, clock, requests, overlap, saved>>

\* What a scan knows of the file it has read: only a sweep asks for its day.
Noted(scan) ==
  [scan EXCEPT !.expired = IF scan.for # "list" /\ Expired(scan.id) THEN @ \cup {scan.id} ELSE @]

\* readFile, unseal and validateStoredSession; what cannot be read never expires.
FileRead(c) ==
  /\ Scanning(c, "read")
  /\ LET id == Top(c).id
     IN \/ /\ id \in DOMAIN disk
           /\ Goes(c, WithTop(c, Noted(Top(c))), initialized)
           /\ UNCHANGED unread
        \/ /\ unread' = unread \cup {id}
           /\ Goes(c, c, initialized)
  /\ UNCHANGED <<disk, initialized, clock, requests, overlap, saved>>

ExpiredUnlinked(c) ==
  /\ Scanning(c, "unlink")
  /\ LET id == Top(c).id
     IN /\ disk' = WithoutFile(id)
        /\ saved' = IF Expired(id) THEN [saved EXCEPT ![id] = 0] ELSE saved
  /\ Goes(c, c, initialized)
  /\ UNCHANGED <<initialized, clock, requests, overlap, unread>>

\* The helper fails or is killed at its deadline, or the disk refuses.
ScanFails(c) ==
  /\ \E at \in {"provision", "dir", "unlink"} : Scanning(c, at)
  /\ Throw(c)
  /\ UNCHANGED <<disk, clock, requests, overlap, saved>>

-----------------------------------------------------------------------------
(* Operations *)

Request(op, id) ==
  /\ requests < MaxRequests /\ Cardinality(calls) < MaxCalls
  /\ requests' = requests + 1
  /\ LET call == [key |-> requests + 1, op |-> op, id |-> id, at |-> "init", scans |-> <<>>,
                  file |-> [version |-> requests + 1, expires |-> clock + 1]]
     IN calls' = calls \cup {IF initialized THEN Enter(call)
                             ELSE [call EXCEPT !.scans = <<Opening>>]}
  /\ UNCHANGED <<disk, initialized, clock, overlap, saved, unread>>

At(c, at) == c \in calls /\ c.scans = <<>> /\ c.at = at

\* A save between the check of the limit and its rename.
Late(c) == c.at \in {"write", "rename"}

Overlapping ==
  LET now == Cardinality({c \in calls' : Late(c)}) IN overlap' = IF now > overlap THEN now ELSE overlap

\* Mutant of Checked: one session too many.
CheckedLate(c) ==
  /\ At(c, "check")
  /\ calls' = (calls \ {c}) \cup
       IF c.id \notin DOMAIN disk /\ Cardinality(DOMAIN disk) > Limit THEN {}
       ELSE {[c EXCEPT !.at = "write"]}
  /\ Overlapping
  /\ UNCHANGED <<disk, initialized, clock, requests, saved, unread>>

Checked(c) ==
  /\ At(c, "check")
  /\ calls' = (calls \ {c}) \cup
       IF c.id \notin DOMAIN disk /\ Cardinality(DOMAIN disk) >= Limit THEN {}
       ELSE {[c EXCEPT !.at = "write"]}
  /\ Overlapping
  /\ UNCHANGED <<disk, initialized, clock, requests, saved, unread>>

\* Mutant of Written: the file itself is opened for writing.
WrittenInPlace(c) ==
  /\ At(c, "write")
  /\ calls' = (calls \ {c}) \cup {[c EXCEPT !.at = "rename"]}
  /\ disk' = With(c.id, [version |-> 0, expires |-> c.file.expires])
  /\ UNCHANGED <<initialized, clock, requests, overlap, saved, unread>>

\* The ciphertext is sealed, written to a temporary file and flushed.
Written(c) ==
  /\ At(c, "write")
  /\ calls' = (calls \ {c}) \cup {[c EXCEPT !.at = "rename"]}
  /\ UNCHANGED <<disk, initialized, clock, requests, overlap, saved, unread>>

\* What a scan still wants to remove: nothing saved meanwhile keeps a sweep from it.
Doomed(scan) == IF scan.at = "unlink" THEN {scan.id} \cup scan.names ELSE scan.expired

Condemned(id) == \E c \in calls : \E k \in 1..Len(c.scans) : id \in Doomed(c.scans[k])

\* The promise of the save counts, unless a sweep has already found the session expired.
Renamed(c) ==
  /\ At(c, "rename")
  /\ disk' = With(c.id, c.file)
  /\ saved' = [saved EXCEPT ![c.id] = IF Condemned(c.id) THEN 0 ELSE c.file.version]
  /\ calls' = calls \ {c}
  /\ UNCHANGED <<initialized, clock, requests, overlap, unread>>

Removed(c) ==
  /\ At(c, "unlink")
  /\ disk' = WithoutFile(c.id)
  /\ saved' = [saved EXCEPT ![c.id] = 0]
  /\ calls' = calls \ {c}
  /\ UNCHANGED <<initialized, clock, requests, overlap, unread>>

\* A load is answered, or a step of an operation fails.
CallEnds(c) ==
  /\ \E at \in {"read", "check", "write", "rename", "unlink"} : At(c, at)
  /\ calls' = calls \ {c}
  /\ UNCHANGED <<disk, initialized, clock, requests, overlap, saved, unread>>

-----------------------------------------------------------------------------

\* The companion dies and is started again; the files stay.
Crash ==
  /\ calls' = {} /\ initialized' = FALSE /\ unread' = {}
  /\ UNCHANGED <<disk, clock, requests, overlap, saved>>

\* The day is read when a sweep begins.  No call is under way at midnight: a call of the
\* helper has a deadline of seconds, the reads and writes between them none, but take less.
Tick ==
  /\ calls = {} /\ clock < MaxClock
  /\ clock' = clock + 1 /\ unread' = {}
  /\ UNCHANGED <<disk, initialized, calls, requests, overlap, saved>>

Step(c) ==
  \/ Provisioned(c) \/ DirectoryRead(c) \/ FileRead(c) \/ ExpiredUnlinked(c) \/ ScanFails(c)
  \/ Checked(c) \/ Written(c) \/ Renamed(c) \/ Removed(c) \/ CallEnds(c)

Next ==
  \/ \E op \in {"save", "load", "remove"}, id \in Ids : Request(op, id)
  \/ \E op \in {"list", "sweep"} : Request(op, None)
  \/ \E c \in calls : Step(c)
  \/ Crash \/ Tick

Spec == Init /\ [][Next]_vars

-----------------------------------------------------------------------------
(* Properties *)

Excess == IF overlap > 1 THEN overlap - 1 ELSE 0

\* privacy-boundary.md: at most Limit sessions are stored.  One more and no list, no
\* sweep and, after a restart, no opening of the store succeeds any more.  save checks the
\* limit and renames two awaits later: every save that overlaps others may add one.
WithinLimit == Cardinality(DOMAIN disk) <= Limit + Excess

\* The snapshot last saved stays readable, through crashes, failed saves and concurrent
\* sweeps, until it is removed or has expired; but for one saved while a sweep was about
\* to remove the expired one before it.
Durable == \A id \in Ids : saved[id] # 0 => id \in DOMAIN disk /\ disk[id].version = saved[id]

IsOpening(c) == \E k \in 1..Len(c.scans) : c.scans[k].for = "open"

\* privacy-boundary.md: expired sessions are swept on initialization.  When the last
\* opening of the store is over and leaves it open, no session that could be read is
\* expired, whatever other openings failed meanwhile.
OpensSwept ==
  [][(\E c \in calls : IsOpening(c)) /\ initialized' /\ ~(\E c \in calls' : IsOpening(c))
       => \A id \in DOMAIN disk' \ unread' : disk'[id].expires > clock']_vars

=============================================================================
