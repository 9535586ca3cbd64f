----------------------------- MODULE Detectors -----------------------------
(***************************************************************************)
(* The two detectors of crates/scrooge-agent-linux, composed with the      *)
(* channel, the collector and the queue of EventPipeline that they feed:   *)
(* clipboard.rs polls the clipboard, filemon.rs inspects the files inotify *)
(* names.  Sessions and uploader change nothing that is in play here and   *)
(* take no steps: the agent is offline.                                    *)
(*                                                                         *)
(* The world moves on while a detector works: the user copies and writes   *)
(* while a task waits for room in the channel, and a file may change       *)
(* between the notification and the inspection, or between the two reads   *)
(* of an inspection.  A text or a content stands for its hash.  A          *)
(* notification is the path it names; its kind only labels the event.      *)
(***************************************************************************)
EXTENDS EventPipeline

CONSTANTS
    Texts,          \* what the user may copy
    Hits,           \* Hits[t]: number of matches scan_all finds in t
    Paths,          \* files below watch_paths
    Contents,       \* what a file may contain
    Small,          \* contents of at most CONTENT_SCAN_MAX_BYTES
    Readable,       \* contents of files the agent may read
    RawCapacity,    \* notifications that may wait: raw channel and kernel queue
    OpenReported,   \* may inotify report that the monitor itself opened a file?
    MaxCopies,      \* bound: copies
    MaxWrites,      \* bound: changes of files
    MaxStarts       \* bound: starts of the agent

NoEvent == "none"

ASSUME DetectorsAssumption ==
    /\ NoEvent \notin Events
    /\ Hits \in [Texts -> Nat]
    /\ Small \subseteq Contents /\ Readable \subseteq Contents
    /\ RawCapacity \in Nat \ {0}
    /\ OpenReported \in BOOLEAN
    /\ MaxCopies \in Nat /\ MaxWrites \in Nat /\ MaxStarts \in Nat \ {0}

VARIABLES
    clipboard,  \* the text on the clipboard, "" for none
    prev_hash,  \* the last text a poll has noticed, "" for None
    found,      \* matches of that text still to be sent
    copies,     \* copies[t]: how often t came onto the clipboard (history)
    starts,     \* starts of the agent (history)
    files,      \* files[p]: its content, or "absent"
    raw,        \* notifications not yet inspected
    held,       \* the event filemon is building
    running,    \* the detectors that could start
    about,      \* about[e]: what event e says
    last,       \* last[p]: the last event about p, NoEvent since the start
    owed,       \* paths whose last change was notified (history)
    dropped,    \* events the collector failed to enqueue (history)
    writes      \* changes so far (for the bound)

clipVars == <<clipboard, prev_hash, found, copies>>
fileVars == <<files, raw, held, last, owed, writes>>
detectorVars == <<clipVars, fileVars, starts, running, about, dropped>>
allVars == <<vars, detectorVars>>

Nothing == [stage |-> "none"]
Match(t, k) == [text |-> t, match |-> k]
Matches(t) == [k \in 1 .. Hits[t] |-> Match(t, k)]

\* std::fs::read and the hash of what it returned, if anything.
Sha(c) == IF c \in Readable THEN c ELSE "absent"

\* What inspect_file returns for a file that does not change meanwhile.
Describe(p, c) == [path |-> p, size |-> c, sha |-> IF c \in Small THEN Sha(c) ELSE "absent"]

Inspected == [path : Paths, size : Contents \cup {"absent"}, sha : Readable \cup {"absent"}]

DetectorsTypeOK ==
    /\ clipboard \in Texts \cup {""}
    /\ prev_hash \in Texts \cup {""}
    /\ \A i \in DOMAIN found : found[i].text \in Texts
    /\ files \in [Paths -> Contents \cup {"absent"}]
    /\ raw \in Seq(Paths)
    /\ Len(raw) <= RawCapacity
    /\ held \in {Nothing} \cup [stage : {"read", "send"}, say : Inspected]
    /\ running \subseteq {"clipscreen", "filemon"}
    /\ DOMAIN about = emitted
    /\ last \in [Paths -> Events \cup {NoEvent}]
    /\ owed \subseteq Paths

\* start_clipscreen and start_filemon: without a display, or without watched
\* paths or inotify watches, a detector does not run.
Start(r) ==
    /\ running' = r
    /\ prev_hash' = ""
    /\ found' = <<>>
    /\ raw' = <<>>
    /\ held' = Nothing
    /\ last' = [p \in Paths |-> NoEvent]
    /\ owed' = {}

DetectorsInit ==
    /\ Init
    /\ running \in SUBSET {"clipscreen", "filemon"}
    /\ clipboard = "" /\ prev_hash = "" /\ found = <<>>
    /\ copies = [t \in Texts |-> 0]
    /\ starts = 1
    /\ files = [p \in Paths |-> "absent"]
    /\ raw = <<>>
    /\ held = Nothing
    /\ about = <<>>
    /\ last = [p \in Paths |-> NoEvent]
    /\ owed = {}
    /\ dropped = {}
    /\ writes = 0

----------------------------------------------------------------------------
(* The world. *)

Copy(t) ==
    /\ t # clipboard
    /\ copies[t] < MaxCopies
    /\ clipboard' = t
    /\ copies' = [copies EXCEPT ![t] = @ + 1]
    /\ UNCHANGED <<vars, prev_hash, found, fileVars, starts, running, about, dropped>>

Clear ==
    /\ clipboard # ""
    /\ clipboard' = ""
    /\ UNCHANGED <<vars, prev_hash, found, copies, fileVars, starts, running, about, dropped>>

\* Mutant: the channel has no capacity.
NotifyUnbounded(p) == raw' = Append(raw, p)

\* inotify: one notification per change; one equal to the youngest waiting is
\* merged with it, one too many is lost.
Notify(p) ==
    \/ Len(raw) < RawCapacity /\ raw' = Append(raw, p)
    \/ raw # <<>> /\ raw[Len(raw)] = p /\ UNCHANGED raw

Write(p, c) ==
    /\ files[p] # c
    /\ writes < MaxWrites
    /\ writes' = writes + 1
    /\ files' = [files EXCEPT ![p] = c]
    /\ \/ "filemon" \in running /\ Notify(p) /\ owed' = owed \cup {p}
       \/ /\ "filemon" \notin running \/ Len(raw) = RawCapacity
          /\ owed' = owed \ {p}
          /\ UNCHANGED raw
    /\ UNCHANGED <<vars, clipVars, held, last, starts, running, about, dropped>>

----------------------------------------------------------------------------
(* clipboard.rs *)

\* Mutant: the text is not remembered.
ClipPollForgets ==
    /\ "clipscreen" \in running
    /\ found = <<>>
    /\ clipboard \notin {"", prev_hash}
    /\ prev_hash' = prev_hash
    /\ found' = Matches(clipboard)
    /\ UNCHANGED <<vars, clipboard, copies, fileVars, starts, running, about, dropped>>

\* Mutant: one event per text, not one per match.
ClipPollFirst ==
    /\ "clipscreen" \in running
    /\ found = <<>>
    /\ clipboard \notin {"", prev_hash}
    /\ prev_hash' = clipboard
    /\ found' = SubSeq(Matches(clipboard), 1, 1)
    /\ UNCHANGED <<vars, clipboard, copies, fileVars, starts, running, about, dropped>>

\* A tick: a clipboard that cannot be read, is empty or has not changed is
\* skipped; any other text is remembered and scanned.
ClipPoll ==
    /\ "clipscreen" \in running
    /\ found = <<>>
    /\ clipboard \notin {"", prev_hash}
    /\ prev_hash' = clipboard
    /\ found' = Matches(clipboard)
    /\ UNCHANGED <<vars, clipboard, copies, fileVars, starts, running, about, dropped>>

\* tx.send(event).await, once per match, each with an id of its own.
ClipSend(e) ==
    /\ found # <<>>
    /\ Emit(e)
    /\ about' = [x \in emitted' |-> IF x = e THEN Head(found) ELSE about[x]]
    /\ found' = Tail(found)
    /\ UNCHANGED <<clipboard, prev_hash, copies, fileVars, starts, running, dropped>>

----------------------------------------------------------------------------
(* filemon.rs: build_event and inspect_file for the next notification. *)

\* std::fs::metadata: a file that is gone, no file or too large needs no more.
FileMeta ==
    /\ held = Nothing
    /\ raw # <<>>
    /\ LET p == Head(raw) c == files[Head(raw)] IN
       held' = [stage |-> IF c \in Small THEN "read" ELSE "send",
                say |-> [path |-> p, size |-> c, sha |-> "absent"]]
    /\ raw' = Tail(raw)
    /\ UNCHANGED <<vars, clipVars, files, last, owed, writes, starts, running, about, dropped>>

\* std::fs::read: whatever the file is by now, however large; opening it may be
\* reported.
FileRead ==
    /\ held # Nothing /\ held.stage = "read"
    /\ LET p == held.say.path IN
       /\ held' = [stage |-> "send", say |-> [held.say EXCEPT !.sha = Sha(files[p])]]
       /\ \/ UNCHANGED raw
          \/ OpenReported /\ files[p] \in Readable /\ Notify(p)
    /\ UNCHANGED <<vars, clipVars, files, last, owed, writes, starts, running, about, dropped>>

\* Mutant: notifications about the same file that came meanwhile are one with
\* this event.
FileSendDebounced(e) ==
    /\ held # Nothing /\ held.stage = "send"
    /\ Emit(e)
    /\ about' = [x \in emitted' |-> IF x = e THEN held.say ELSE about[x]]
    /\ last' = [last EXCEPT ![held.say.path] = e]
    /\ held' = Nothing
    /\ raw' = SelectSeq(raw, LAMBDA p : p # held.say.path)
    /\ UNCHANGED <<clipVars, files, owed, writes, starts, running, dropped>>

FileSend(e) ==
    /\ held # Nothing /\ held.stage = "send"
    /\ Emit(e)
    /\ about' = [x \in emitted' |-> IF x = e THEN held.say ELSE about[x]]
    /\ last' = [last EXCEPT ![held.say.path] = e]
    /\ held' = Nothing
    /\ UNCHANGED <<clipVars, files, raw, owed, writes, starts, running, dropped>>

----------------------------------------------------------------------------
(* The collector, and the end of the process. *)

Collected ==
    /\ Collect
    /\ dropped' = IF queue' = queue THEN dropped \cup {Head(chan)} ELSE dropped
    /\ UNCHANGED <<clipVars, fileVars, starts, running, about>>

\* The process ends, and the detectors' memory with it.
Restart(r) ==
    /\ starts < MaxStarts
    /\ Crash
    /\ Start(r)
    /\ starts' = starts + 1
    /\ UNCHANGED <<clipboard, copies, files, about, dropped, writes>>

DetectorsNext ==
    \/ \E t \in Texts : Copy(t)
    \/ Clear
    \/ \E p \in Paths, c \in Contents \cup {"absent"} : Write(p, c)
    \/ ClipPoll \/ FileMeta \/ FileRead
    \/ \E e \in Events : ClipSend(e) \/ FileSend(e)
    \/ Collected
    \/ \E r \in SUBSET {"clipscreen", "filemon"} : Restart(r)

DetectorsSpec == DetectorsInit /\ [][DetectorsNext]_allVars

----------------------------------------------------------------------------
(* Properties. *)

\* Was e passed on: is it on its way to the queue or in it?  An event the
\* collector could not enqueue is lost (main.rs:159 only logs it).
PassedOn(e) ==
    \/ \E i \in DOMAIN chan : chan[i] = e
    \/ \E i \in Ids : queue[i] = e
    \/ e \in dropped

\* A text the poller will skip from now on has been reported: every one of its
\* matches waits to be sent or is an event of its own (clipboard.rs:82-98), in
\* this life of the process or an earlier one whose event reached the queue.
ClipboardReported ==
    prev_hash # "" =>
        \A k \in 1 .. Hits[prev_hash] :
            \/ \E i \in DOMAIN found : found[i] = Match(prev_hash, k)
            \/ \E e \in emitted : about[e] = Match(prev_hash, k) /\ PassedOn(e)

\* A text that stays on the clipboard is reported once, however often it is
\* polled: there are at most as many events about a match as times the text
\* came onto the clipboard, plus one for every restart, which forgets prev_hash.
ClipboardOnce ==
    \A t \in Texts : \A k \in 1 .. Hits[t] :
        Cardinality({e \in emitted : about[e] = Match(t, k)}) <= copies[t] + starts - 1

\* The last word about a file is true: when every change of a file was
\* notified and none of its notifications is waiting or being worked on, the
\* last event about it describes the file as it is, size and hash alike,
\* although the inspection reads twice and the file may change in between.
FileLastWord ==
    \A p \in owed :
        \/ \E i \in DOMAIN raw : raw[i] = p
        \/ held # Nothing /\ held.say.path = p
        \/ last[p] # NoEvent /\ about[last[p]] = Describe(p, files[p]) /\ PassedOn(last[p])
=============================================================================
