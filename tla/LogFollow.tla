------------------------------ MODULE LogFollow ------------------------------
(***************************************************************************)
(* The collectors of log lines of gse-agent (collect/logfile.rs, k8s.rs).  *)
(*                                                                         *)
(*   file   every flush interval the collector looks at the file of a      *)
(*          path: its inode, then, when it does not know it, where to      *)
(*          begin, then its text from where it stopped.  Each is a read of *)
(*          the path of its own, and the path may have been given to a new *)
(*          file in between.                                               *)
(*   pod    every 30 seconds the collector lists the pods, stops the       *)
(*          threads of containers that are gone and starts one for each    *)
(*          that is new; a thread asks for the log of its container and    *)
(*          sends on what it reads, again and again.                       *)
(*                                                                         *)
(* A file is its inode and its length: line n of inode i is the bytes from *)
(* n * LineLen(i).  A line written is a piece first, and then the whole.   *)
(***************************************************************************)
EXTENDS Integers, FiniteSets, Sequences

CONSTANTS
    Inodes,      \* 1..n: the files that the path is given to, in turn
    MaxLength,   \* bound on the length of a file
    MaxStarts,   \* bound on starts of the collector
    Followers,     \* bound on follow threads: 1..n
    MaxLines,    \* bound on the lines of a container
    Unknown      \* no state, no inode

ASSUME LogFollowAssumption ==
    /\ Inodes \subseteq Nat \ {0} /\ Followers \subseteq Nat \ {0} /\ Unknown \notin Followers
    /\ {MaxLength, MaxStarts, MaxLines} \subseteq Nat

VARIABLES
    source,     \* "file" or "pod"
    mode,       \* start_mode
    file,       \* the file at the path: its inode and length
    cut,        \* the inodes whose file was cut short at some time
    state,      \* the FileState of the path, or Unknown
    at,         \* the step of the poll: "sleep", "meta", "begin" or "read"
    met,        \* the inode the poll met
    pending,    \* records not yet pushed
    pushed,     \* records pushed to the buffer
    starts,
    listed,     \* pod: whether the container is listed
    threads,    \* pod: what each thread does
    active,     \* pod: the thread of the container, or Unknown
    lines,      \* pod: the lines of its log
    shipped        \* pod: what was shipped, as [thread, line, late]

fileVars == <<mode, file, cut, state, at, met, pending, pushed>>
podVars  == <<listed, threads, active, lines, shipped>>
logVars  == <<source, fileVars, starts, podVars>>

-----------------------------------------------------------------------------
(* The text of a file.                                                     *)

LineLen(i) == i + 1

Greater(a, b) == IF a > b THEN a ELSE b

\* The ends of the whole lines of a file beyond an offset.
Ends(f, from) == {e \in (from + 1)..f.length : e % LineLen(f.inode) = 0}

\* Where the next read begins: after the last whole line.
NextOffset(f, from) ==
    IF from > f.length THEN f.length
    ELSE IF Ends(f, from) = {} THEN from
    ELSE CHOOSE e \in Ends(f, from) : \A d \in Ends(f, from) : d <= e

\* The lines read from an offset, each with the inode and the offset of its id
\* and the bytes of its text.
NewLines(f, inode, from) ==
    {[inode |-> inode, offset |-> Greater(from, e - LineLen(f.inode)),
      text |-> <<f.inode, Greater(from, e - LineLen(f.inode)), e>>] : e \in Ends(f, from)}

\* The last line for `tail`, which may be a piece.
LastLine(f, inode) ==
    IF f.length = 0 THEN {}
    ELSE LET s == ((f.length - 1) \div LineLen(f.inode)) * LineLen(f.inode)
         IN  {[inode |-> inode, offset |-> s, text |-> <<f.inode, s, f.length>>]}

-----------------------------------------------------------------------------
(* The program that writes the file.                                       *)

Write ==
    /\ source = "file" /\ file.length < MaxLength
    /\ file' = [file EXCEPT !.length = @ + 1]
    /\ UNCHANGED <<source, mode, cut, state, at, met, pending, pushed, starts, podVars>>

\* The file is renamed and the path given to a new one.
Rotate ==
    /\ source = "file" /\ file.inode + 1 \in Inodes
    /\ file' = [inode |-> file.inode + 1, length |-> 0]
    /\ UNCHANGED <<source, mode, cut, state, at, met, pending, pushed, starts, podVars>>

\* The file is copied away and cut, or a new file has the same inode.
CopyTruncate ==
    /\ source = "file" /\ file.length > 0 /\ cut = {}
    /\ file' = [file EXCEPT !.length = 0]
    /\ cut' = {file.inode}
    /\ UNCHANGED <<source, mode, state, at, met, pending, pushed, starts, podVars>>

-----------------------------------------------------------------------------
(* The poll.                                                               *)

PollMeta ==
    /\ source = "file" /\ at = "sleep"
    /\ met' = file.inode
    /\ at' = IF state # Unknown /\ state.inode = file.inode THEN "read" ELSE "begin"
    /\ UNCHANGED <<source, mode, file, cut, state, pending, pushed, starts, podVars>>

\* From the head everything is read; `tail` begins at the end of the file and
\* sends the last line.
PollBegin ==
    /\ at = "begin"
    /\ state' = [inode |-> met, offset |-> IF mode = "head" THEN 0 ELSE file.length]
    /\ pending' = pending \cup (IF mode = "head" THEN {} ELSE LastLine(file, met))
    /\ at' = "read"
    /\ UNCHANGED <<source, mode, file, cut, met, pushed, starts, podVars>>

PollRead ==
    /\ at = "read"
    /\ IF state.offset > file.length
         THEN UNCHANGED pending
         ELSE pending' = pending \cup NewLines(file, state.inode, state.offset)
    /\ state' = [state EXCEPT !.offset = NextOffset(file, @)]
    /\ at' = "push"
    /\ UNCHANGED <<source, mode, file, cut, met, pushed, starts, podVars>>

Push ==
    /\ at = "push"
    /\ pushed' = pushed \cup pending
    /\ pending' = {} /\ at' = "sleep"
    /\ UNCHANGED <<source, mode, file, cut, state, met, starts, podVars>>

\* The collector is stopped where it waits and started again: it knows nothing.
Restart ==
    /\ at \in {"sleep", "push"} /\ starts < MaxStarts
    /\ starts' = starts + 1
    /\ state' = Unknown /\ pending' = {} /\ at' = "sleep"
    /\ active' = Unknown
    /\ threads' = [t \in Followers |-> [threads[t] EXCEPT !.stop = (threads[t].at # "none")]]
    /\ UNCHANGED <<source, mode, file, cut, met, pushed, listed, lines, shipped>>

-----------------------------------------------------------------------------
(* The followers of a container.                                           *)

PodLogs == source = "pod" /\ lines < MaxLines /\ lines' = lines + 1 /\ UNCHANGED <<source, fileVars, starts, listed, threads, active, shipped>>
PodComesOrGoes == source = "pod" /\ listed' = ~ listed /\ UNCHANGED <<source, fileVars, starts, threads, active, lines, shipped>>

Thread0 == [at |-> "none", stop |-> FALSE, read |-> 0]

\* Mutant of Stopped: the thread of a container that is gone is left to end by
\* itself.
Stopped_Forgotten(t) == threads[t]

Stopped(t) == [threads[t] EXCEPT !.stop = TRUE]

\* The pods are listed: the thread of a container that is gone is told to stop,
\* a container without a thread gets one.
Refresh ==
    /\ source = "pod"
    /\ \/ /\ ~ listed /\ active # Unknown
          /\ threads' = [threads EXCEPT ![active] = Stopped(active)]
          /\ active' = Unknown
       \/ /\ listed /\ active = Unknown
          /\ \E t \in Followers :
               /\ threads[t].at = "none" /\ \A u \in Followers : u < t => threads[u].at # "none"
               /\ threads' = [threads EXCEPT ![t] = [at |-> "open", stop |-> FALSE, read |-> 0]]
               /\ active' = t
    /\ UNCHANGED <<source, fileVars, starts, listed, lines, shipped>>

\* The log is opened from its start, or fails to.
Open(t) ==
    /\ threads[t].at = "open"
    /\ \E where \in {"check", "pause"} :
         threads' = [threads EXCEPT ![t].at = where, ![t].read = 0]
    /\ UNCHANGED <<source, fileVars, starts, listed, active, lines, shipped>>

\* It looks at the flag, and then waits for a line.
CheckStop(t) ==
    /\ threads[t].at = "check"
    /\ threads' = [threads EXCEPT ![t].at = IF threads[t].stop THEN "ended" ELSE "line"]
    /\ UNCHANGED <<source, fileVars, starts, listed, active, lines, shipped>>

SendLine(t) ==
    /\ threads[t].at = "line" /\ threads[t].read < lines
    /\ threads' = [threads EXCEPT ![t].at = "check", ![t].read = @ + 1]
    /\ shipped' = shipped \cup {[thread |-> t, line |-> threads[t].read + 1, late |-> threads[t].stop]}
    /\ UNCHANGED <<source, fileVars, starts, listed, active, lines>>

\* No line for 30 seconds, or the stream ends.
StreamEnds(t) ==
    /\ threads[t].at = "line"
    /\ threads' = [threads EXCEPT ![t].at = "pause"]
    /\ UNCHANGED <<source, fileVars, starts, listed, active, lines, shipped>>

Pause(t) ==
    /\ threads[t].at = "pause"
    /\ threads' = [threads EXCEPT ![t].at = IF threads[t].stop THEN "ended" ELSE "open"]
    /\ UNCHANGED <<source, fileVars, starts, listed, active, lines, shipped>>

-----------------------------------------------------------------------------

LogInit ==
    /\ source \in {"file", "pod"}
    /\ mode \in (IF source = "file" THEN {"head", "tail"} ELSE {"head"})
    /\ file = [inode |-> 1, length |-> 0]
    /\ cut = {} /\ state = Unknown /\ at = "sleep" /\ met = Unknown
    /\ pending = {} /\ pushed = {} /\ starts = 0
    /\ listed = FALSE /\ threads = [t \in Followers |-> Thread0] /\ active = Unknown
    /\ lines = 0 /\ shipped = {}

LogNext ==
    \/ Write \/ Rotate \/ CopyTruncate
    \/ PollMeta \/ PollBegin \/ PollRead \/ Push \/ Restart
    \/ PodLogs \/ PodComesOrGoes \/ Refresh
    \/ \E t \in Followers : Open(t) \/ CheckStop(t) \/ SendLine(t) \/ StreamEnds(t) \/ Pause(t)

LogSpec == LogInit /\ [][LogNext]_logVars

-----------------------------------------------------------------------------

Records == pending \cup pushed

\* What `head` promises of a file that is never cut: when the poll has got to
\* an offset of it, every line before has been read whole, with an id that
\* names no other text of its file, whatever was renamed or started again in
\* between.  (An id may name text of the file that comes after: the poll asks
\* for the inode and reads the text by two lookups of the path.)
HeadKeepsLines ==
    mode = "head" /\ cut = {} =>
        /\ state # Unknown /\ state.inode = file.inode /\ at # "begin" =>
             \A e \in {d \in 1..state.offset : d % LineLen(file.inode) = 0} :
                 [inode |-> file.inode, offset |-> e - LineLen(file.inode),
                  text |-> <<file.inode, e - LineLen(file.inode), e>>] \in Records
        /\ \A r, q \in {o \in Records : o.text[1] = o.inode} : r.inode = q.inode /\ r.offset = q.offset => r = q

\* A container has one thread that is not told to stop, the one that the
\* collector knows, and a thread sends at most one line after it is told.
OneFollower ==
    /\ \A t \in Followers : threads[t].at \notin {"none", "ended"} /\ ~ threads[t].stop => t = active
    /\ \A t \in Followers : Cardinality({s \in shipped : s.thread = t /\ s.late}) <= 1

\* The log collectors: each whole line under its own id, one thread a container.
LinesAreFollowed == HeadKeepsLines /\ OneFollower
=============================================================================
