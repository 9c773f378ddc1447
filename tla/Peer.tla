------------------------------- MODULE Peer --------------------------------
(***************************************************************************)
(* src/Lab4/osppeer.c, one run of the peer (not in its evil mode): main    *)
(* registers with the tracker, forks a child for each file it is to fetch, *)
(* and then a child for each connection from another peer.  All of them    *)
(* share one connection to the tracker, and whoever reads takes whatever   *)
(* answers are there.                                                      *)
(*                                                                         *)
(* External: the tracker, which answers requests in their order, and the   *)
(* system calls.  fork may fail scene.forkFails times.  The answers of the *)
(* tracker are small enough to arrive in one piece.                        *)
(***************************************************************************)
EXTENDS Transfer, SequencesExt

CONSTANTS MAXCONNPID,
          Ports,     \* how many ports start_listen tries, 1888 in the code
          Scenes     \* what a run is given:
                     \*   tracker   there is one to connect to,
                     \*   busy      the ports that are in use,
                     \*   wanted    the files on the command line,
                     \*   conns     the connections, in the order they come,
                     \*   local     the names of the files that are there,
                     \*   registers the tracker accepts our address,
                     \*   lists     [FileNames -> the peers it lists],
                     \*   knows     the files it knows,
                     \*   sums      the files whose digest it knows and main can read,
                     \*   forkFails how often fork fails

ASSUME PeerAssumption == MAXCONNPID \in Nat \ {0} /\ Ports \in Nat

\* Each connection comes once, and there is a child for each fork.
ASSUME SceneAssumption ==
    \A s \in Scenes :
       /\ s.tracker \in BOOLEAN /\ s.registers \in BOOLEAN /\ s.forkFails \in Nat
       /\ s.wanted \in Seq(FileNames) /\ s.conns \in Seq(Conns)
       /\ \A i, j \in DOMAIN s.conns : s.conns[i] = s.conns[j] => i = j
       /\ s.lists \in [FileNames -> Seq(Peers)]
       /\ s.knows \subseteq FileNames /\ s.sums \subseteq FileNames
       /\ s.local \subseteq Names
       /\ Len(s.wanted) + Len(s.conns) <= Cardinality(Children)

VARIABLES
    scene,
    main,         \* main: pc, argv, the task, the files to register
    pid_counter,
    waiting,      \* the connections not accepted yet
    fails,        \* how often fork will still fail
    dropped,      \* the connections that no child was made for
    advertised    \* the tracker: the files it has been told that we have

peerVars == <<scene, main, pid_counter, waiting, fails, dropped, advertised>>
vars == <<peerVars, transferVars>>

MainStages == {"start", "greet?", "listen", "addr", "addr?", "files", "file?", "want", "want?", "sum", "sum?",
               "fork", "accept", "serve", "wait", "dead"}

Init ==
    /\ scene \in Scenes
    /\ main = [pc |-> "start", argv |-> scene.wanted, task |-> task_new("connect"),
               files |-> {}, port |-> 0]
    /\ pid_counter = 0
    /\ waiting = scene.conns
    /\ fails = scene.forkFails
    /\ dropped = {}
    /\ advertised = {}
    /\ job = [c \in Children |-> task_new("none")]
    /\ dir = [n \in Names |-> IF n \in scene.local THEN Old ELSE Free]
    /\ toTracker = <<>> /\ fromTracker = <<>>
    /\ received = [k \in Conns |-> <<>>]

---------------------------------------------------------------------------
(* The tracker.  A digest that begins with three digits is taken for an     *)
(* error message (unless the first is 2): such a file is not in scene.sums.*)

Answer(r) ==
    [ok |-> CASE r.what = "ADDR" -> scene.registers
              [] r.what \in {"HAVE", "a connection"} -> TRUE
              [] r.what = "WANT" -> r.file \in scene.knows
              [] r.what = "MD5SUM" -> r.file \in scene.sums,
     peers |-> IF r.what = "WANT" /\ r.file \in scene.knows
               THEN scene.lists[r.file] ELSE <<>>,
     sum |-> IF r.what = "MD5SUM" /\ r.file \in scene.sums
             THEN Content[r.file] ELSE <<>>]

Tracker ==
    /\ toTracker # <<>>
    /\ toTracker' = Tail(toTracker)
    /\ fromTracker' = Append(fromTracker, Answer(Head(toTracker)))
    /\ advertised' = IF Head(toTracker).what = "HAVE"
                     THEN advertised \cup {Head(toTracker).file} ELSE advertised
    /\ UNCHANGED <<scene, main, pid_counter, waiting, fails, dropped, job, dir, received>>

---------------------------------------------------------------------------
(* main. *)

MainAt(pc) == main.pc = pc

Unstirred == UNCHANGED <<scene, pid_counter, waiting, fails, dropped, advertised,
                         job, dir, received>>

\* main writes one request and goes on to read the answer.
Sends1(what, f, pc) ==
    /\ toTracker' = Append(toTracker, Request("main", what, f))
    /\ main' = [main EXCEPT !.pc = pc]
    /\ UNCHANGED fromTracker
    /\ Unstirred

\* main reads an answer, perhaps not its own, and is then m.
Takes(m) == TakeAnswers /\ main' = m /\ UNCHANGED toTracker /\ Unstirred

First == Head(fromTracker)

\* start_tracker: the tracker greets whoever connects.
StartTracker ==
    /\ MainAt("start")
    /\ \/ scene.tracker /\ Sends1("a connection", NoName, "greet?")
       \/ /\ ~scene.tracker
          /\ main' = [main EXCEPT !.pc = "dead"]
          /\ UNCHANGED <<toTracker, fromTracker>>
          /\ Unstirred

Greeting ==
    /\ MainAt("greet?") /\ fromTracker # <<>>
    /\ Takes([main EXCEPT !.pc = "listen"])

\* start_listen: the first port that is not in use, if there is one.
StartListen ==
    /\ MainAt("listen")
    /\ main' = IF main.port = Ports THEN [main EXCEPT !.pc = "dead"]
               ELSE IF main.port \in scene.busy THEN [main EXCEPT !.port = @ + 1]
               ELSE [main EXCEPT !.pc = "addr"]
    /\ UNCHANGED <<toTracker, fromTracker>>
    /\ Unstirred

\* register_files.
RegisterAddress == MainAt("addr") /\ Sends1("ADDR", NoName, "addr?")

AddressAnswer ==
    /\ MainAt("addr?") /\ fromTracker # <<>>
    /\ Takes(IF First.ok
             THEN [main EXCEPT !.pc = "files",
                               !.files = {f \in FileNames : dir[<<f, 0>>] # Free}]
             ELSE [main EXCEPT !.pc = "want"])

RegisterFile ==
    /\ MainAt("files")
    /\ \/ \E f \in main.files :
             /\ toTracker' = Append(toTracker, Request("main", "HAVE", f))
             /\ main' = [main EXCEPT !.pc = "file?", !.files = @ \ {f}]
       \/ /\ main.files = {}
          /\ main' = [main EXCEPT !.pc = "want"]
          /\ UNCHANGED toTracker
    /\ UNCHANGED fromTracker
    /\ Unstirred

FileAnswer ==
    /\ MainAt("file?") /\ fromTracker # <<>>
    /\ Takes([main EXCEPT !.pc = "files"])

(* start_download for the first name that is left.  An answer that is an   *)
(* error ends it without a task; one with lines that are no peers ends the *)
(* program.                                                                *)
Want ==
    /\ MainAt("want") /\ main.argv # <<>>
    /\ Sends1("WANT", Head(main.argv), "want?")

\* parse_peer succeeds for every line of the answer.
OnlyPeers(a) == a.sum = <<>>

NextName(m) == [m EXCEPT !.pc = "want", !.argv = Tail(@)]

WantAnswer ==
    /\ MainAt("want?") /\ fromTracker # <<>>
    /\ Takes(IF ~First.ok THEN NextName(main)
             ELSE IF ~OnlyPeers(First) THEN [main EXCEPT !.pc = "dead"]
             ELSE [main EXCEPT !.pc = "sum",
                     !.task = [task_new("connect") EXCEPT
                                 !.filename = Head(main.argv),
                                 !.peers = Reverse(First.peers)]])

AskSum == MainAt("sum") /\ Sends1("MD5SUM", Head(main.argv), "sum?")

(* The first 32 characters of the answer are the digest, whatever they are.*)
(* When it is an error, the digest is what the memory of the task holds:   *)
(* no digest at all, or that of an earlier task.                           *)
NoDigest == <<0>>

Leftovers == {NoDigest} \cup {job[c].checksum : c \in {d \in Children :
                                          job[d].pc # "none" /\ job[d].checksum # <<>>}}

SumAnswer ==
    /\ MainAt("sum?") /\ fromTracker # <<>>
    /\ \E s \in (IF ~First.ok THEN Leftovers
                 ELSE IF First.sum = <<>> THEN {NoDigest} ELSE {First.sum}) :
          Takes([main EXCEPT !.pc = "fork", !.task.checksum = s])

Started == {c \in Children : job[c].pc # "none"}
Unreaped == {c \in Started : job[c].pc # "reaped"}
NextChild == Cardinality(Started) + 1

\* mutant of AtLimit
PastLimit == pid_counter > MAXCONNPID

AtLimit == pid_counter >= MAXCONNPID

(* fork for the task of main, and what follows in the parent: a child is   *)
(* counted, a failure or the limit makes main wait for one.                *)
Fork(m) ==
    \/ /\ ~AtLimit
       /\ job' = [job EXCEPT ![NextChild] = main.task]
       /\ pid_counter' = pid_counter + 1
       /\ main' = m
       /\ UNCHANGED <<fails, dropped>>
    \/ /\ ~AtLimit /\ fails > 0
       /\ fails' = fails - 1
       /\ main' = [main EXCEPT !.pc = "wait"]
       /\ dropped' = dropped \cup ({main.task.conn} \cap Conns)
       /\ UNCHANGED <<job, pid_counter>>
    \/ /\ AtLimit
       /\ main' = [main EXCEPT !.pc = "wait"]
       /\ dropped' = dropped \cup ({main.task.conn} \cap Conns)
       /\ UNCHANGED <<job, pid_counter, fails>>

ForkDownload ==
    /\ MainAt("fork")
    /\ Fork(NextName(main))
    /\ UNCHANGED <<scene, waiting, advertised, dir, toTracker, fromTracker, received>>

\* waitpid (-1): it returns -1 when there is no child, which counts as one.
WaitForOne ==
    /\ MainAt("wait")
    /\ \/ \E c \in Unreaped :
             /\ job[c].pc = "ended"
             /\ job' = [job EXCEPT ![c].pc = "reaped"]
       \/ Unreaped = {} /\ UNCHANGED job
    /\ pid_counter' = pid_counter - 1
    /\ main' = [main EXCEPT !.pc = IF main.argv = <<>> THEN "accept" ELSE "want"]
    /\ UNCHANGED <<scene, waiting, fails, dropped, advertised, dir, toTracker,
                   fromTracker, received>>

\* The first loop is over.
StartServing ==
    /\ MainAt("want") /\ main.argv = <<>>
    /\ main' = [main EXCEPT !.pc = "accept"]
    /\ UNCHANGED <<toTracker, fromTracker>>
    /\ Unstirred

\* task_listen.
Accept ==
    /\ MainAt("accept") /\ waiting # <<>>
    /\ waiting' = Tail(waiting)
    /\ main' = [main EXCEPT !.pc = "serve",
                            !.task = [task_new("request") EXCEPT !.conn = Head(waiting)]]
    /\ UNCHANGED <<scene, pid_counter, fails, dropped, advertised, transferVars>>

ForkUpload ==
    /\ MainAt("serve")
    /\ Fork([main EXCEPT !.pc = "accept"])
    /\ UNCHANGED <<scene, waiting, advertised, dir, toTracker, fromTracker, received>>

Main ==
    \/ StartTracker \/ Greeting \/ StartListen
    \/ RegisterAddress \/ AddressAnswer \/ RegisterFile \/ FileAnswer
    \/ Want \/ WantAnswer \/ AskSum \/ SumAnswer \/ ForkDownload
    \/ WaitForOne \/ StartServing \/ Accept \/ ForkUpload

---------------------------------------------------------------------------
(* Where the peer comes to rest.  A process waits for ever when another one*)
(* has read its answer, or when a peer it is connected to falls silent or  *)
(* stops reading.                                                          *)
Unanswered == toTracker = <<>> /\ fromTracker = <<>>

Stuck(c) ==
    \/ At(c, "await") /\ Unanswered
    \/ At(c, "read") /\ Rest(job[c]) = <<>> /\ Sends(job[c]).then = "silence"
    \/ At(c, "request") /\ Asks[job[c].conn].request = "never"
    \/ /\ At(c, "send") /\ Span(job[c].buffer) > 0 /\ ~Asks[job[c].conn].leaves
       /\ Len(received[job[c].conn]) = Asks[job[c].conn].takes

\* The children that have told the tracker of the file they fetched.
Kept(c) == job[c].conn = 0 /\ job[c].disk # <<>>
           /\ job[c].pc \in {"have", "await", "ended", "reaped"}
Told(c) == Kept(c) /\ job[c].pc # "have" /\ job[c].disk = <<job[c].filename, 0>>

MainRests ==
    \/ MainAt("dead")
    \/ MainAt("accept") /\ waiting = <<>>
    \/ MainAt("wait") /\ Unreaped # {} /\ \A c \in Unreaped : Stuck(c)
    \/ /\ main.pc \in {"want?", "sum?"} /\ Unanswered
       /\ \E c \in Children : Told(c) /\ ~At(c, "await")

Over == MainRests /\ \A c \in Started : job[c].pc \in {"ended", "reaped"} \/ Stuck(c)

Resting == Over /\ UNCHANGED vars

AChild == \E c \in Children : Child(c) /\ UNCHANGED peerVars

Next == Main \/ AChild \/ Tracker \/ Resting

(* Every process gets its turn, and the tracker answers; of other peers    *)
(* nothing is assumed but what Serves and Asks say, which includes that    *)
(* they stop sending or reading and never go away.                         *)
Fairness ==
    /\ WF_vars(Main) /\ WF_vars(Tracker)
    /\ \A c \in Children : WF_vars(Child(c) /\ UNCHANGED peerVars)

Spec == Init /\ [][Next]_vars /\ Fairness

---------------------------------------------------------------------------
Digits == {0} \cup (UNION {{s[i] : i \in DOMAIN s} : s \in
             {Content[f] : f \in FileNames} \cup
             {Serves[p][f].stream : p \in Peers, f \in FileNames}})

BufferOK(b) ==
    /\ b.head \in Nat /\ b.tail - b.head \in 0..TASKBUFSIZ
    /\ b.buf \in [0..TASKBUFSIZ - 1 -> Digits]
    /\ b.total_written \in 0..b.head

TaskOK(j) ==
    /\ j.pc \in Stages /\ BufferOK(j.buffer)
    /\ j.filename \in FileNames \cup {NoName}
    /\ j.peers \in Seq(Peers) /\ j.checksum \in Seq(Digits)
    /\ j.digest \in Seq(Digits)
    /\ j.disk \in Names \cup {<<>>} /\ j.data \in Seq(Seq(Digits))
    /\ j.tries \in 0..LocalNames /\ j.rate \in [0..SAMPLESIZE - 1 -> Nat]
    /\ j.conn \in Conns \cup {0}

(* What every variable holds; above all, no read or write goes outside the *)
(* buffer of a task: the tail is never more than TASKBUFSIZ past the head  *)
(* (read_to_taskbuf, write_from_taskbuf).                                  *)
TypeOK ==
    /\ main.pc \in MainStages /\ main.argv \in Seq(FileNames)
    /\ main.files \subseteq FileNames /\ TaskOK(main.task) /\ main.port \in 0..Ports
    /\ \A c \in Children : TaskOK(job[c])
    /\ pid_counter \in Int /\ fails \in 0..scene.forkFails
    /\ waiting \in Seq(Conns) /\ dropped \subseteq Conns
    /\ advertised \subseteq FileNames
    /\ \A n \in Names : dir[n] \in {Free, Old} \/
          (dir[n][1] \in Children /\ dir[n][2] \in DOMAIN job[dir[n][1]].data)

Saved(c) == job[c].data[Len(job[c].data)]

(* The answers that main read were its own, and the tracker knew the file. *)
Sure(c) == job[c].filename \in scene.sums /\ \A d \in 1..c - 1 : ~Told(d)

(* A file that a child keeps is the one it was to fetch, byte for byte,    *)
(* unless an earlier peer gave it some bytes before it failed (the digest  *)
(* is not started again, so the last peer need only have sent the rest).   *)
(* When main may have read the answer to another request, or none with a   *)
(* digest, it can be another file.  Its name is still its own, and no file *)
(* that was there before is ever touched, whatever the other children      *)
(* download and unlink; but a file that is too large is unlinked twice,    *)
(* which can hit another child's.                                          *)
FilesKept ==
    /\ \A c \in Children : Kept(c) =>
          \E f \in FileNames :
             /\ Sure(c) => f = job[c].filename
             /\ IsSuffix(Saved(c), Content[f])
             /\ \/ Saved(c) = Content[f]
                \/ \E k \in 1..Len(job[c].data) - 1 : job[c].data[k] # <<>>
             /\ \/ dir[job[c].disk] = <<c, Len(job[c].data)>>
                \/ \E d \in Children \ {c} : "size" \in job[d].said
                \/ Len(Content[f]) > MAX_FILESIZE
    /\ \A n \in scene.local : dir[n] = Old

Good(p, f) == Reach[p] = "up" /\ Serves[p][f] = [stream |-> Content[f], then |-> "end"]

\* Where the list of the tracker for f has peers that can be reached.
Reachable(f) == {i \in DOMAIN scene.lists[f] : Reach[scene.lists[f][i]] \in {"up", "flaky"}}

\* The last of them, which is the first that a child comes to, sends the file.
GoodFirst(f, i) == /\ i \in Reachable(f) /\ \A k \in Reachable(f) : k <= i
                   /\ Good(scene.lists[f][i], f)

(* A download does not fail when the first peer that can be reached, from  *)
(* the end of the tracker's list, sends the file: neither its own child's  *)
(* buffer nor the other children spoil it.  It needs a file that is neither*)
(* empty nor too large, a peer that is not slow, a free local name, a      *)
(* tracker that knows the digest, and that no child before it has told the *)
(* tracker of its file, because then the answers that main reads may not be*)
(* its own.                                                                *)
FirstPeerSuffices ==
    \A c \in Children :
       (job[c].pc \in {"ended", "reaped"} /\ job[c].conn = 0 /\ ~Kept(c)) =>
          \/ job[c].said \cap {"slow", "names"} # {}
          \/ ~Sure(c)
          \/ Len(Content[job[c].filename]) \notin 1..MAX_FILESIZE
          \/ ~\E i \in Reachable(job[c].filename) : GoodFirst(job[c].filename, i)

(* An upload that ends without an error has sent at least all that the     *)
(* file held when it was opened, and what it sends is never anything but   *)
(* the file from its start: the bounded buffer loses and repeats nothing,  *)
(* also when the peer takes less than it is offered.                       *)
UploadsWhole ==
    \A c \in Children : (job[c].conn # 0 /\ job[c].file # Free) =>
       /\ IsPrefix(received[job[c].conn], Bytes(job[c].filename, job[c].file))
       /\ (job[c].pc \in {"ended", "reaped"} /\ job[c].said = {}) =>
             Len(received[job[c].conn]) >= job[c].opened

(* pid_counter is the number of children not yet waited for, less at most  *)
(* one for every fork that failed (waitpid finds no child then and the     *)
(* count falls all the same); so there are never more than MAXCONNPID      *)
(* children and one for each such failure.  A connection is given up only  *)
(* for a child that is reaped or a fork that failed.                       *)
ChildrenCounted ==
    LET failed == scene.forkFails - fails IN
    /\ pid_counter \in Cardinality(Unreaped) - failed..Cardinality(Unreaped)
    /\ Cardinality(Unreaped) <= MAXCONNPID + failed
    /\ Cardinality(dropped) <= Cardinality(Started \ Unreaped) + failed
                               + (IF MainAt("wait") THEN 1 ELSE 0)

(* Every download and every upload comes to an end, and main comes back to *)
(* accept with no connection left to take, or else the process is one that *)
(* can wait for ever: its answer was read by another, its peer is silent   *)
(* or reads no more, or it waits for MAXCONNPID children that do (or main  *)
(* died of an answer that was not its own).                                *)
EveryoneEnds == <>[]Over
=============================================================================
