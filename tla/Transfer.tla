----------------------------- MODULE Transfer ------------------------------
(***************************************************************************)
(* src/Lab4/osppeer.c, what the child processes of a peer do: task_download*)
(* fetches a file from the peers that have it, one after the other until   *)
(* one is good, and task_upload serves one request.                        *)
(*                                                                         *)
(* A child works on its copy of a task, job[c].  The directory is shared:  *)
(* a name is a file name and a number (0 for the plain name, i for         *)
(* "name~i~") and stands for a file: <<c, k>> for the k-th one that child  *)
(* c made, Old for one that was there before, Free for none.  A file keeps *)
(* its bytes when its name goes: they are job[c].data[k].  A byte is a     *)
(* number from 1 on and the MD5 digest of some bytes is the sequence of    *)
(* them; 0 stands for what is no byte of a file.                           *)
(*                                                                         *)
(* The other peers are external: Reach says whether one can be reached,    *)
(* Serves what it sends for a file and how that ends, and Asks what one    *)
(* that connects asks for, how many bytes of the answer it takes before it *)
(* reads no more, and whether it may leave before the answer is sent.      *)
(***************************************************************************)
EXTENDS TaskBuffer, FiniteSets

CONSTANTS Children,      \* the child processes there can be
          FileNames,     \* the names of files
          LocalNames,    \* 50 in the code: how many local names are tried
          MAX_FILESIZE, MIN_TRANSRATE, SAMPLESIZE,
          Peers, Reach,  \* [Peers -> {"up", "down", "flaky", "self"}]
          Serves,        \* [Peers -> [FileNames -> [stream, then]]]
          Conns, Asks,   \* [Conns -> [file, request, takes, leaves]]
          Content,       \* [FileNames -> what the file really holds]
          Free, Old, NoName

ASSUME TransferAssumption ==
    /\ LocalNames \in Nat \ {0} /\ MAX_FILESIZE \in Nat /\ MIN_TRANSRATE \in Nat
    /\ SAMPLESIZE \in Nat \ {0}
    /\ IsFiniteSet(Children) /\ Children = 1..Cardinality(Children)
    /\ Conns \subseteq Nat \ {0}
    /\ Content \in [FileNames -> Seq(Nat \ {0})]
    /\ Serves \in [Peers -> [FileNames -> [stream : Seq(Nat \ {0}),
                                          then : {"end", "error", "silence"}]]]
    /\ Asks \in [Conns -> [file : FileNames, request : {"sound", "odd", "never"},
                          takes : Nat, leaves : BOOLEAN]]
    /\ Free # Old /\ Free \notin Children \X Nat /\ Old \notin Children \X Nat

Names == FileNames \X (0..LocalNames - 1)

VARIABLES
    job,         \* the task of each child
    dir,         \* the names in the directory
    toTracker,   \* requests that the tracker has not read yet
    fromTracker, \* its answers that nobody has read yet
    received     \* what each connection has been sent

transferVars == <<job, dir, toTracker, fromTracker, received>>

Stages == {"none", "connect", "open", "read", "write", "check", "have", "await",
           "unlink", "retry", "request", "send", "fill", "ended", "reaped"}

\* rate_sample: no sample has been taken yet.
NewSamples == [k \in 0..SAMPLESIZE - 1 |-> SAMPLESIZE * MIN_TRANSRATE]

\* task_new: no peer is being talked to and no file is open.
task_new(pc) ==
    [pc |-> pc, buffer |-> NewBuffer, filename |-> NoName, peers |-> <<>>,
     checksum |-> <<>>, digest |-> <<>>, disk |-> <<>>, data |-> <<>>, pos |-> 0,
     tries |-> 0, rate |-> NewSamples, j |-> 0, conn |-> 0, file |-> Free,
     opened |-> 0, said |-> {}]

At(c, pc) == job[c].pc = pc

Becomes(c, j) == job' = [job EXCEPT ![c] = j]

\* error("* ..."): the child remembers what it has reported.
Says(j, what) == [j EXCEPT !.said = @ \cup {what}]

---------------------------------------------------------------------------
(* task_download. *)

Peer(j) == Head(j.peers)

\* The start of task_download, which its retries call again.
Connect(c) ==
    /\ At(c, "connect")
    /\ \/ /\ job[c].peers = <<>>
          /\ Becomes(c, [Says(job[c], "no peers") EXCEPT !.pc = "ended"])
       \/ /\ job[c].peers # <<>> /\ Reach[Peer(job[c])] # "up"
          /\ Becomes(c, [job[c] EXCEPT !.pc = "retry"])
       \/ /\ job[c].peers # <<>> /\ Reach[Peer(job[c])] \in {"up", "flaky"}
          /\ Becomes(c, [job[c] EXCEPT !.pc = "open", !.tries = 0, !.pos = 0,
                                       !.rate = NewSamples, !.j = 0])
    /\ UNCHANGED <<dir, toTracker, fromTracker, received>>

\* open (disk_filename, O_CREAT | O_EXCL): a name that is there is not touched.
OpenDisk(c) ==
    /\ At(c, "open")
    /\ \E i \in {job[c].tries}, f \in {job[c].filename} :
          \/ /\ i < LocalNames /\ dir[<<f, i>>] # Free
             /\ Becomes(c, [job[c] EXCEPT !.tries = i + 1, !.disk = <<f, i>>])
             /\ UNCHANGED dir
          \/ /\ i < LocalNames /\ dir[<<f, i>>] = Free
             /\ dir' = [dir EXCEPT ![<<f, i>>] = <<c, Len(job[c].data) + 1>>]
             /\ Becomes(c, [job[c] EXCEPT !.pc = "read", !.disk = <<f, i>>,
                                          !.data = Append(@, <<>>)])
          \/ /\ i = LocalNames
             /\ Becomes(c, [Says(job[c], "names") EXCEPT !.pc = "ended", !.disk = <<>>])
             /\ UNCHANGED dir
    /\ UNCHANGED <<toTracker, fromTracker, received>>

Sends(j) == Serves[Peer(j)][j.filename]

Rest(j) == SubSeq(Sends(j).stream, j.pos + 1, Len(Sends(j).stream))

\* mutant of Hashed
HashedAfterwards(j, s) == IF j.digest = <<>> THEN s ELSE j.digest

Hashed(j, s) == j.digest \o s

(* read_to_taskbuf from the peer, which adds what it reads to the digest.  *)
(* A full buffer reads nothing, which looks like the end of the file.      *)
ReadPeer(c) ==
    /\ At(c, "read")
    /\ \E left \in {Rest(job[c])}, b \in {job[c].buffer} :
          \/ \E n \in 1..Len(left) :
                /\ n <= Room(b)
                /\ Becomes(c, [job[c] EXCEPT !.pc = "write", !.pos = @ + n,
                                 !.buffer = ReadInto(b, SubSeq(left, 1, n)),
                                 !.digest = Hashed(job[c], SubSeq(left, 1, n))])
          \/ /\ left = <<>> /\ Sends(job[c]).then = "end"
             /\ Becomes(c, [job[c] EXCEPT !.pc = IF b.head = b.tail THEN "check"
                                                 ELSE "write"])
          \/ /\ left = <<>> /\ Sends(job[c]).then = "error"
             /\ Becomes(c, [Says(job[c], "read error") EXCEPT !.pc = "retry"])
    /\ UNCHANGED <<dir, toTracker, fromTracker, received>>

Total(f) == LET sum[k \in -1..SAMPLESIZE - 1] == IF k = -1 THEN 0 ELSE sum[k - 1] + f[k]
            IN sum[SAMPLESIZE - 1]

(* write_from_taskbuf to the disk, which takes all it is given, and the    *)
(* checks of the size and of the rate: the average of the last SAMPLESIZE  *)
(* writes, in bytes.                                                       *)
WriteDisk(c) ==
    /\ At(c, "write")
    /\ \E b \in {job[c].buffer} : \E n \in {Span(b)} :
       \E r \in {[job[c].rate EXCEPT ![job[c].j % SAMPLESIZE] = n]} :
       \E next \in {[job[c] EXCEPT !.buffer = WriteOut(b, n), !.data[Len(job[c].data)] = @ \o Piece(b, n),
                                   !.rate = r, !.j = (@ % SAMPLESIZE) + 1]} :
          Becomes(c,
            IF next.buffer.total_written > MAX_FILESIZE
            THEN [Says(next, "size") EXCEPT !.pc = "unlink"]
            ELSE IF Total(r) \div SAMPLESIZE < MIN_TRANSRATE
            THEN [Says(next, "slow") EXCEPT !.pc = "retry"]
            ELSE [next EXCEPT !.pc = "read"])
    /\ UNCHANGED <<dir, toTracker, fromTracker, received>>

\* md5_finish_text pads the state it has been given: 0 is no byte of a file.
Finished(d) == Append(d, 0)

(* After the end of the file: an empty download and a wrong digest go on   *)
(* to the next peer; HAVE is sent for the plain name only.                 *)
CheckDigest(c) ==
    /\ At(c, "check")
    /\ \E j \in {job[c]} :
          Becomes(c,
            IF j.buffer.total_written = 0 THEN [Says(j, "empty") EXCEPT !.pc = "retry"]
            ELSE IF j.digest # j.checksum
            THEN [Says(j, "digest") EXCEPT !.pc = "retry", !.digest = Finished(@)]
            ELSE [j EXCEPT !.pc = IF j.disk = <<j.filename, 0>> THEN "have" ELSE "ended"])
    /\ UNCHANGED <<dir, toTracker, fromTracker, received>>

Request(c, what, f) == [from |-> c, what |-> what, file |-> f]

SendHave(c) ==
    /\ At(c, "have")
    /\ toTracker' = Append(toTracker, Request(c, "HAVE", job[c].filename))
    /\ Becomes(c, [job[c] EXCEPT !.pc = "await"])
    /\ UNCHANGED <<dir, fromTracker, received>>

(* read_tracker_response: one read takes all the answers there are and the *)
(* caller looks at the first one only.                                     *)
TakeAnswers == fromTracker # <<>> /\ fromTracker' = <<>>

AwaitHave(c) ==
    /\ At(c, "await")
    /\ TakeAnswers
    /\ Becomes(c, [job[c] EXCEPT !.pc = "ended"])
    /\ UNCHANGED <<dir, toTracker, received>>

\* mutant of Unlinked
UnlinkedPlain(c) ==
    [n \in Names |-> IF job[c].disk # <<>> /\ n = <<job[c].filename, 0>> THEN Free ELSE dir[n]]

Unlinked(c) == [n \in Names |-> IF n = job[c].disk THEN Free ELSE dir[n]]

\* A file that is too large is unlinked before try_again unlinks it once more.
UnlinkLarge(c) ==
    /\ At(c, "unlink")
    /\ dir' = Unlinked(c)
    /\ Becomes(c, [job[c] EXCEPT !.pc = "retry"])
    /\ UNCHANGED <<toTracker, fromTracker, received>>

\* mutant of task_pop_peer
OnlyEmptied(j) == [j EXCEPT !.buffer = Emptied(@), !.disk = <<>>]

\* task_pop_peer: everything about this peer is forgotten, but the digest is kept.
task_pop_peer(j) ==
    [j EXCEPT !.buffer = Emptied(@), !.disk = <<>>, !.peers = Tail(@)]

\* try_again.
TryAgain(c) ==
    /\ At(c, "retry")
    /\ dir' = Unlinked(c)
    /\ Becomes(c, [task_pop_peer(job[c]) EXCEPT !.pc = "connect"])
    /\ UNCHANGED <<toTracker, fromTracker, received>>

---------------------------------------------------------------------------
(* task_upload for the connection job[c].conn. *)

Bytes(f, ino) == IF ino = Old THEN Content[f] ELSE job[ino[1]].data[ino[2]]

(* The request is read whole, unless the other side never sends one; then  *)
(* the file is opened, or the connection is closed.                        *)
ReadRequest(c) ==
    /\ At(c, "request")
    /\ \E a \in {Asks[job[c].conn]} :
          /\ a.request # "never"
          /\ Becomes(c, IF a.request = "sound" /\ dir[<<a.file, 0>>] # Free
                        THEN [job[c] EXCEPT !.pc = "send", !.filename = a.file,
                                !.file = dir[<<a.file, 0>>],
                                !.opened = Len(Bytes(a.file, dir[<<a.file, 0>>]))]
                        ELSE [Says(job[c], "request") EXCEPT !.pc = "ended"])
    /\ UNCHANGED <<dir, toTracker, fromTracker, received>>

(* write_from_taskbuf to the peer: any part of the piece that the peer     *)
(* still takes, or an error when it has gone (SIGPIPE is ignored).  When   *)
(* it takes no more, and does not leave, write blocks for ever.            *)
SendPeer(c) ==
    /\ At(c, "send")
    /\ \E b \in {job[c].buffer} :
          \/ /\ Span(b) = 0
             /\ Becomes(c, [job[c] EXCEPT !.pc = "fill"])
             /\ UNCHANGED received
          \/ \E n \in 1..Span(b) :
                /\ Len(received[job[c].conn]) + n <= Asks[job[c].conn].takes
                /\ Becomes(c, [job[c] EXCEPT !.pc = "fill", !.buffer = WriteOut(b, n)])
                /\ received' = [received EXCEPT ![job[c].conn] = @ \o Piece(b, n)]
          \/ /\ Span(b) > 0 /\ Asks[job[c].conn].leaves
             /\ Becomes(c, [Says(job[c], "write error") EXCEPT !.pc = "ended"])
             /\ UNCHANGED received
    /\ UNCHANGED <<dir, toTracker, fromTracker>>

\* What the file that an upload has open still holds.
Unread(j) == SubSeq(Bytes(j.filename, j.file), j.pos + 1,
                    Len(Bytes(j.filename, j.file)))

Smaller(x, y) == IF x < y THEN x ELSE y

\* mutant of Drained
NothingRead(n, b) == n = 0

\* A full buffer reads nothing either; only an empty one is the end.
Drained(n, b) == n = 0 /\ b.head = b.tail

\* read_to_taskbuf from the disk brings all that fits in one piece.
FillBuffer(c) ==
    /\ At(c, "fill")
    /\ \E left \in {Unread(job[c])}, b \in {job[c].buffer} :
       \E n \in {Smaller(Len(left), Room(b))} :
          Becomes(c, IF Drained(n, b) THEN [job[c] EXCEPT !.pc = "ended"]
                     ELSE [job[c] EXCEPT !.pc = "send", !.pos = @ + n,
                                         !.buffer = ReadInto(b, SubSeq(left, 1, n))])
    /\ UNCHANGED <<dir, toTracker, fromTracker, received>>

---------------------------------------------------------------------------
task_download(c) ==
    \/ Connect(c) \/ OpenDisk(c) \/ ReadPeer(c) \/ WriteDisk(c) \/ CheckDigest(c)
    \/ SendHave(c) \/ AwaitHave(c) \/ UnlinkLarge(c) \/ TryAgain(c)

task_upload(c) == ReadRequest(c) \/ SendPeer(c) \/ FillBuffer(c)

Child(c) == task_download(c) \/ task_upload(c)
=============================================================================
