------------------------- MODULE PeerTransferProofs -------------------------
(***************************************************************************)
(* Proofs that an upload sends the file and nothing but the file, for any  *)
(* size of the buffer and of the files, and whatever the other children do.*)
(*                                                                         *)
(* The invariant says where every byte is: what the other peer has received*)
(* and then what the buffer holds are the first pos bytes of the file.  It *)
(* needs that no two children serve one connection, and that a file only   *)
(* grows.                                                                  *)
(*                                                                         *)
(* Then: pid_counter counts the children up to the forks that failed,      *)
(* whatever the limit, the children and the scene.                         *)
(*                                                                         *)
(* The invariant keeps the books of the forks that failed: main waits      *)
(* without a child to wait for only after such a fork, since at the limit  *)
(* there is a child, and each such wait costs pid_counter one.             *)
(*                                                                         *)
(* Then: a file a child keeps is what the digest says, for any files,      *)
(* peers, children, sizes and scenes.                                      *)
(*                                                                         *)
(* The invariant says of every download where the bytes are: the digest is *)
(* some bytes that earlier peers sent, then what is in the newest file and *)
(* then what the buffer holds.  It needs to know what the checksum of a    *)
(* child can be, which the order of the requests to the tracker decides,   *)
(* and that a name which a child holds is taken from it only by one that   *)
(* unlinks twice.                                                          *)
(***************************************************************************)
EXTENDS PeerProofs

---------------------------------------------------------------------------
(* One upload: r has been received, the task is j, the file holds s. *)

Faithful(r, j, s) ==
    LET h == Held(j.buffer) IN
    /\ Len(r) + Len(h) = j.pos /\ j.pos <= Len(s) /\ j.opened <= Len(s)
    /\ Extends(r, s) /\ \A i \in 1..Len(h) : h[i] = s[Len(r) + i]
    /\ (j.pc \in {"ended", "reaped"} /\ j.said = {}) => j.opened <= Len(r)

LEMMA HeldSeq ==
    ASSUME NEW j \in Tasks
    PROVE  /\ j.buffer \in Buffers(Digits) /\ Held(j.buffer) \in Seq(Digits)
           /\ j.pos \in Nat /\ j.opened \in Nat
  BY HeldType DEF Tasks

(* The file grows under the upload. *)
LEMMA FaithfulGrows ==
    ASSUME NEW r \in Seq(Digits), NEW j \in Tasks, NEW s \in Seq(Digits), NEW t \in Seq(Digits),
           Faithful(r, j, s), Extends(s, t)
    PROVE  Faithful(r, j, t)
<1> DEFINE h == Held(j.buffer)
<1>1. h \in Seq(Digits) /\ j.pos \in Nat /\ j.opened \in Nat
  BY HeldSeq
<1>2. /\ Len(r) + Len(h) = j.pos /\ j.pos <= Len(s) /\ j.opened <= Len(s)
      /\ Extends(r, s) /\ \A i \in 1..Len(h) : h[i] = s[Len(r) + i]
      /\ (j.pc \in {"ended", "reaped"} /\ j.said = {}) => j.opened <= Len(r)
  BY DEF Faithful
<1> HIDE DEF h
<1>3. Len(s) <= Len(t) /\ \A i \in 1..Len(s) : t[i] = s[i]
  BY DEF Extends
<1>4. Extends(r, t)
  BY <1>2, <1>3 DEF Extends
<1>5. \A i \in 1..Len(h) : h[i] = t[Len(r) + i]
  <2>1. ASSUME NEW i \in 1..Len(h) PROVE h[i] = t[Len(r) + i]
    <3>1. Len(r) + i \in 1..Len(s)
      BY <1>1, <1>2
    <3> QED BY <1>2, <1>3, <3>1
  <2> QED BY <2>1
<1>6. j.pos <= Len(t) /\ j.opened <= Len(t)
  BY <1>1, <1>2, <1>3
<1> QED BY <1>2, <1>4, <1>5, <1>6 DEF Faithful, h

(* write_from_taskbuf took n bytes. *)
LEMMA FaithfulSend ==
    ASSUME NEW r \in Seq(Digits), NEW j \in Tasks, NEW s \in Seq(Digits), Faithful(r, j, s),
           NEW n \in 1..Span(j.buffer)
    PROVE  Faithful(r \o Piece(j.buffer, n),
                    [j EXCEPT !.pc = "fill", !.buffer = WriteOut(j.buffer, n)], s)
<1> DEFINE b == j.buffer
           h == Held(b)
           p == Piece(b, n)
           g == Held(WriteOut(b, n))
           u == [j EXCEPT !.pc = "fill", !.buffer = WriteOut(b, n)]
           q == r \o p
<1>1. b \in Buffers(Digits) /\ h \in Seq(Digits) /\ j.pos \in Nat /\ j.opened \in Nat
  BY HeldSeq
<1>2. n \in 0..Span(b)
  BY <1>1, SpanFits, Counts
<1>3. p \in Seq(Digits) /\ g \in Seq(Digits) /\ h = p \o g
  BY <1>1, <1>2, WriteTakesFront, PieceType, HeldType
<1>4. u.pc = "fill" /\ Held(u.buffer) = g /\ u.pos = j.pos /\ u.opened = j.opened
  BY DEF Tasks
<1>5. /\ Len(r) + Len(h) = j.pos /\ j.pos <= Len(s) /\ j.opened <= Len(s)
      /\ Extends(r, s) /\ \A i \in 1..Len(h) : h[i] = s[Len(r) + i]
  BY DEF Faithful
<1> HIDE DEF b, h, p, g, u
<1>6. /\ Len(h) = Len(p) + Len(g) /\ \A i \in 1..Len(p) : h[i] = p[i]
      /\ \A i \in 1..Len(g) : h[Len(p) + i] = g[i]
  BY <1>3, ConcatProperties
<1>7. /\ q \in Seq(Digits) /\ Len(q) = Len(r) + Len(p) /\ \A i \in 1..Len(r) : q[i] = r[i]
      /\ \A i \in 1..Len(p) : q[Len(r) + i] = p[i]
  BY <1>3, ConcatProperties
<1> HIDE DEF q
<1>8. Len(q) + Len(g) = j.pos /\ Len(q) <= Len(s)
  BY <1>1, <1>3, <1>5, <1>6, <1>7
<1>9. \A i \in 1..Len(q) : s[i] = q[i]
  <2>1. ASSUME NEW i \in 1..Len(q) PROVE s[i] = q[i]
    <3>1. CASE i <= Len(r)
      <4>1. i \in 1..Len(r)
        BY <3>1, <1>7
      <4> QED BY <1>5, <1>7, <4>1 DEF Extends
    <3>2. CASE i > Len(r)
      <4>0. i - Len(r) \in Nat
        BY <3>2, <1>7
      <4>1. PICK k \in Nat : k = i - Len(r)
        BY <4>0
      <4>2. k \in 1..Len(p) /\ k \in 1..Len(h) /\ i = Len(r) + k
        BY <4>1, <3>2, <1>3, <1>6, <1>7
      <4> QED BY <4>2, <1>5, <1>6, <1>7
    <3> QED BY <3>1, <3>2, <1>7
  <2> QED BY <2>1
<1>10. ASSUME NEW i \in 1..Len(g) PROVE g[i] = s[Len(q) + i]
  <2>1. Len(p) + i \in 1..Len(h)
    BY <1>3, <1>6
  <2>2. Len(q) + i = Len(r) + (Len(p) + i)
    BY <1>3, <1>7
  <2> QED BY <2>1, <2>2, <1>5, <1>6
<1> QED BY <1>4, <1>5, <1>7, <1>8, <1>9, <1>10 DEF Faithful, Extends, b, p, u, q

(* read_to_taskbuf brought the next n bytes of the file. *)
LEMMA FaithfulFill ==
    ASSUME NEW r \in Seq(Digits), NEW j \in Tasks, NEW s \in Seq(Digits), Faithful(r, j, s),
           NEW t \in Seq(Digits), Len(t) <= Room(j.buffer), j.pos + Len(t) <= Len(s),
           \A i \in 1..Len(t) : t[i] = s[j.pos + i]
    PROVE  Faithful(r, [j EXCEPT !.pc = "send", !.pos = @ + Len(t),
                                 !.buffer = ReadInto(j.buffer, t)], s)
<1> DEFINE b == j.buffer
           h == Held(b)
           g == Held(ReadInto(b, t))
           u == [j EXCEPT !.pc = "send", !.pos = @ + Len(t), !.buffer = ReadInto(b, t)]
<1>1. b \in Buffers(Digits) /\ h \in Seq(Digits) /\ j.pos \in Nat /\ j.opened \in Nat
  BY HeldSeq
<1>2. g = h \o t
  BY <1>1, ReadAppends
<1>3. u.pc = "send" /\ Held(u.buffer) = g /\ u.pos = j.pos + Len(t) /\ u.opened = j.opened
  BY DEF Tasks
<1>4. /\ Len(r) + Len(h) = j.pos /\ j.pos <= Len(s) /\ j.opened <= Len(s)
      /\ Extends(r, s) /\ \A i \in 1..Len(h) : h[i] = s[Len(r) + i]
  BY DEF Faithful
<1> HIDE DEF b, h, g, u
<1>5. /\ Len(g) = Len(h) + Len(t) /\ \A i \in 1..Len(h) : g[i] = h[i]
      /\ \A i \in 1..Len(t) : g[Len(h) + i] = t[i]
  BY <1>1, <1>2, ConcatProperties
<1>6. Len(r) + Len(g) = j.pos + Len(t)
  BY <1>1, <1>4, <1>5
<1>7. ASSUME NEW i \in 1..Len(g) PROVE g[i] = s[Len(r) + i]
  <2>1. CASE i <= Len(h)
    <3>1. i \in 1..Len(h)
      BY <2>1, <1>1, <1>5
    <3> QED BY <3>1, <1>4, <1>5
  <2>2. CASE i > Len(h)
    <3>0. i - Len(h) \in Nat
      BY <2>2, <1>1
    <3>1. PICK k \in Nat : k = i - Len(h)
      BY <3>0
    <3>2. k \in 1..Len(t) /\ i = Len(h) + k /\ Len(r) + i = j.pos + k
      BY <3>1, <2>2, <1>1, <1>4, <1>5
    <3> QED BY <3>2, <1>5
  <2> QED BY <2>1, <2>2, <1>1, <1>5
<1> QED BY <1>3, <1>4, <1>6, <1>7 DEF Faithful, b, u
---------------------------------------------------------------------------
(* The invariant *)

\* Bytes, for the files that the children have made in jobs.
FileOf(jobs, f, ino) == IF ino = Old THEN Content[f] ELSE jobs[ino[1]].data[ino[2]]

UploadOK(j, r, jobs) ==
    /\ j.pc = "request" => Fresh(j) /\ r = <<>>
    /\ j.file # Free => j.filename \in FileNames
                        /\ Faithful(r, j, FileOf(jobs, j.filename, j.file))

IUploads == \A c \in Children : job[c].conn # 0 => UploadOK(job[c], received[job[c].conn], job)

\* The connections for which there is no child yet.
Awaited == {waiting[i] : i \in DOMAIN waiting}
           \cup (IF main.pc = "serve" THEN {main.task.conn} ELSE {})

(* Every connection is served once.                                        *)
IConns ==
    /\ \A c, d \in Children : job[c].conn # 0 /\ job[c].conn = job[d].conn => c = d
    /\ \A i, k \in DOMAIN waiting : waiting[i] = waiting[k] => i = k
    /\ \A k \in Awaited : received[k] = <<>> /\ \A c \in Children : job[c].conn # k
    /\ main.pc = "serve" => \A i \in DOMAIN waiting : waiting[i] # main.task.conn

IUpload == IType /\ IConns /\ IUploads

LEMMA FileType ==
    ASSUME ITypes, NEW f \in FileNames, NEW ino \in Inodes, ino # Free, Made(ino)
    PROVE  FileOf(job, f, ino) \in Seq(Digits)
  BY BytesType DEF Bytes, FileOf

LEMMA SelfExtends == ASSUME NEW s \in Seq(Digits) PROVE Extends(s, s)
  BY DEF Extends

(* A file only grows when a child takes a step. *)
LEMMA FileGrows ==
    ASSUME ITypes, NEW c \in Children, TaskStep(c), NEW f \in FileNames, NEW ino \in Inodes,
           ino # Free, Made(ino)
    PROVE  /\ FileOf(job', f, ino) \in Seq(Digits)
           /\ Extends(FileOf(job, f, ino), FileOf(job', f, ino))
<1>1. CASE ino = Old
  <2>1. FileOf(job', f, ino) = Content[f] /\ FileOf(job, f, ino) = Content[f]
    BY <1>1 DEF FileOf
  <2>2. Content[f] \in Seq(Digits)
    BY Bytes1
  <2> QED BY <2>1, <2>2, SelfExtends
<1>2. CASE ino # Old
  <2>1. ino[1] \in Children /\ ino[2] \in DOMAIN job[ino[1]].data
    BY <1>2 DEF Made
  <2> DEFINE d == ino[1]
             k == ino[2]
  <2>2. job[d].data \in Seq(Seq(Digits)) /\ job[c].data \in Seq(Seq(Digits))
        /\ job'[c].data \in Seq(Seq(Digits))
    BY <2>1 DEF ITypes, Tasks, TaskStep
  <2>3. FileOf(job, f, ino) = job[d].data[k] /\ FileOf(job', f, ino) = job'[d].data[k]
    BY <1>2 DEF FileOf
  <2>4. k \in 1..Len(job[d].data) /\ job[d].data[k] \in Seq(Digits)
    BY <2>1, <2>2
  <2>5. CASE d = c
    <3>1. Grown(job[c].data, job'[c].data)
      BY DEF TaskStep
    <3>2. k \in 1..Len(job'[c].data)
      <4> HIDE DEF k, d
      <4> QED BY <3>1, <2>2, <2>4, <2>5 DEF Grown
    <3>3. job'[c].data[k] \in Seq(Digits)
      <4> HIDE DEF k, d
      <4> QED BY <3>2, <2>2
    <3>4. Extends(job[c].data[k], job'[c].data[k])
      <4> HIDE DEF k, d
      <4> QED BY <3>1, <2>4, <2>5 DEF Grown
    <3> QED BY <2>3, <2>5, <3>3, <3>4
  <2>6. CASE d # c
    <3>1. job'[d] = job[d]
      BY <2>1, <2>6 DEF TaskStep, ITypes
    <3> QED BY <2>3, <2>4, <3>1, SelfExtends
  <2> QED BY <2>5, <2>6
<1> QED BY <1>1, <1>2

(* What is true of an upload stays true while another process takes a step.*)
LEMMA OthersUpload ==
    ASSUME ITypes, IMade, NEW c \in Children, TaskStep(c), NEW d \in Children,
           job[d].conn \in Conns, NEW r \in Seq(Digits), UploadOK(job[d], r, job)
    PROVE  UploadOK(job[d], r, job')
<1> DEFINE j == job[d]
<1>1. j \in Tasks /\ j.file \in Inodes /\ Made(j.file)
  BY DEF ITypes, IMade, Tasks
<1>2. CASE j.file # Free
  <2>1. j.filename \in FileNames /\ Faithful(r, j, FileOf(job, j.filename, j.file))
    BY <1>2 DEF UploadOK
  <2>2. FileOf(job, j.filename, j.file) \in Seq(Digits)
        /\ FileOf(job', j.filename, j.file) \in Seq(Digits)
        /\ Extends(FileOf(job, j.filename, j.file), FileOf(job', j.filename, j.file))
    BY <1>1, <1>2, <2>1, FileType, FileGrows
  <2>3. Faithful(r, j, FileOf(job', j.filename, j.file))
    <3> HIDE DEF j
    <3> QED BY <1>1, <2>1, <2>2, FaithfulGrows
  <2> QED BY <2>1, <2>3 DEF UploadOK
<1>3. CASE j.file = Free
  BY <1>3 DEF UploadOK
<1> QED BY <1>2, <1>3
---------------------------------------------------------------------------
(* A step of a child *)

LEMMA KeepsConn ==
    ASSUME ITypes, NEW c \in Children, Child(c) PROVE job'[c].conn = job[c].conn
<1> DEFINE t == job[c]
<1>0. t \in Tasks /\ job \in [Children -> Tasks]
  BY DEF ITypes
<1> USE DEF Becomes, Says, Tasks
<1>1. CASE Connect(c)
  BY <1>0, <1>1 DEF Connect
<1>2. CASE OpenDisk(c)
  BY ZenonT(60), <1>0, <1>2 DEF OpenDisk
<1>3. CASE ReadPeer(c)
  BY ZenonT(60), <1>0, <1>3 DEF ReadPeer
<1>4. CASE WriteDisk(c)
  <2> DEFINE b == t.buffer
             n == Span(b)
             r == [t.rate EXCEPT ![t.j % SAMPLESIZE] = n]
             u == [t EXCEPT !.buffer = WriteOut(b, n), !.data[Len(t.data)] = @ \o Piece(b, n),
                            !.rate = r, !.j = (@ % SAMPLESIZE) + 1]
             v == IF u.buffer.total_written > MAX_FILESIZE
                  THEN [Says(u, "size") EXCEPT !.pc = "unlink"]
                  ELSE IF Total(r) \div SAMPLESIZE < MIN_TRANSRATE
                  THEN [Says(u, "slow") EXCEPT !.pc = "retry"]
                  ELSE [u EXCEPT !.pc = "read"]
  <2>1. Becomes(c, v)
    BY <1>4, ZenonT(60) DEF WriteDisk
  <2>2. u.conn = t.conn /\ u = [u EXCEPT !.conn = t.conn]
    BY <1>0
  <2>3. v.conn = u.conn
    <3> HIDE DEF u, r
    <3> QED BY <2>2
  <2> HIDE DEF v
  <2> QED BY <1>0, <2>1, <2>2, <2>3
<1>5. CASE CheckDigest(c)
  BY <1>0, <1>5 DEF CheckDigest
<1>6. CASE SendHave(c) \/ AwaitHave(c) \/ UnlinkLarge(c) \/ TryAgain(c)
  BY <1>0, <1>6 DEF SendHave, AwaitHave, UnlinkLarge, TryAgain, task_pop_peer
<1>7. CASE ReadRequest(c)
  BY <1>0, <1>7 DEF ReadRequest
<1>8. CASE SendPeer(c)
  BY <1>0, <1>8 DEF SendPeer
<1>9. CASE FillBuffer(c)
  <2> DEFINE n == Smaller(Len(Unread(t)), Room(t.buffer))
             v == IF Drained(n, t.buffer) THEN [t EXCEPT !.pc = "ended"]
                  ELSE [t EXCEPT !.pc = "send", !.pos = @ + n,
                                 !.buffer = ReadInto(t.buffer, SubSeq(Unread(t), 1, n))]
  <2>1. Becomes(c, v)
    BY <1>9, Zenon DEF FillBuffer
  <2>2. v.conn = t.conn
    <3> HIDE DEF n
    <3> QED BY <1>0
  <2> HIDE DEF v
  <2> QED BY <1>0, <2>1, <2>2
<1> QED BY <1>1, <1>2, <1>3, <1>4, <1>5, <1>6, <1>7, <1>8, <1>9 DEF Child, task_download, task_upload

LEMMA Receives ==
    ASSUME ITypes, IStages, NEW c \in Children, Child(c)
    PROVE  /\ \A k \in Conns : k # job[c].conn => received'[k] = received[k]
           /\ job[c].conn # 0 => task_upload(c)
<1>1. CASE task_download(c)
  <2>1. received' = received
    BY <1>1 DEF task_download, Connect, OpenDisk, ReadPeer, WriteDisk, CheckDigest, SendHave,
                AwaitHave, UnlinkLarge, TryAgain
  <2>2. job[c].pc \in {"await"} \cup Downloading /\ StageOK(job[c])
    BY <1>1 DEF task_download, Connect, OpenDisk, ReadPeer, WriteDisk, CheckDigest, SendHave,
                AwaitHave, UnlinkLarge, TryAgain, At, Downloading, Talking, IStages
  <2> QED BY <2>1, <2>2 DEF StageOK
<1>2. CASE task_upload(c)
  BY <1>2 DEF task_upload, ReadRequest, SendPeer, FillBuffer, ITypes
<1> QED BY <1>1, <1>2 DEF Child
(* The upload of c after a step that made its task u and left it faithful  *)
(* to the files as they were.                                              *)
LEMMA NowFaithful ==
    ASSUME ITypes, IMade, NEW c \in Children, TaskStep(c), NEW u \in Tasks, u.pc # "request",
           NEW r \in Seq(Digits), u.filename \in FileNames, u.file # Free, Made(u.file),
           Faithful(r, u, FileOf(job, u.filename, u.file))
    PROVE  UploadOK(u, r, job')
<1>1. u.file \in Inodes
  BY DEF Tasks
<1>2. FileOf(job, u.filename, u.file) \in Seq(Digits)
      /\ FileOf(job', u.filename, u.file) \in Seq(Digits)
      /\ Extends(FileOf(job, u.filename, u.file), FileOf(job', u.filename, u.file))
  BY <1>1, FileType, FileGrows
<1>3. Faithful(r, u, FileOf(job', u.filename, u.file))
  BY <1>2, FaithfulGrows
<1> QED BY <1>3 DEF UploadOK

LEMMA OpensFaithful ==
    ASSUME IUpload, NEW c \in Children, ReadRequest(c), TaskStep(c)
    PROVE  UploadOK(job'[c], received'[job[c].conn], job')
<1> DEFINE t == job[c]
           f == Asks[t.conn].file
           ino == dir[<<f, 0>>]
           r == received[t.conn]
<1>0. t \in Tasks /\ t.conn \in Conns /\ Fresh(t) /\ r = <<>> /\ received' = received
      /\ job \in [Children -> Tasks]
  <2>1. t \in Tasks /\ t.pc = "request" /\ t.conn \in Conns /\ 0 \notin Conns
    BY TransferAssumption DEF IUpload, IType, ITypes, IStages, ReadRequest, At, StageOK, Uploading
  <2> QED BY <2>1 DEF IUpload, IUploads, UploadOK, ReadRequest, IType, ITypes
<1>1. f \in FileNames
  BY <1>0, TransferAssumption
<1>2. CASE ino # Free /\ Becomes(c, Opened(t, f, ino))
  <2> DEFINE u == Opened(t, f, ino)
             s == FileOf(job, f, ino)
  <2>1. ino \in Inodes /\ Made(ino)
    BY <1>1, PlainName DEF IUpload, IType
  <2>2. s \in Seq(Digits) /\ Bytes(f, ino) = s
    <3> HIDE DEF ino, f
    <3>1. FileOf(job, f, ino) \in Seq(Digits)
      BY <1>1, <1>2, <2>1, FileType DEF IUpload, IType
    <3> QED BY <3>1 DEF FileOf, Bytes
  <2>3. u \in Tasks /\ u.pc = "send" /\ u.filename = f /\ u.file = ino /\ u.pos = 0
        /\ u.buffer = NewBuffer /\ u.opened = Len(s)
    <3>1. Len(Bytes(f, ino)) \in Nat /\ "send" \in Stages
      BY <2>2 DEF Stages
    <3>2. t.pos = 0 /\ t.buffer = NewBuffer
      BY <1>0 DEF Fresh
    <3>3. Len(s) = Len(Bytes(f, ino))
      BY <2>2
    <3> HIDE DEF t, f, ino, s
    <3> QED BY <1>0, <1>1, <2>1, <3>1, <3>2, <3>3 DEF Opened, Tasks
  <2>4. job'[c] = u
    <3>1. Becomes(c, u)
      BY <1>2
    <3> HIDE DEF u
    <3> QED BY <1>0, <3>1 DEF Becomes
  <2>5. Held(NewBuffer) \in Seq(Digits) /\ Len(Held(NewBuffer)) = 0
    <3>1. NewBuffer \in Buffers(Digits)
      BY <1>0 DEF Fresh, Tasks
    <3>2. NewBuffer.tail - NewBuffer.head = 0
      BY DEF NewBuffer
    <3> QED BY <3>1, <3>2, HeldType
  <2>6. Faithful(<<>>, u, s)
    <3> HIDE DEF u, s
    <3> QED BY <2>2, <2>3, <2>5 DEF Faithful, Extends
  <2> HIDE DEF u
  <2>7. UploadOK(u, <<>>, job')
    <3>1. Faithful(<<>>, u, FileOf(job, u.filename, u.file))
      BY <2>3, <2>6
    <3>2. u.filename \in FileNames /\ u.file # Free /\ Made(u.file) /\ u.pc # "request"
          /\ <<>> \in Seq(Digits)
      BY <1>1, <1>2, <2>1, <2>3
    <3> HIDE DEF t, f, ino, s
    <3> QED BY <2>3, <3>1, <3>2, NowFaithful DEF IUpload, IType
  <2> QED BY <1>0, <2>4, <2>7
<1>3. CASE Becomes(c, [Says(t, "request") EXCEPT !.pc = "ended"])
  <2> DEFINE u == [Says(t, "request") EXCEPT !.pc = "ended"]
  <2>1. u.pc = "ended" /\ u.file = t.file /\ t.file = Free
    BY <1>0 DEF Says, Fresh, Tasks
  <2>2. job'[c] = u
    <3>1. Becomes(c, u)
      BY <1>3
    <3> HIDE DEF u
    <3> QED BY <1>0, <3>1 DEF Becomes
  <2> HIDE DEF u
  <2> QED BY <2>1, <2>2 DEF UploadOK
<1> QED BY <1>2, <1>3 DEF ReadRequest, Opened

(* The complaint or the next stage changes nothing that was said of it.    *)
LEMMA FaithfulPc ==
    ASSUME NEW r, NEW j \in Tasks, NEW u \in Tasks, NEW s, Faithful(r, j, s),
           u.buffer = j.buffer, u.pos = j.pos, u.opened = j.opened,
           u.pc \notin {"ended", "reaped"} \/ u.said # {}
    PROVE  Faithful(r, u, s)
  BY DEF Faithful

LEMMA SendsFaithful ==
    ASSUME IUpload, NEW c \in Children, SendPeer(c), TaskStep(c)
    PROVE  UploadOK(job'[c], received'[job[c].conn], job')
<1> DEFINE t == job[c]
           b == t.buffer
           r == received[t.conn]
           s == FileOf(job, t.filename, t.file)
<1>0. t \in Tasks /\ StageOK(t) /\ t.pc = "send" /\ t.conn \in Conns /\ t.conn # 0
      /\ received \in [Conns -> Seq(Digits)] /\ job \in [Children -> Tasks] /\ Made(t.file)
  BY TransferAssumption DEF IUpload, IType, ITypes, IStages, IMade, SendPeer, At, StageOK, Uploading
<1>1. t.file # Free /\ t.filename \in FileNames /\ t.file \in Inodes /\ r \in Seq(Digits)
      /\ Faithful(r, t, s)
  BY <1>0 DEF StageOK, Tasks, IUpload, IUploads, UploadOK
<1>2. s \in Seq(Digits)
  BY <1>0, <1>1, FileType DEF IUpload, IType
<1>3. ASSUME NEW u \in Tasks, NEW q \in Seq(Digits), SameTask(t, u), u.pc # "request",
             Faithful(q, u, s), job'[c] = u, received'[t.conn] = q
      PROVE  UploadOK(job'[c], received'[t.conn], job')
  <2>1. u.filename = t.filename /\ u.file = t.file
    BY <1>3 DEF SameTask
  <2>2. Faithful(q, u, FileOf(job, u.filename, u.file))
    BY <1>3, <2>1
  <2>3. UploadOK(u, q, job')
    <3> HIDE DEF t, s, r
    <3>1. Made(u.file)
      BY <1>0, <2>1
    <3> QED BY <1>1, <1>3, <2>1, <2>2, <3>1, NowFaithful DEF IUpload, IType
  <2> QED BY <1>3, <2>3
<1>4. CASE UNCHANGED received /\ Becomes(c, [t EXCEPT !.pc = "fill"])
  <2> DEFINE u == [t EXCEPT !.pc = "fill"]
  <2>1. u \in Tasks /\ u.pc = "fill" /\ SameTask(t, u)
    BY <1>0, PcTask DEF Stages
  <2>2. u.buffer = t.buffer /\ u.pos = t.pos /\ u.opened = t.opened
    BY <1>0 DEF Tasks
  <2> HIDE DEF u, s
  <2>3. Faithful(r, u, s)
    BY <1>0, <1>1, <2>1, <2>2, FaithfulPc
  <2>4. job'[c] = u
    BY <1>0, <1>4 DEF Becomes, u
  <2> QED BY <1>0, <1>1, <1>3, <1>4, <2>1, <2>3, <2>4
<1>5. ASSUME NEW n \in 1..Span(b), Becomes(c, [t EXCEPT !.pc = "fill", !.buffer = WriteOut(b, n)]),
             received' = [received EXCEPT ![t.conn] = @ \o Piece(b, n)]
      PROVE  UploadOK(job'[c], received'[t.conn], job')
  <2> DEFINE u == [t EXCEPT !.pc = "fill", !.buffer = WriteOut(b, n)]
             q == r \o Piece(b, n)
  <2>1. b \in Buffers(Digits) /\ n \in 0..Span(b)
    <3>1. b \in Buffers(Digits)
      BY <1>0 DEF Tasks
    <3> QED BY <3>1, SpanFits, Counts
  <2>2. WriteOut(b, n) \in Buffers(Digits) /\ Piece(b, n) \in Seq(Digits) /\ "fill" \in Stages
    BY <2>1, WriteTakesFront, PieceType DEF Stages
  <2>3. u \in Tasks /\ u.pc = "fill" /\ SameTask(t, u)
    <3> HIDE DEF t
    <3> QED BY <1>0, <2>2 DEF Tasks, SameTask
  <2>4. q \in Seq(Digits) /\ received'[t.conn] = q
    <3>1. q \in Seq(Digits)
      BY <1>1, <2>2
    <3> QED BY <1>0, <1>5, <3>1
  <2>5. Faithful(q, u, s)
    <3> HIDE DEF s
    <3> QED BY <1>0, <1>1, <1>2, FaithfulSend
  <2> HIDE DEF u, q, s
  <2>6. job'[c] = u
    BY <1>0, <1>5 DEF Becomes, u
  <2> QED BY <1>3, <2>3, <2>4, <2>5, <2>6
<1>6. CASE UNCHANGED received /\ Becomes(c, [Says(t, "write error") EXCEPT !.pc = "ended"])
  <2> DEFINE u == [Says(t, "write error") EXCEPT !.pc = "ended"]
  <2>1. u \in Tasks /\ u.pc = "ended" /\ SameTask(t, u)
    <3>1. "write error" \in Complaints /\ "ended" \in Stages
      BY DEF Complaints, Stages
    <3> QED BY ZenonT(60), <1>0, <3>1, SaysTask
  <2>2. u.buffer = t.buffer /\ u.pos = t.pos /\ u.opened = t.opened /\ u.said # {}
    BY <1>0 DEF Tasks, Says
  <2> HIDE DEF u, s
  <2>3. Faithful(r, u, s)
    BY <1>0, <1>1, <2>1, <2>2, FaithfulPc
  <2>4. job'[c] = u
    BY <1>0, <1>6 DEF Becomes, u
  <2> QED BY <1>0, <1>1, <1>3, <1>6, <2>1, <2>3, <2>4
<1> QED BY <1>4, <1>5, <1>6 DEF SendPeer
LEMMA FillsFaithful ==
    ASSUME IUpload, NEW c \in Children, FillBuffer(c), TaskStep(c)
    PROVE  UploadOK(job'[c], received'[job[c].conn], job')
<1> DEFINE t == job[c]
           b == t.buffer
           r == received[t.conn]
           s == FileOf(job, t.filename, t.file)
           left == Unread(t)
           n == Smaller(Len(left), Room(b))
           p == SubSeq(left, 1, n)
<1>0. t \in Tasks /\ StageOK(t) /\ t.pc = "fill" /\ t.conn \in Conns /\ t.conn # 0
      /\ received \in [Conns -> Seq(Digits)] /\ job \in [Children -> Tasks] /\ Made(t.file)
      /\ received' = received
  BY TransferAssumption DEF IUpload, IType, ITypes, IStages, IMade, FillBuffer, At, StageOK, Uploading
<1>1. t.file # Free /\ t.filename \in FileNames /\ t.file \in Inodes /\ r \in Seq(Digits)
      /\ Faithful(r, t, s)
  BY <1>0 DEF StageOK, Tasks, IUpload, IUploads, UploadOK
<1>2. s \in Seq(Digits) /\ Bytes(t.filename, t.file) = s
  <2>1. s \in Seq(Digits)
    BY <1>0, <1>1, FileType DEF IUpload, IType
  <2> QED BY <2>1, Zenon DEF Bytes, FileOf
<1>3. b \in Buffers(Digits) /\ t.pos \in Nat /\ t.opened \in Nat /\ Held(b) \in Seq(Digits)
      /\ t.pos <= Len(s) /\ t.opened <= Len(s) /\ Len(r) + Len(Held(b)) = t.pos
  BY <1>0, <1>1, HeldSeq DEF Faithful
<1>4. /\ left \in Seq(Digits) /\ Len(left) = Len(s) - t.pos
      /\ \A i \in 1..Len(left) : left[i] = s[t.pos + i]
  <2>1. left = SubSeq(s, t.pos + 1, Len(s))
    BY <1>2, Zenon DEF Unread
  <2> HIDE DEF left, s, t
  <2>2. /\ left \in Seq(Digits) /\ Len(left) = IF t.pos < Len(s) THEN Len(s) - t.pos ELSE 0
        /\ \A i \in 1..Len(s) - t.pos : left[i] = s[t.pos + i]
    BY <1>2, <1>3, <2>1, RestType
  <2>3. Len(s) \in Nat
    BY <1>2
  <2> QED BY <1>3, <2>2, <2>3
<1>5. Room(b) \in Nat /\ (Room(b) = 0 => b.head # b.tail)
  <2>1. Room(b) \in 0..TASKBUFSIZ - (b.tail - b.head) /\ b.tail - b.head \in Int
        /\ (Room(b) = 0 <=> b.tail - b.head = TASKBUFSIZ)
    BY <1>3, RoomFits, Counts
  <2> QED BY <2>1, <1>3, Counts, BufferAssumption
<1>6. n \in 0..Len(left) /\ n <= Room(b) /\ (n = 0 => Len(left) = 0 \/ Room(b) = 0)
  <2> HIDE DEF left, b
  <2>1. Len(left) \in Nat
    BY <1>4
  <2> QED BY <1>5, <2>1 DEF Smaller
<1>7. p \in Seq(Digits) /\ Len(p) = n /\ \A i \in 1..n : p[i] = left[i]
  <2> HIDE DEF left, n
  <2> QED BY <1>4, <1>6, FrontType
<1>8. ASSUME NEW u \in Tasks, SameTask(t, u), u.pc # "request", Faithful(r, u, s), job'[c] = u
      PROVE  UploadOK(job'[c], received'[t.conn], job')
  <2>1. u.filename = t.filename /\ u.file = t.file
    BY <1>8 DEF SameTask
  <2>2. Faithful(r, u, FileOf(job, u.filename, u.file))
    BY <1>8, <2>1
  <2>3. UploadOK(u, r, job')
    <3> HIDE DEF t, s, r
    <3>1. Made(u.file)
      BY <1>0, <2>1
    <3> QED BY <1>1, <1>8, <2>1, <2>2, <3>1, NowFaithful DEF IUpload, IType
  <2> QED BY <1>0, <1>8, <2>3
<1>9. CASE Drained(n, b) /\ Becomes(c, [t EXCEPT !.pc = "ended"])
  <2> DEFINE u == [t EXCEPT !.pc = "ended"]
  <2>1. u \in Tasks /\ u.pc = "ended" /\ SameTask(t, u)
    <3>1. "ended" \in Stages
      BY DEF Stages
    <3> QED BY <1>0, <3>1, PcTask
  <2>2. u.buffer = b /\ u.pos = t.pos /\ u.opened = t.opened
    BY <1>0 DEF Tasks
  <2>3. job'[c] = u
    <3>1. Becomes(c, u)
      BY <1>9
    <3> HIDE DEF u
    <3> QED BY <1>0, <3>1 DEF Becomes
  <2>4. Len(left) = 0 /\ b.head = b.tail
    BY <1>5, <1>6, <1>9 DEF Drained
  <2>5. Len(Held(b)) = 0
    <3>1. Len(Held(b)) = b.tail - b.head
      BY <1>3, HeldType
    <3> QED BY <1>3, <2>4, <3>1, Counts
  <2>6. u.opened <= Len(r)
    <3>1. Len(r) \in Nat /\ Len(s) \in Nat
      BY <1>1, <1>2
    <3> HIDE DEF left, r, s, t, b, u
    <3> QED BY <1>3, <1>4, <2>2, <2>4, <2>5, <3>1
  <2> HIDE DEF u, s, left, n, b
  <2>7. Faithful(r, u, s)
    <3>1. Faithful(r, t, s)
      BY <1>1
    <3> HIDE DEF t, r
    <3> QED BY <3>1, <2>2, <2>6 DEF Faithful, b
  <2> QED BY <1>8, <2>1, <2>3, <2>7
<1>10. CASE Becomes(c, [t EXCEPT !.pc = "send", !.pos = @ + n, !.buffer = ReadInto(b, p)])
  <2> DEFINE u == [t EXCEPT !.pc = "send", !.pos = @ + n, !.buffer = ReadInto(b, p)]
  <2>1. ReadInto(b, p) \in Buffers(Digits) /\ t.pos + n \in Nat /\ "send" \in Stages
    <3> HIDE DEF left, n, p
    <3> QED BY <1>3, <1>6, <1>7, ReadAppends DEF Stages
  <2>2. u \in Tasks /\ u.pc = "send" /\ SameTask(t, u)
    <3> HIDE DEF t, n, p
    <3> QED BY <1>0, <2>1 DEF Tasks, SameTask
  <2>3. job'[c] = u
    <3>1. Becomes(c, u)
      BY <1>10
    <3> HIDE DEF u
    <3> QED BY <1>0, <3>1 DEF Becomes
  <2>4. t.pos + Len(p) <= Len(s) /\ Len(p) <= Room(b) /\ \A i \in 1..Len(p) : p[i] = s[t.pos + i]
    <3>1. Len(s) \in Nat /\ Len(left) \in Nat
      BY <1>2, <1>4
    <3>2. Len(left) = Len(s) - t.pos /\ t.pos \in Nat /\ n \in 0..Len(left) /\ n <= Room(b)
          /\ Len(p) = n
      BY <1>3, <1>4, <1>6, <1>7
    <3>3. \A i \in 1..Len(left) : left[i] = s[t.pos + i]
      BY <1>4
    <3>4. \A i \in 1..n : p[i] = left[i]
      BY <1>7
    <3> HIDE DEF left, n, p, s, b, t
    <3>5. ASSUME NEW i \in 1..Len(p) PROVE p[i] = s[t.pos + i]
      <4>1. i \in 1..n /\ i \in 1..Len(left)
        BY <3>1, <3>2
      <4> QED BY <3>3, <3>4, <4>1
    <3> QED BY <3>1, <3>2, <3>5
  <2>5. Faithful(r, [t EXCEPT !.pc = "send", !.pos = @ + Len(p), !.buffer = ReadInto(b, p)], s)
    <3> HIDE DEF s, p, r, n, left
    <3> QED BY <1>0, <1>1, <1>2, <1>7, <2>4, FaithfulFill
  <2>6. Faithful(r, u, s)
    <3>1. Len(p) = n
      BY <1>7
    <3> HIDE DEF s, p, r, n, left
    <3> QED BY <2>5, <3>1
  <2> HIDE DEF u, s
  <2> QED BY <1>8, <2>2, <2>3, <2>6
<1>11. Becomes(c, IF Drained(n, b) THEN [t EXCEPT !.pc = "ended"]
                  ELSE [t EXCEPT !.pc = "send", !.pos = @ + n, !.buffer = ReadInto(b, p)])
  BY Zenon DEF FillBuffer
<1> QED BY <1>9, <1>10, <1>11, Zenon

LEMMA ChildUploads ==
    ASSUME IUpload, NEW c \in Children, Child(c), UNCHANGED peerVars
    PROVE  IConns' /\ IUploads'
<1>1. ITypes /\ IStages /\ IMade /\ job \in [Children -> Tasks] /\ received \in [Conns -> Seq(Digits)]
  BY DEF IUpload, IType, ITypes
<1>2. TaskStep(c)
  BY <1>1, ChildTask
<1>3. \A d \in Children : d # c => job'[d] = job[d]
  BY <1>1, <1>2 DEF TaskStep
<1>4. \A d \in Children : job'[d].conn = job[d].conn /\ job[d].conn \in Conns \cup {0}
  BY <1>1, <1>3, KeepsConn DEF Tasks
<1>5. \A k \in Conns : k # job[c].conn => received'[k] = received[k]
  BY <1>1, Receives
<1>6. Awaited' = Awaited /\ Awaited \subseteq Conns
  <2>1. Awaited' = Awaited
    BY DEF Awaited, peerVars
  <2>2. \A i \in DOMAIN waiting : waiting[i] \in Conns
    <3>1. waiting \in Seq(Conns)
      BY <1>1 DEF ITypes
    <3> QED BY <3>1
  <2>3. main.pc = "serve" => main.task.conn \in Conns
    BY DEF IUpload, IType, IStages, MainOK, StageOK, Uploading
  <2> QED BY <2>1, <2>2, <2>3 DEF Awaited
<1>7. IConns'
  BY <1>4, <1>5, <1>6 DEF IUpload, IConns, peerVars
<1>8. ASSUME NEW d \in Children, job'[d].conn # 0
      PROVE  UploadOK(job'[d], received'[job'[d].conn], job')
  <2>1. job'[d].conn = job[d].conn /\ job[d].conn \in Conns /\ job[d].conn # 0
    BY <1>4, <1>8
  <2>2. CASE d = c
    <3>1. task_upload(c)
      BY <1>1, <2>1, <2>2, Receives
    <3>2. UploadOK(job'[c], received'[job[c].conn], job')
      BY <3>1, <1>2, OpensFaithful, SendsFaithful, FillsFaithful DEF task_upload
    <3> QED BY <2>1, <2>2, <3>2
  <2>3. CASE d # c
    <3>1. job[d].conn # job[c].conn
      BY <2>1, <2>3 DEF IUpload, IConns
    <3>2. job'[d] = job[d] /\ received'[job[d].conn] = received[job[d].conn]
          /\ received[job[d].conn] \in Seq(Digits)
      BY <1>1, <1>3, <1>5, <2>1, <2>3, <3>1
    <3>3. UploadOK(job[d], received[job[d].conn], job)
      BY <2>1 DEF IUpload, IUploads
    <3>4. UploadOK(job[d], received[job[d].conn], job')
      BY <1>1, <1>2, <2>1, <3>2, <3>3, OthersUpload
    <3> QED BY <3>2, <3>4
  <2> QED BY <2>2, <2>3
<1> QED BY <1>7, <1>8 DEF IUploads
---------------------------------------------------------------------------
(* A step of main or of the tracker *)

LEMMA Quiet ==
    ASSUME IUpload, UNCHANGED <<job, received, waiting>>, main'.pc # "serve" \/ UNCHANGED main
    PROVE  IConns' /\ IUploads'
<1>1. Awaited' \subseteq Awaited
  BY DEF Awaited
<1>2. IConns'
  BY <1>1 DEF IUpload, IConns
<1> QED BY <1>2 DEF IUpload, IUploads

LEMMA SameFile ==
    ASSUME NEW f, NEW ino, ino # Free, Made(ino),
           \A d \in Children : job'[d].data = job[d].data
    PROVE  FileOf(job', f, ino) = FileOf(job, f, ino)
  BY DEF FileOf, Made

(* The tasks keep what they were, or come to be faithful at once.          *)
LEMMA SameUploads ==
    ASSUME IUpload, received' = received,
           \A d \in Children : job'[d].data = job[d].data,
           \A d \in Children : job'[d].conn # 0 =>
              \/ job'[d] = job[d]
              \/ Fresh(job'[d]) /\ received[job'[d].conn] = <<>>
              \/ /\ job[d].pc = "ended" /\ job'[d] = [job[d] EXCEPT !.pc = "reaped"]
    PROVE  IUploads'
<1>1. ASSUME NEW d \in Children, job'[d].conn # 0
      PROVE  UploadOK(job'[d], received[job'[d].conn], job')
  <2>1. CASE Fresh(job'[d]) /\ received[job'[d].conn] = <<>>
    BY <2>1 DEF UploadOK, Fresh
  <2>2. ASSUME NEW u, u = job'[d], SameTask(job[d], u), u.buffer = job[d].buffer, u.pos = job[d].pos,
               u.opened = job[d].opened, u.said = job[d].said, u.pc = "request" => u = job[d],
               u.pc \in {"ended", "reaped"} => job[d].pc \in {"ended", "reaped"}
        PROVE  UploadOK(u, received[u.conn], job')
    <3>1. u.conn = job[d].conn /\ u.file = job[d].file /\ u.filename = job[d].filename
      BY <2>2 DEF SameTask
    <3>2. UploadOK(job[d], received[u.conn], job)
      BY <1>1, <2>2, <3>1 DEF IUpload, IUploads
    <3>3. Made(job[d].file)
      BY DEF IUpload, IType, IMade
    <3>4. u.file # Free => FileOf(job', u.filename, u.file) = FileOf(job, u.filename, u.file)
      BY <3>1, <3>3, SameFile
    <3>5. u.file # Free => u.filename \in FileNames
                           /\ Faithful(received[u.conn], job[d], FileOf(job', u.filename, u.file))
      BY <3>1, <3>2, <3>4 DEF UploadOK
    <3>6. u.file # Free => u.filename \in FileNames
                           /\ Faithful(received[u.conn], u, FileOf(job', u.filename, u.file))
      BY <2>2, <3>5 DEF Faithful
    <3>7. u.pc = "request" => Fresh(u) /\ received[u.conn] = <<>>
      BY <2>2, <3>2 DEF UploadOK
    <3> QED BY <3>6, <3>7 DEF UploadOK
  <2>3. CASE job'[d] = job[d]
    BY <2>2, <2>3 DEF SameTask
  <2>4. CASE job[d].pc = "ended" /\ job'[d] = [job[d] EXCEPT !.pc = "reaped"]
    <3> DEFINE u == [job[d] EXCEPT !.pc = "reaped"]
    <3>1. u.pc = "reaped" /\ SameTask(job[d], u) /\ u.buffer = job[d].buffer /\ u.pos = job[d].pos
          /\ u.opened = job[d].opened /\ u.said = job[d].said
      BY DEF IUpload, IType, ITypes, Tasks, SameTask
    <3>2. u = job'[d]
      BY <2>4
    <3> HIDE DEF u
    <3>3. UploadOK(u, received[u.conn], job')
      BY <2>2, <2>4, <3>1, <3>2
    <3> QED BY <3>2, <3>3
  <2> QED BY <1>1, <2>1, <2>3, <2>4
<1> QED BY <1>1 DEF IUploads

LEMMA WaitUploads == ASSUME IUpload, WaitForOne PROVE IConns' /\ IUploads'
<1>1. received' = received /\ waiting' = waiting /\ main' = [main EXCEPT !.pc = main'.pc]
      /\ main'.pc \in {"accept", "want"} /\ job \in [Children -> Tasks] /\ main \in Mains
  BY DEF WaitForOne, IUpload, IType, ITypes, Mains
<1>2. \A d \in Children : job'[d] = job[d]
                          \/ (job[d].pc = "ended" /\ job'[d] = [job[d] EXCEPT !.pc = "reaped"])
  BY <1>1 DEF WaitForOne, Unreaped, Started
<1>3. \A d \in Children : job'[d].data = job[d].data /\ job'[d].conn = job[d].conn
  <2>1. ASSUME NEW d \in Children, NEW t, t \in Tasks
        PROVE  LET u == [t EXCEPT !.pc = "reaped"] IN u.data = t.data /\ u.conn = t.conn
    BY <2>1 DEF Tasks
  <2>2. \A d \in Children : job[d] \in Tasks
    BY <1>1
  <2> QED BY <1>2, <2>1, <2>2
<1>4. IUploads'
  BY <1>1, <1>2, <1>3, SameUploads
<1>5. Awaited' \subseteq Awaited
  BY <1>1 DEF Awaited
<1>6. IConns'
  BY <1>1, <1>3, <1>5 DEF IUpload, IConns
<1> QED BY <1>4, <1>6

LEMMA AcceptUploads == ASSUME IUpload, Accept PROVE IConns' /\ IUploads'
<1>1. /\ waiting # <<>> /\ waiting' = Tail(waiting) /\ job' = job /\ received' = received
      /\ waiting \in Seq(Conns) /\ main \in Mains /\ main.pc = "accept"
      /\ main' = [main EXCEPT !.pc = "serve",
                              !.task = [task_new("request") EXCEPT !.conn = Head(waiting)]]
  BY DEF Accept, MainAt, transferVars, IUpload, IType, ITypes
<1>2. main'.pc = "serve" /\ main'.task.conn = Head(waiting)
  <2> DEFINE new == task_new("request")
  <2>1. new \in Tasks
    <3>1. "request" \in Stages
      BY DEF Stages
    <3> QED BY <3>1, NewTask
  <2> HIDE DEF new
  <2>2. [new EXCEPT !.conn = Head(waiting)].conn = Head(waiting)
    BY <2>1 DEF Tasks
  <2> QED BY <1>1, <2>2 DEF Mains, new
<1>3. /\ 1 \in DOMAIN waiting /\ Head(waiting) = waiting[1]
      /\ \A i \in DOMAIN waiting' : i + 1 \in DOMAIN waiting /\ waiting'[i] = waiting[i + 1] /\ i \in Nat \ {0}
  BY <1>1
<1>4. Awaited' \subseteq Awaited
  BY <1>1, <1>2, <1>3 DEF Awaited
<1>5. \A i \in DOMAIN waiting' : waiting'[i] # main'.task.conn
  BY <1>2, <1>3 DEF IUpload, IConns
<1>6. \A i, k \in DOMAIN waiting' : waiting'[i] = waiting'[k] => i = k
  BY <1>3 DEF IUpload, IConns
<1>7. IConns'
  BY <1>1, <1>2, <1>4, <1>5, <1>6 DEF IUpload, IConns
<1> QED BY <1>1, <1>7 DEF IUpload, IUploads

LEMMA ForkUploads == ASSUME IUpload, ForkDownload \/ ForkUpload PROVE IConns' /\ IUploads'
<1> DEFINE n == NextChild
           t == main.task
<1>0. /\ received' = received /\ waiting' = waiting /\ main \in Mains /\ MainOK(main)
      /\ job \in [Children -> Tasks] /\ Fresh(t) /\ t.pc \in {"connect", "request"} /\ StageOK(t)
      /\ (main.pc = "serve" \/ t.conn = 0) /\ main.pc \in {"fork", "serve"}
  BY DEF IUpload, IType, ITypes, IStages, ForkDownload, ForkUpload, MainAt, MainOK, StageOK,
         Downloading
<1>1. main'.pc \in {"want", "accept", "wait"} /\ Awaited' \subseteq Awaited
  <2>1. main'.pc \in {"want", "accept", "wait"}
    BY <1>0 DEF ForkDownload, ForkUpload, Fork, NextName, Mains
  <2> QED BY <1>0, <2>1 DEF Awaited
<1>2. CASE UNCHANGED job
  BY <1>0, <1>1, <1>2, Quiet
<1>3. CASE job' = [job EXCEPT ![n] = t]
  <2>1. n \notin Started
    BY StartedIs DEF IUpload
  <2> HIDE DEF n, t
  <2>2. \A d \in Children : job'[d] = IF d = n THEN t ELSE job[d]
    BY <1>0, <1>3
  <2>3. n \in Children => job[n].data = <<>>
    BY <2>1 DEF Started, IUpload, IType, IStages
  <2>4. \A d \in Children : job'[d].data = job[d].data
    BY <1>0, <2>2, <2>3 DEF Fresh
  <2>5. t.conn # 0 => t.conn \in Awaited /\ main.pc = "serve"
    BY <1>0 DEF Awaited, t
  <2>6. t.conn # 0 => received[t.conn] = <<>> /\ \A c \in Children : job[c].conn # t.conn
    BY <2>5 DEF IUpload, IConns
  <2>7. IUploads'
    BY <1>0, <2>2, <2>4, <2>6, SameUploads
  <2>8. Awaited' = {waiting[i] : i \in DOMAIN waiting}
    BY <1>0, <1>1 DEF Awaited
  <2>9. \A k \in Awaited' : k # 0 /\ k # t.conn
    <3>1. waiting \in Seq(Conns) /\ 0 \notin Conns
      BY TransferAssumption DEF IUpload, IType, ITypes
    <3>2. \A i \in DOMAIN waiting : waiting[i] # 0
      BY <3>1
    <3>3. \A i \in DOMAIN waiting : waiting[i] # t.conn
      BY <2>5, <3>2 DEF IUpload, IConns, t
    <3> QED BY <2>8, <3>2, <3>3
  <2>10. IConns'
    BY <1>0, <1>1, <2>2, <2>6, <2>9 DEF IUpload, IConns
  <2> QED BY <2>7, <2>10
<1> QED BY <1>2, <1>3 DEF ForkDownload, ForkUpload, Fork

---------------------------------------------------------------------------
(* Every behaviour *)

LEMMA InitUploads == ASSUME Init PROVE IUpload
<1>1. IType
  BY InitTypes
<1>2. \A c \in Children : job[c].conn = 0
  <2>1. "none" \in Stages
    BY DEF Stages
  <2>2. task_new("none").conn = 0
    BY <2>1, NewTask
  <2> QED BY <2>2 DEF Init
<1>3. main.pc = "start" /\ waiting = scene.conns /\ scene \in Scenes
  BY DEF Init
<1>4. waiting \in Seq(Conns) /\ \A i, k \in DOMAIN waiting : waiting[i] = waiting[k] => i = k
  BY <1>3, SceneAssumption, Zenon
<1>5. \A k \in Awaited : k \in Conns /\ k # 0 /\ received[k] = <<>>
  <2>1. \A i \in DOMAIN waiting : waiting[i] \in Conns
    BY <1>4
  <2>2. 0 \notin Conns
    BY TransferAssumption
  <2> QED BY <1>3, <2>1, <2>2 DEF Awaited, Init
<1>6. IConns
  BY <1>2, <1>3, <1>4, <1>5 DEF IConns
<1> QED BY <1>1, <1>2, <1>6 DEF IUpload, IUploads

LEMMA NextUploads == ASSUME IUpload, [Next]_vars PROVE IUpload'
<1>1. IType'
  BY NextTypes DEF IUpload
<1>2. CASE StartTracker \/ Greeting \/ StartListen \/ RegisterAddress \/ AddressAnswer
           \/ RegisterFile \/ FileAnswer \/ StartServing
  <2>1. UNCHANGED <<job, received, waiting>> /\ main \in Mains
    BY <1>2 DEF StartTracker, Greeting, StartListen, RegisterAddress, AddressAnswer, RegisterFile,
                FileAnswer, StartServing, Sends1, Takes, Unstirred, IUpload, IType, ITypes
  <2>2. main'.pc # "serve"
    BY <1>2, <2>1 DEF StartTracker, Greeting, StartListen, RegisterAddress, AddressAnswer,
                RegisterFile, FileAnswer, StartServing, Sends1, Takes, Mains, MainAt
  <2> QED BY <1>1, <2>1, <2>2, Quiet DEF IUpload
<1>3. CASE Want \/ WantAnswer \/ AskSum \/ SumAnswer
  <2>1. UNCHANGED <<job, received, waiting>> /\ main \in Mains
    BY <1>3 DEF Want, WantAnswer, AskSum, SumAnswer, Sends1, Takes, Unstirred, IUpload, IType, ITypes
  <2>2. main'.pc # "serve"
    BY <1>3, <2>1 DEF Want, WantAnswer, AskSum, SumAnswer, Sends1, Takes, Mains, NextName
  <2> QED BY <1>1, <2>1, <2>2, Quiet DEF IUpload
<1>4. CASE ForkDownload \/ ForkUpload
  BY <1>1, <1>4, ForkUploads DEF IUpload
<1>5. CASE WaitForOne
  BY <1>1, <1>5, WaitUploads DEF IUpload
<1>6. CASE Accept
  BY <1>1, <1>6, AcceptUploads DEF IUpload
<1>7. CASE AChild
  BY <1>1, <1>7, ChildUploads DEF AChild, IUpload
<1>8. CASE Tracker
  BY <1>1, <1>8, Quiet DEF Tracker, IUpload
<1>9. CASE UNCHANGED vars
  BY <1>1, <1>9, Quiet DEF vars, peerVars, transferVars, IUpload
<1> QED BY <1>2, <1>3, <1>4, <1>5, <1>6, <1>7, <1>8, <1>9 DEF Next, Main, Resting

(* What an upload sends is the file from its start and nothing else, and   *)
(* one that ends without an error has sent at least all that the file held *)
(* when it was opened (task_upload, the loop over write_from_taskbuf and   *)
(* read_to_taskbuf).                                                       *)
THEOREM UploadsWholeCorrect == Spec => []UploadsWhole
<1>1. Spec => []IUpload
  BY InitUploads, NextUploads, PTL DEF Spec
<1>2. ASSUME IUpload PROVE UploadsWhole
  <2>1. ASSUME NEW c \in Children, job[c].conn # 0, job[c].file # Free
        PROVE  LET r == received[job[c].conn] IN
               /\ IsPrefix(r, Bytes(job[c].filename, job[c].file))
               /\ (job[c].pc \in {"ended", "reaped"} /\ job[c].said = {}) => Len(r) >= job[c].opened
    <3> DEFINE r == received[job[c].conn]
               j == job[c]
               s == FileOf(job, j.filename, j.file)
    <3>1. j \in Tasks /\ j.conn \in Conns /\ r \in Seq(Digits) /\ j.file \in Inodes /\ Made(j.file)
          /\ j.opened \in Nat /\ j.pos \in Nat
      BY <1>2, <2>1 DEF IUpload, IType, ITypes, IMade, Tasks
    <3>2. j.filename \in FileNames /\ Faithful(r, j, s)
      BY <1>2, <2>1 DEF IUpload, IUploads, UploadOK
    <3>3. s \in Seq(Digits)
      BY <1>2, <2>1, <3>1, <3>2, FileType DEF IUpload, IType
    <3>4. Bytes(j.filename, j.file) = s
      BY <3>3, Zenon DEF Bytes, FileOf
    <3>5. Extends(r, s) /\ ((j.pc \in {"ended", "reaped"} /\ j.said = {}) => j.opened <= Len(r))
      BY <3>2 DEF Faithful
    <3> HIDE DEF r, s
    <3>6. IsPrefix(r, s)
      <4>1. Len(r) \in 0..Len(s) /\ Len(r) \in 0..Len(r)
        BY <3>1, <3>3, <3>5 DEF Extends
      <4>2. /\ Len(SubSeq(r, 1, Len(r))) = Len(r) /\ Len(SubSeq(s, 1, Len(r))) = Len(r)
            /\ SubSeq(r, 1, Len(r)) \in Seq(Digits) /\ SubSeq(s, 1, Len(r)) \in Seq(Digits)
            /\ \A i \in 1..Len(r) : SubSeq(r, 1, Len(r))[i] = r[i] /\ SubSeq(s, 1, Len(r))[i] = s[i]
        BY <3>1, <3>3, <4>1, FrontType
      <4>3. SubSeq(r, 1, Len(r)) = SubSeq(s, 1, Len(r))
        BY <4>2, <3>5, SeqEqual DEF Extends
      <4> QED BY <4>1, <4>3 DEF IsPrefix
    <3> QED BY <3>1, <3>4, <3>5, <3>6 DEF r
  <2> QED BY <2>1 DEF UploadsWhole
<1> QED BY <1>1, <1>2, PTL

---------------------------------------------------------------------------
(* The children that are counted *)


Failed == scene.forkFails - fails
Reaped == Started \ Unreaped

(* w: main waits; p: pid_counter; k: the forks that failed; u: the children *)
(* not waited for; r: those waited for; d: the connections given up.        *)
Booked(w, p, k, u, r, d) ==
    /\ p \in u - k..u /\ u <= MAXCONNPID + k /\ d <= r + k + w
    /\ (w = 1 /\ u = 0) => p > 0 - k /\ d <= r + k

Waiting == IF main.pc = "wait" THEN 1 ELSE 0

ICount == Booked(Waiting, pid_counter, Failed, Cardinality(Unreaped), Cardinality(Reaped),
                 Cardinality(dropped))

(* There is a child for every fork still to come.                          *)
IEnough ==
    Cardinality(Started) + Len(main.argv) + Len(waiting)
       + (IF main.pc = "serve" THEN 1 ELSE 0) <= Cardinality(Children)

IFork == IType /\ IsFiniteSet(dropped) /\ ICount /\ IEnough

---------------------------------------------------------------------------
(* The sets *)

LEMMA Sizes ==
    ASSUME IType, IsFiniteSet(dropped)
    PROVE  /\ IsFiniteSet(Started) /\ IsFiniteSet(Unreaped) /\ IsFiniteSet(Reaped)
           /\ Cardinality(Started) \in Nat /\ Cardinality(Unreaped) \in Nat
           /\ Cardinality(Reaped) \in Nat /\ Cardinality(dropped) \in Nat
           /\ Cardinality(Children) \in Nat
           /\ Len(main.argv) \in Nat /\ Len(waiting) \in Nat
           /\ Failed \in Nat /\ pid_counter \in Int /\ fails \in Nat
           /\ main \in Mains /\ job \in [Children -> Tasks] /\ MainOK(main)
           /\ MAXCONNPID \in Nat \ {0}
<1>1. IsFiniteSet(Started)
  BY StartedIs
<1>2. Unreaped \subseteq Started /\ Reaped \subseteq Started
  BY DEF Unreaped, Reaped
<1>3. IsFiniteSet(Unreaped) /\ IsFiniteSet(Reaped) /\ IsFiniteSet(Children)
  BY <1>1, <1>2, FS_Subset, TransferAssumption
<1>4. Failed \in Nat /\ fails \in Nat
  <2>1. scene.forkFails \in Nat /\ fails \in 0..scene.forkFails
    BY SceneIs DEF IType, ITypes
  <2> QED BY <2>1 DEF Failed
<1>5. main \in Mains /\ job \in [Children -> Tasks] /\ MainOK(main) /\ waiting \in Seq(Conns)
      /\ main.argv \in Seq(FileNames) /\ pid_counter \in Int
  BY DEF IType, ITypes, IStages, Mains
<1>6. Len(main.argv) \in Nat /\ Len(waiting) \in Nat
  BY <1>5
<1> QED BY <1>1, <1>3, <1>4, <1>5, <1>6, FS_CardinalityType, PeerAssumption

LEMMA NotReaped ==
    ASSUME ITypes, NEW c \in Children, Child(c)
    PROVE  job[c].pc # "reaped" /\ job'[c].pc # "reaped"
<1> DEFINE t == job[c]
<1>0. t \in Tasks /\ job \in [Children -> Tasks]
  BY DEF ITypes
<1> USE DEF Becomes, Says, Tasks, At
<1>1. CASE Connect(c)
  BY <1>0, <1>1 DEF Connect
<1>2. CASE OpenDisk(c)
  <2> DEFINE i == t.tries
             f == t.filename
  <2>1. t.pc = "open"
    BY <1>2 DEF OpenDisk
  <2>2. CASE Becomes(c, [t EXCEPT !.tries = i + 1, !.disk = <<f, i>>])
    BY <1>0, <2>1, <2>2
  <2>3. CASE Becomes(c, [t EXCEPT !.pc = "read", !.disk = <<f, i>>, !.data = Append(@, <<>>)])
    BY <1>0, <2>1, <2>3
  <2>4. CASE Becomes(c, [Says(t, "names") EXCEPT !.pc = "ended", !.disk = <<>>])
    BY <1>0, <2>1, <2>4
  <2> QED BY <1>2, <2>1, <2>2, <2>3, <2>4 DEF OpenDisk
<1>3. CASE ReadPeer(c)
  <2>1. t.pc = "read"
    BY <1>3 DEF ReadPeer
  <2> DEFINE p == IF t.buffer.head = t.buffer.tail THEN "check" ELSE "write"
  <2>2. CASE Becomes(c, [t EXCEPT !.pc = p])
    BY <1>0, <2>1, <2>2
  <2>3. CASE Becomes(c, [Says(t, "read error") EXCEPT !.pc = "retry"])
    BY <1>0, <2>1, <2>3
  <2>4. ASSUME NEW s, NEW n, Becomes(c, [t EXCEPT !.pc = "write", !.pos = @ + n,
                                           !.buffer = ReadInto(t.buffer, s), !.digest = Hashed(t, s)])
        PROVE  job'[c].pc = "write"
    BY <1>0, <2>4
  <2> QED BY <1>3, <2>1, <2>2, <2>3, <2>4 DEF ReadPeer
<1>4. CASE WriteDisk(c)
  <2> DEFINE b == t.buffer
             n == Span(b)
             r == [t.rate EXCEPT ![t.j % SAMPLESIZE] = n]
             u == [t EXCEPT !.buffer = WriteOut(b, n), !.data[Len(t.data)] = @ \o Piece(b, n),
                            !.rate = r, !.j = (@ % SAMPLESIZE) + 1]
             v == IF u.buffer.total_written > MAX_FILESIZE
                  THEN [Says(u, "size") EXCEPT !.pc = "unlink"]
                  ELSE IF Total(r) \div SAMPLESIZE < MIN_TRANSRATE
                  THEN [Says(u, "slow") EXCEPT !.pc = "retry"]
                  ELSE [u EXCEPT !.pc = "read"]
  <2>1. Becomes(c, v)
    BY <1>4, ZenonT(60) DEF WriteDisk
  <2>2. u.pc = t.pc /\ u = [u EXCEPT !.pc = t.pc] /\ t.pc = "write"
    BY ZenonT(60), <1>0, <1>4 DEF WriteDisk
  <2>3. v.pc # "reaped"
    <3> HIDE DEF u, r
    <3> QED BY <2>2
  <2> HIDE DEF v
  <2> QED BY <1>0, <2>1, <2>2, <2>3
<1>5. CASE CheckDigest(c)
  BY <1>0, <1>5 DEF CheckDigest
<1>6. CASE SendHave(c) \/ AwaitHave(c) \/ UnlinkLarge(c) \/ TryAgain(c)
  BY <1>0, <1>6 DEF SendHave, AwaitHave, UnlinkLarge, TryAgain, task_pop_peer
<1>7. CASE ReadRequest(c)
  BY <1>0, <1>7 DEF ReadRequest
<1>8. CASE SendPeer(c)
  <2>1. t.pc = "send"
    BY <1>8 DEF SendPeer
  <2>2. ASSUME NEW b, Becomes(c, [t EXCEPT !.pc = "fill", !.buffer = b])
        PROVE  job'[c].pc = "fill"
    BY <1>0, <2>2
  <2>3. CASE Becomes(c, [t EXCEPT !.pc = "fill"])
    BY <1>0, <2>1, <2>3
  <2>4. CASE Becomes(c, [Says(t, "write error") EXCEPT !.pc = "ended"])
    BY <1>0, <2>1, <2>4
  <2> QED BY <1>8, <2>1, <2>2, <2>3, <2>4 DEF SendPeer
<1>9. CASE FillBuffer(c)
  <2> DEFINE n == Smaller(Len(Unread(t)), Room(t.buffer))
             v == IF Drained(n, t.buffer) THEN [t EXCEPT !.pc = "ended"]
                  ELSE [t EXCEPT !.pc = "send", !.pos = @ + n,
                                 !.buffer = ReadInto(t.buffer, SubSeq(Unread(t), 1, n))]
  <2>1. Becomes(c, v) /\ t.pc = "fill"
    BY <1>9, Zenon DEF FillBuffer
  <2>2. v.pc # "reaped"
    <3> HIDE DEF n
    <3> QED BY <1>0
  <2> HIDE DEF v
  <2> QED BY <1>0, <2>1, <2>2
<1> QED BY <1>1, <1>2, <1>3, <1>4, <1>5, <1>6, <1>7, <1>8, <1>9 DEF Child, task_download, task_upload

---------------------------------------------------------------------------
(* Steps that neither fork nor wait *)

LEMMA Uncounted ==
    ASSUME IFork, Started' = Started, Unreaped' = Unreaped,
           UNCHANGED <<scene, pid_counter, fails, dropped, waiting>>,
           main' \in Mains, Len(main'.argv) <= Len(main.argv),
           UNCHANGED main \/ (main.pc # "wait" /\ main'.pc \notin {"wait", "serve"})
    PROVE  IsFiniteSet(dropped') /\ ICount' /\ IEnough'
<1>1. Reaped' = Reaped /\ Failed' = Failed
  BY DEF Reaped, Failed
<1>2. ICount'
  <2>1. Waiting' = Waiting \/ (Waiting = 0 /\ Waiting' = 0)
    BY DEF Waiting
  <2> QED BY <1>1, <2>1 DEF IFork, ICount
<1>3. Len(main.argv) \in Nat /\ Len(main'.argv) \in Nat /\ Cardinality(Started) \in Nat
      /\ Len(waiting) \in Nat /\ Cardinality(Children) \in Nat
  <2>1. main'.argv \in Seq(FileNames)
    BY DEF Mains
  <2> QED BY <2>1, Sizes DEF IFork
<1>4. IEnough'
  BY <1>3 DEF IFork, IEnough
<1> QED BY <1>2, <1>4 DEF IFork

LEMMA ChildCounts ==
    ASSUME IFork, NEW c \in Children, Child(c), UNCHANGED peerVars
    PROVE  IsFiniteSet(dropped') /\ ICount' /\ IEnough'
<1>1. TaskStep(c) /\ job \in [Children -> Tasks]
  BY ChildTask DEF IFork, IType, ITypes
<1>2. \A d \in Children : d # c => job'[d] = job[d]
  BY <1>1 DEF TaskStep
<1>3. job[c].pc # "reaped" /\ job'[c].pc # "reaped" /\ job[c].pc # "none" /\ job'[c].pc # "none"
  BY <1>1, NotReaped DEF TaskStep, IFork, IType
<1>4. Started' = Started /\ Unreaped' = Unreaped
  BY <1>2, <1>3 DEF Started, Unreaped
<1> QED BY <1>4, Uncounted, Sizes DEF peerVars, IFork

LEMMA QuietCounts ==
    ASSUME IFork, IType', UNCHANGED <<job, scene, pid_counter, fails, dropped, waiting>>,
           Len(main'.argv) <= Len(main.argv),
           UNCHANGED main \/ (main.pc # "wait" /\ main'.pc \notin {"wait", "serve"})
    PROVE  IsFiniteSet(dropped') /\ ICount' /\ IEnough'
<1>1. Started' = Started /\ Unreaped' = Unreaped
  BY DEF Started, Unreaped
<1> QED BY <1>1, Uncounted DEF IType, ITypes
---------------------------------------------------------------------------
(* The books *)

LEMMA BookWait ==
    ASSUME NEW p \in Int, NEW k \in Nat, NEW u \in Nat, NEW r \in Nat, NEW d \in Nat,
           Booked(1, p, k, u, r, d), NEW x \in {0, 1}, x = 1 \/ u = 0
    PROVE  Booked(0, p - 1, k, u - x, r + x, d)
  BY PeerAssumption DEF Booked

LEMMA BookFork ==
    ASSUME NEW p \in Int, NEW k \in Nat, NEW u \in Nat, NEW r \in Nat, NEW d \in Nat,
           Booked(0, p, k, u, r, d), p < MAXCONNPID
    PROVE  Booked(0, p + 1, k, u + 1, r, d)
  BY PeerAssumption DEF Booked

LEMMA BookFail ==
    ASSUME NEW p \in Int, NEW k \in Nat, NEW u \in Nat, NEW r \in Nat, NEW d \in Nat,
           Booked(0, p, k, u, r, d), NEW e \in {d, d + 1}
    PROVE  Booked(1, p, k + 1, u, r, e)
  BY PeerAssumption DEF Booked

LEMMA BookLimit ==
    ASSUME NEW p \in Int, NEW k \in Nat, NEW u \in Nat, NEW r \in Nat, NEW d \in Nat,
           Booked(0, p, k, u, r, d), p >= MAXCONNPID, NEW e \in {d, d + 1}
    PROVE  Booked(1, p, k, u, r, e)
  BY PeerAssumption DEF Booked

---------------------------------------------------------------------------
(* Forks and waits *)

LEMMA WaitCounts ==
    ASSUME IFork, IType', WaitForOne PROVE IsFiniteSet(dropped') /\ ICount' /\ IEnough'
<1>0. /\ Cardinality(Unreaped) \in Nat /\ Cardinality(Reaped) \in Nat
      /\ Cardinality(dropped) \in Nat /\ Failed \in Nat /\ pid_counter \in Int
      /\ IsFiniteSet(Unreaped) /\ IsFiniteSet(Reaped) /\ job \in [Children -> Tasks]
      /\ main \in Mains
  BY Sizes DEF IFork
<1>1. /\ main.pc = "wait" /\ pid_counter' = pid_counter - 1 /\ main'.pc \in {"accept", "want"}
      /\ main'.argv = main.argv /\ Failed' = Failed /\ dropped' = dropped /\ waiting' = waiting
  BY <1>0 DEF WaitForOne, MainAt, Failed, Mains
<1>2. Booked(1, pid_counter, Failed, Cardinality(Unreaped), Cardinality(Reaped), Cardinality(dropped))
      /\ Waiting' = 0
  BY <1>1 DEF IFork, ICount, Waiting
<1>3. ASSUME NEW x \in {0, 1}, Cardinality(Unreaped') = Cardinality(Unreaped) - x,
             Cardinality(Reaped') = Cardinality(Reaped) + x,
             x = 1 \/ Cardinality(Unreaped) = 0, Started' = Started
      PROVE  ICount' /\ IEnough'
  <2>1. Booked(0, pid_counter - 1, Failed, Cardinality(Unreaped) - x, Cardinality(Reaped) + x,
               Cardinality(dropped))
    BY <1>0, <1>2, <1>3, BookWait
  <2>2. ICount'
    BY <1>1, <1>2, <1>3, <2>1 DEF ICount
  <2> QED BY <1>1, <1>3, <2>2 DEF IFork, IEnough
<1>4. CASE Unreaped = {} /\ UNCHANGED job
  <2>1. Started' = Started /\ Unreaped' = Unreaped /\ Reaped' = Reaped /\ Cardinality(Unreaped) = 0
    BY <1>4, FS_EmptySet DEF Started, Unreaped, Reaped
  <2>2. Cardinality(Unreaped') = Cardinality(Unreaped) - 0
        /\ Cardinality(Reaped') = Cardinality(Reaped) + 0
    BY <1>0, <2>1
  <2> QED BY <1>1, <1>3, <2>1, <2>2 DEF IFork
<1>5. ASSUME NEW c \in Unreaped, job[c].pc = "ended", job' = [job EXCEPT ![c].pc = "reaped"]
      PROVE  IsFiniteSet(dropped') /\ ICount' /\ IEnough'
  <2>1. c \in Children /\ c \in Started /\ c \notin Reaped
    BY <1>5 DEF Unreaped, Started, Reaped
  <2> DEFINE v == [job[c] EXCEPT !.pc = "reaped"]
  <2>2. v.pc = "reaped" /\ job' = [job EXCEPT ![c] = v]
    <3>1. job[c] \in Tasks
      BY <1>0, <2>1
    <3> QED BY <1>5, <3>1 DEF Tasks
  <2> HIDE DEF v
  <2>3. \A e \in Children : job'[e] = IF e = c THEN v ELSE job[e]
    BY <1>0, <2>2
  <2>4. Started' = Started /\ Unreaped' = Unreaped \ {c}
    BY <2>1, <2>2, <2>3 DEF Started, Unreaped
  <2>5. Reaped' = Reaped \cup {c}
    BY <1>5, <2>1, <2>4 DEF Reaped, Unreaped
  <2>6. Cardinality(Unreaped \ {c}) = Cardinality(Unreaped) - 1
        /\ Cardinality(Reaped \cup {c}) = Cardinality(Reaped) + 1
    BY <1>0, <1>5, <2>1, FS_RemoveElement, FS_AddElement
  <2> QED BY <1>1, <1>3, <2>4, <2>5, <2>6 DEF IFork
<1> QED BY <1>4, <1>5 DEF WaitForOne

LEMMA AcceptCounts ==
    ASSUME IFork, IType', Accept PROVE IsFiniteSet(dropped') /\ ICount' /\ IEnough'
<1>1. /\ waiting # <<>> /\ waiting' = Tail(waiting) /\ main.pc = "accept" /\ main'.pc = "serve"
      /\ main'.argv = main.argv /\ waiting \in Seq(Conns) /\ Failed' = Failed
      /\ UNCHANGED <<pid_counter, dropped, job>>
  BY DEF Accept, MainAt, transferVars, IFork, IType, ITypes, Mains, Failed
<1>2. Started' = Started /\ Unreaped' = Unreaped /\ Reaped' = Reaped /\ Waiting' = Waiting
  BY <1>1 DEF Started, Unreaped, Reaped, Waiting
<1>3. Len(waiting') = Len(waiting) - 1
  BY <1>1
<1>4. Cardinality(Started) \in Nat /\ Len(main.argv) \in Nat /\ Len(waiting) \in Nat
  BY Sizes DEF IFork
<1>5. IEnough'
  BY <1>1, <1>2, <1>3, <1>4 DEF IFork, IEnough
<1> QED BY <1>1, <1>2, <1>5 DEF IFork, ICount

LEMMA ForkCounts ==
    ASSUME IFork, IType', ForkDownload \/ ForkUpload
    PROVE  IsFiniteSet(dropped') /\ ICount' /\ IEnough'
<1> DEFINE n == NextChild
           t == main.task
<1>0. /\ Cardinality(Unreaped) \in Nat /\ Cardinality(Reaped) \in Nat
      /\ Cardinality(dropped) \in Nat /\ Failed \in Nat /\ pid_counter \in Int
      /\ IsFiniteSet(Unreaped) /\ IsFiniteSet(Started) /\ IsFiniteSet(dropped)
      /\ job \in [Children -> Tasks] /\ main \in Mains /\ MainOK(main) /\ fails \in Nat
      /\ Cardinality(Started) \in Nat /\ Cardinality(Children) \in Nat
      /\ Len(main.argv) \in Nat /\ Len(waiting) \in Nat /\ MAXCONNPID \in Nat
      /\ scene.forkFails \in Nat
  BY Sizes, SceneIs DEF IFork, IType
<1>1. main.pc \in {"fork", "serve"} /\ waiting' = waiting /\ scene' = scene /\ Waiting = 0
  BY DEF ForkDownload, ForkUpload, MainAt, Waiting
<1>2. Booked(0, pid_counter, Failed, Cardinality(Unreaped), Cardinality(Reaped), Cardinality(dropped))
  BY <1>1 DEF IFork, ICount
<1>3. main.pc = "fork" => Len(main.argv) > 0 /\ Len(Tail(main.argv)) = Len(main.argv) - 1
  <2>1. main.pc = "fork" => main.argv # <<>>
    BY <1>0 DEF MainOK
  <2>2. main.argv \in Seq(FileNames)
    BY <1>0 DEF Mains
  <2> QED BY <2>1, <2>2
<1>4. t.pc \in {"connect", "request"}
  BY <1>0, <1>1 DEF MainOK
<1>5. CASE ~AtLimit /\ job' = [job EXCEPT ![n] = t] /\ pid_counter' = pid_counter + 1
           /\ UNCHANGED <<fails, dropped>> /\ main'.pc # "wait" /\ main'.pc # "serve"
           /\ main'.argv = IF main.pc = "fork" THEN Tail(main.argv) ELSE main.argv
  <2>1. n = Cardinality(Started) + 1 /\ n \notin Started
    BY StartedIs DEF NextChild, IFork
  <2>2. n \in Children
    <3>1. n <= Cardinality(Children) /\ n \in Nat \ {0}
      BY SMTT(30), <1>0, <1>1, <1>3, <2>1 DEF IFork, IEnough
    <3>2. Children = 1..Cardinality(Children)
      BY TransferAssumption
    <3> QED BY <1>0, <3>1, <3>2
  <2> HIDE DEF n, t
  <2>3. \A e \in Children : job'[e] = IF e = n THEN t ELSE job[e]
    BY <1>0, <1>5
  <2>4. Started' = Started \cup {n} /\ Unreaped' = Unreaped \cup {n} /\ n \notin Unreaped
    BY <1>4, <2>1, <2>2, <2>3 DEF Started, Unreaped
  <2>5. Reaped' = Reaped
    BY <2>1, <2>4 DEF Reaped
  <2>6. Cardinality(Started \cup {n}) = Cardinality(Started) + 1
        /\ Cardinality(Unreaped \cup {n}) = Cardinality(Unreaped) + 1
    BY <1>0, <2>1, <2>4, FS_AddElement
  <2>7. Booked(0, pid_counter + 1, Failed, Cardinality(Unreaped) + 1, Cardinality(Reaped),
               Cardinality(dropped))
    <3>1. pid_counter < MAXCONNPID
      BY <1>0, <1>5 DEF AtLimit
    <3> QED BY <1>0, <1>2, <3>1, BookFork
  <2>8. Failed' = Failed /\ Waiting' = 0
    BY <1>1, <1>5 DEF Failed, Waiting
  <2>9. ICount'
    BY <1>5, <2>4, <2>5, <2>6, <2>7, <2>8 DEF ICount
  <2>10. IEnough'
    BY SMTT(30), <1>0, <1>1, <1>3, <1>5, <2>4, <2>6 DEF IFork, IEnough
  <2> QED BY <1>0, <1>5, <2>9, <2>10
<1>6. dropped \cup ({t.conn} \cap Conns) \in {dropped, dropped \cup {t.conn}}
  OBVIOUS
<1>7. ASSUME dropped' = dropped \cup ({t.conn} \cap Conns)
      PROVE  IsFiniteSet(dropped')
             /\ Cardinality(dropped') \in {Cardinality(dropped), Cardinality(dropped) + 1}
  <2>1. CASE dropped' = dropped
    BY <1>0, <2>1
  <2>2. CASE dropped' = dropped \cup {t.conn}
    BY <1>0, <2>2, FS_AddElement
  <2> QED BY <1>6, <1>7, <2>1, <2>2
<1>8. CASE /\ ~AtLimit /\ fails > 0 /\ fails' = fails - 1 /\ main' = [main EXCEPT !.pc = "wait"]
           /\ dropped' = dropped \cup ({t.conn} \cap Conns) /\ UNCHANGED <<job, pid_counter>>
  <2>1. Started' = Started /\ Unreaped' = Unreaped /\ Reaped' = Reaped
    BY <1>8 DEF Started, Unreaped, Reaped
  <2>2. main'.pc = "wait" /\ main'.argv = main.argv /\ Waiting' = 1
    BY <1>0, <1>8 DEF Mains, Waiting
  <2>3. Failed' = Failed + 1
    BY <1>0, <1>1, <1>8 DEF Failed
  <2>4. Booked(1, pid_counter, Failed + 1, Cardinality(Unreaped), Cardinality(Reaped),
               Cardinality(dropped'))
    <3> HIDE DEF t
    <3> QED BY <1>0, <1>2, <1>7, <1>8, BookFail
  <2>5. ICount'
    BY <1>8, <2>1, <2>2, <2>3, <2>4 DEF ICount
  <2>6. IEnough'
    BY <1>0, <1>1, <2>1, <2>2 DEF IFork, IEnough
  <2> QED BY <1>7, <1>8, <2>5, <2>6
<1>9. CASE /\ AtLimit /\ main' = [main EXCEPT !.pc = "wait"]
           /\ dropped' = dropped \cup ({t.conn} \cap Conns) /\ UNCHANGED <<job, pid_counter, fails>>
  <2>1. Started' = Started /\ Unreaped' = Unreaped /\ Reaped' = Reaped
    BY <1>9 DEF Started, Unreaped, Reaped
  <2>2. main'.pc = "wait" /\ main'.argv = main.argv /\ Waiting' = 1
    BY <1>0, <1>9 DEF Mains, Waiting
  <2>3. Failed' = Failed /\ pid_counter >= MAXCONNPID
    BY <1>1, <1>9 DEF Failed, AtLimit
  <2>4. Booked(1, pid_counter, Failed, Cardinality(Unreaped), Cardinality(Reaped),
               Cardinality(dropped'))
    <3> HIDE DEF t
    <3> QED BY <1>0, <1>2, <1>7, <1>9, <2>3, BookLimit
  <2>5. ICount'
    BY <1>9, <2>1, <2>2, <2>3, <2>4 DEF ICount
  <2>6. IEnough'
    BY <1>0, <1>1, <2>1, <2>2 DEF IFork, IEnough
  <2> QED BY <1>7, <1>9, <2>5, <2>6
<1>10. ASSUME NEW m, Fork(m), m.pc # "wait", m.pc # "serve",
              m.argv = IF main.pc = "fork" THEN Tail(main.argv) ELSE main.argv
       PROVE  IsFiniteSet(dropped') /\ ICount' /\ IEnough'
  BY <1>5, <1>8, <1>9, <1>10 DEF Fork
<1>11. CASE ForkDownload
  <2>1. NextName(main).pc = "want" /\ NextName(main).argv = Tail(main.argv) /\ main.pc = "fork"
    BY <1>0, <1>11 DEF NextName, Mains, ForkDownload, MainAt
  <2> QED BY <1>10, <1>11, <2>1 DEF ForkDownload
<1>12. CASE ForkUpload
  <2> DEFINE m == [main EXCEPT !.pc = "accept"]
  <2>1. m.pc = "accept" /\ m.argv = main.argv /\ main.pc = "serve" /\ Fork(m)
    BY <1>0, <1>12 DEF Mains, ForkUpload, MainAt
  <2> HIDE DEF m
  <2> QED BY <1>10, <2>1
<1> QED BY <1>11, <1>12

---------------------------------------------------------------------------
(* Every behaviour *)

LEMMA InitCounts == ASSUME Init PROVE IFork
<1>1. IType
  BY InitTypes
<1>2. Started = {} /\ dropped = {} /\ pid_counter = 0 /\ fails = scene.forkFails
      /\ main.argv = scene.wanted /\ waiting = scene.conns /\ main.pc = "start" /\ scene \in Scenes
  <2>1. "none" \in Stages
    BY DEF Stages
  <2>2. task_new("none").pc = "none"
    BY <2>1, NewTask
  <2> QED BY <2>2 DEF Init, Started
<1>3. Unreaped = {} /\ Reaped = {}
  BY <1>2 DEF Unreaped, Reaped
<1>4. Len(scene.wanted) + Len(scene.conns) <= Cardinality(Children) /\ scene.forkFails \in Nat
  BY <1>2, SceneAssumption, Zenon
<1>5. Waiting = 0 /\ Failed = 0
  BY <1>2, <1>4 DEF Waiting, Failed
<1>6. ICount
  BY <1>2, <1>3, <1>5, FS_EmptySet, PeerAssumption DEF ICount, Booked
<1>7. IEnough
  <2>1. Len(main.argv) \in Nat /\ Len(waiting) \in Nat /\ Cardinality(Children) \in Nat
        /\ Cardinality(Started) = 0
    BY <1>1, <1>2, FS_EmptySet, Sizes
  <2>2. Len(main.argv) + Len(waiting) <= Cardinality(Children) /\ main.pc # "serve"
    BY <1>2, <1>4
  <2> QED BY <2>1, <2>2 DEF IEnough
<1> QED BY <1>1, <1>2, <1>6, <1>7, FS_EmptySet DEF IFork

LEMMA NextCounts == ASSUME IFork, [Next]_vars PROVE IFork'
<1>0. IType' /\ main \in Mains /\ MainOK(main) /\ Len(main.argv) \in Nat
  BY NextTypes, Sizes DEF IFork
<1>1. CASE StartTracker \/ Greeting \/ StartListen \/ RegisterAddress \/ AddressAnswer
           \/ RegisterFile \/ FileAnswer \/ StartServing
  <2>1. UNCHANGED <<job, scene, pid_counter, fails, dropped, waiting>>
    BY <1>1 DEF StartTracker, Greeting, StartListen, RegisterAddress, AddressAnswer, RegisterFile,
                FileAnswer, StartServing, Sends1, Takes, Unstirred
  <2>2. main.pc # "wait" /\ main'.pc \notin {"wait", "serve"} /\ main'.argv = main.argv
    BY <1>0, <1>1 DEF StartTracker, Greeting, StartListen, RegisterAddress, AddressAnswer,
                RegisterFile, FileAnswer, StartServing, Sends1, Takes, Mains, MainAt
  <2> QED BY <1>0, <2>1, <2>2, QuietCounts DEF IFork
<1>2. CASE Want \/ WantAnswer \/ AskSum \/ SumAnswer
  <2>1. UNCHANGED <<job, scene, pid_counter, fails, dropped, waiting>>
    BY <1>2 DEF Want, WantAnswer, AskSum, SumAnswer, Sends1, Takes, Unstirred
  <2>2. main.pc \in {"want", "want?", "sum", "sum?"}
    BY <1>2 DEF Want, WantAnswer, AskSum, SumAnswer, MainAt
  <2>3. main'.pc \notin {"wait", "serve"} /\ Len(main'.argv) <= Len(main.argv)
    <3>1. ASSUME NEW m, m.argv = main.argv PROVE Len(m.argv) <= Len(main.argv)
      BY <1>0, <3>1
    <3>2. CASE Want \/ AskSum
      <4>1. main'.pc \in {"want?", "sum?"} /\ main'.argv = main.argv
        BY <1>0, <3>2 DEF Want, AskSum, Sends1, Mains
      <4> QED BY <3>1, <4>1
    <3>3. CASE SumAnswer
      <4>1. PICK s : main' = [main EXCEPT !.pc = "fork", !.task.checksum = s]
        BY <3>3 DEF SumAnswer, Takes
      <4>2. main'.pc = "fork" /\ main'.argv = main.argv
        BY <1>0, <4>1 DEF Mains
      <4> QED BY <3>1, <4>2
    <3>4. CASE WantAnswer
      <4>0. main.argv \in Seq(FileNames) /\ main.argv # <<>>
        BY <1>0, <3>4 DEF WantAnswer, MainAt, MainOK, Mains
      <4>1. CASE main' = NextName(main)
        <5>1. main'.pc = "want" /\ main'.argv = Tail(main.argv)
          BY <1>0, <4>1 DEF NextName, Mains
        <5>2. Len(Tail(main.argv)) = Len(main.argv) - 1
          BY <4>0
        <5>3. Len(main'.argv) = Len(main.argv) - 1
          BY <5>1, <5>2
        <5> QED BY <1>0, <5>1, <5>3
      <4>2. CASE main' = [main EXCEPT !.pc = "dead"]
        <5>1. main'.pc = "dead" /\ main'.argv = main.argv
          BY <1>0, <4>2 DEF Mains
        <5> QED BY <3>1, <5>1
      <4>3. ASSUME NEW t, main' = [main EXCEPT !.pc = "sum", !.task = t]
            PROVE  main'.pc = "sum" /\ main'.argv = main.argv
        BY <1>0, <4>3 DEF Mains
      <4> QED BY <3>1, <3>4, <4>1, <4>2, <4>3 DEF WantAnswer, Takes
    <3> QED BY <1>2, <3>2, <3>3, <3>4
  <2> QED BY <1>0, <2>1, <2>2, <2>3, QuietCounts DEF IFork
<1>3. CASE ForkDownload \/ ForkUpload
  BY <1>0, <1>3, ForkCounts DEF IFork
<1>4. CASE WaitForOne
  BY <1>0, <1>4, WaitCounts DEF IFork
<1>5. CASE Accept
  BY <1>0, <1>5, AcceptCounts DEF IFork
<1>6. CASE AChild
  BY <1>0, <1>6, ChildCounts DEF AChild, IFork
<1>7. CASE Tracker
  BY <1>0, <1>7, QuietCounts DEF Tracker, IFork
<1>8. CASE UNCHANGED vars
  BY <1>0, <1>8, QuietCounts DEF vars, peerVars, transferVars, IFork
<1> QED BY <1>1, <1>2, <1>3, <1>4, <1>5, <1>6, <1>7, <1>8 DEF Next, Main, Resting

(* pid_counter is the number of children not yet waited for, less at most  *)
(* one for every fork that failed; there are never more than MAXCONNPID    *)
(* children and one for each such failure, and a connection is given up    *)
(* only for a child that is reaped or a fork that failed (main, the loops  *)
(* around fork and waitpid).                                               *)
THEOREM ChildrenCountedCorrect == Spec => []ChildrenCounted
<1>1. Spec => []IFork
  BY InitCounts, NextCounts, PTL DEF Spec
<1>2. ASSUME IFork PROVE ChildrenCounted
  <2>1. Booked(Waiting, pid_counter, Failed, Cardinality(Unreaped), Cardinality(Reaped),
               Cardinality(dropped))
    BY <1>2 DEF IFork, ICount
  <2> QED BY <2>1 DEF Booked, Waiting, Failed, Reaped, ChildrenCounted, MainAt
<1> QED BY <1>1, <1>2, PTL

---------------------------------------------------------------------------
(* The invariant of one download *)

Filled(files, n) == \E k \in 1..n : files[k] # <<>>

Newest(j) == j.data[Len(j.data)]

\* The bytes of the newest file and those that are on their way to it.
Body(j) == Newest(j) \o Held(j.buffer)

Getting(j) ==
    /\ j.data # <<>> /\ j.disk # <<>> /\ j.filename \in FileNames
    /\ j.buffer.head = Len(Newest(j))
    /\ Body(j) \in Seq(Digits \ {0})
    /\ \E earlier \in Seq(Digits) :
          /\ j.digest = earlier \o Body(j)
          /\ earlier # <<>> => Filled(j.data, Len(j.data) - 1)

Keeping(j) == j.pc \in {"have", "await", "ended", "reaped"} /\ j.disk # <<>>

FetchOK(j) ==
    /\ j.pc \in {"connect", "open"} => j.buffer.head = 0 /\ j.buffer.tail = 0
    /\ j.pc = "connect" => j.disk = <<>>
    /\ (j.pc \in {"connect", "open", "unlink", "retry"} /\ j.digest # <<>>)
          => Filled(j.data, Len(j.data))
    /\ (j.pc \in {"read", "write", "check"} \/ Keeping(j)) => Getting(j)
    /\ j.pc = "write" => j.buffer.head # j.buffer.tail
    /\ j.pc = "read" => (j.buffer.head = j.buffer.tail \/ Newest(j) # <<>>)
    /\ (j.pc = "check" \/ Keeping(j)) => j.buffer.head = j.buffer.tail
    /\ Keeping(j) => (Newest(j) # <<>> /\ j.digest = j.checksum)
    /\ j.pc \in {"have", "await"} => j.disk = <<j.filename, 0>>
    /\ "size" \in j.said => Len(j.digest) > MAX_FILESIZE
    /\ j.pc = "unlink" => "size" \in j.said

(* What every step of a download does to its task. *)
Follows(t, u) ==
    /\ u.conn = t.conn /\ u.filename = t.filename /\ u.checksum = t.checksum
    /\ t.said \subseteq u.said
    /\ \/ t.pc = "open" \/ u.disk = <<>>
       \/ u.disk = t.disk /\ Len(u.data) = Len(t.data) /\ u.pc # "open"

---------------------------------------------------------------------------
(* Bytes *)

LEMMA Bytes2 ==
    /\ \A f \in FileNames : Content[f] \in Seq(Digits \ {0})
    /\ \A p \in Peers, f \in FileNames : Serves[p][f].stream \in Seq(Digits \ {0})
<1>1. ASSUME NEW s \in Seq(Digits), s \in Seq(Nat \ {0}) PROVE s \in Seq(Digits \ {0})
  <2>1. \A i \in 1..Len(s) : s[i] \in Digits \ {0}
    BY <1>1
  <2>2. s = [i \in 1..Len(s) |-> s[i]]
    OBVIOUS
  <2> QED BY <2>1, <2>2, SeqDef
<1>2. \A f \in FileNames : Content[f] \in Seq(Nat \ {0})
  BY TransferAssumption
<1>3. \A p \in Peers, f \in FileNames : Serves[p][f].stream \in Seq(Nat \ {0})
  BY TransferAssumption
<1> QED BY <1>1, <1>2, <1>3, Bytes1

LEMMA RestBytes ==
    ASSUME NEW s \in Seq(Digits \ {0}), NEW m \in Nat, NEW n \in Nat,
           n <= Len(SubSeq(s, m + 1, Len(s)))
    PROVE  SubSeq(SubSeq(s, m + 1, Len(s)), 1, n) \in Seq(Digits \ {0})
<1> DEFINE r == SubSeq(s, m + 1, Len(s))
<1>1. r \in Seq(Digits \ {0})
  <2>1. CASE m + 1 <= Len(s)
    BY <2>1, SubSeqProperties
  <2>2. CASE m + 1 > Len(s)
    BY <2>2, SubSeqProperties
  <2> QED BY <2>1, <2>2
<1> HIDE DEF r
<1>2. SubSeq(r, 1, n) \in Seq(Digits \ {0})
  <2>1. CASE n = 0
    BY <1>1, <2>1, SubSeqProperties
  <2>2. CASE n > 0
    BY <1>1, <2>2, SubSeqProperties DEF r
  <2> QED BY <2>1, <2>2
<1> QED BY <1>2 DEF r

LEMMA EmptyJoin == ASSUME NEW S, NEW s \in Seq(S) PROVE s \o <<>> = s /\ <<>> \o s = s
  BY ConcatEmptySeq

LEMMA Joins ==
    ASSUME NEW x \in Seq(Digits), NEW y \in Seq(Digits), NEW z \in Seq(Digits)
    PROVE  (x \o y) \o z = x \o (y \o z)
  BY ConcatAssociative

LEMMA JoinLen ==
    ASSUME NEW x \in Seq(Digits), NEW y \in Seq(Digits)
    PROVE  /\ x \o y \in Seq(Digits) /\ Len(x \o y) = Len(x) + Len(y)
           /\ Len(x) \in Nat /\ Len(y) \in Nat
  BY ConcatProperties

(* The newest file takes the bytes p. *)
LEMMA Lengthens ==
    ASSUME NEW o \in Seq(Seq(Digits)), o # <<>>, NEW p \in Seq(Digits),
           NEW d, d = [o EXCEPT ![Len(o)] = @ \o p]
    PROVE  /\ d \in Seq(Seq(Digits)) /\ Len(d) = Len(o) /\ d # <<>>
           /\ d[Len(o)] = o[Len(o)] \o p /\ \A k \in 1..Len(o) - 1 : d[k] = o[k]
<1>1. DOMAIN o = 1..Len(o) /\ Len(o) \in Nat \ {0}
  BY EmptySeq
<1>2. DOMAIN d = 1..Len(o) /\ d = [k \in 1..Len(o) |-> d[k]]
      /\ \A k \in 1..Len(o) : d[k] = IF k = Len(o) THEN o[k] \o p ELSE o[k]
  BY <1>1
<1>3. \A k \in 1..Len(o) : d[k] \in Seq(Digits)
  <2>1. ASSUME NEW k \in 1..Len(o) PROVE d[k] \in Seq(Digits)
    <3>1. o[k] \in Seq(Digits)
      OBVIOUS
    <3>2. (o[k] \o p) \in Seq(Digits)
      BY <3>1, ConcatProperties
    <3> QED BY <1>2, <3>1, <3>2
  <2> QED BY <2>1
<1>4. d \in Seq(Seq(Digits)) /\ Len(d) = Len(o)
  BY <1>1, <1>2, <1>3
<1>5. d[Len(o)] = o[Len(o)] \o p /\ \A k \in 1..Len(o) - 1 : d[k] = o[k]
  <2>1. \A n \in Nat \ {0} : n \in 1..n /\ \A k \in 1..n - 1 : k \in 1..n /\ k # n
    OBVIOUS
  <2>2. Len(o) \in 1..Len(o) /\ \A k \in 1..Len(o) - 1 : k \in 1..Len(o) /\ k # Len(o)
    BY <1>1, <2>1, Zenon
  <2> QED BY <1>2, <2>2
<1>6. d # <<>>
  BY <1>1, <1>4
<1> QED BY <1>4, <1>5, <1>6

LEMMA NewestType ==
    ASSUME NEW j \in Tasks, j.data # <<>>
    PROVE  /\ Newest(j) \in Seq(Digits) /\ Held(j.buffer) \in Seq(Digits)
           /\ Body(j) \in Seq(Digits) /\ Len(j.data) \in Nat \ {0}
           /\ j.data \in Seq(Seq(Digits)) /\ j.buffer \in Buffers(Digits) /\ j.digest \in Seq(Digits)
           /\ Len(Held(j.buffer)) = j.buffer.tail - j.buffer.head
           /\ j.buffer.head \in Nat /\ j.buffer.tail \in Nat
<1>1. j.data \in Seq(Seq(Digits)) /\ j.buffer \in Buffers(Digits) /\ j.digest \in Seq(Digits)
  BY DEF Tasks
<1>2. Len(j.data) \in Nat \ {0} /\ Newest(j) \in Seq(Digits)
  <2>1. Len(j.data) \in Nat \ {0}
    BY <1>1, EmptySeq
  <2> QED BY <1>1, <2>1 DEF Newest
<1>3. Held(j.buffer) \in Seq(Digits) /\ Len(Held(j.buffer)) = j.buffer.tail - j.buffer.head
  BY <1>1, HeldType
<1>4. Body(j) \in Seq(Digits)
  BY <1>2, <1>3, ConcatProperties DEF Body
<1> QED BY <1>1, <1>2, <1>3, <1>4, Counts

---------------------------------------------------------------------------
(* Steps that change nothing but the stage and the complaints *)

SameFetch(t, u) ==
    /\ u.buffer = t.buffer /\ u.disk = t.disk /\ u.data = t.data /\ u.digest = t.digest
    /\ u.filename = t.filename /\ u.checksum = t.checksum /\ u.conn = t.conn

LEMMA SameBody ==
    ASSUME NEW t, NEW u, SameFetch(t, u)
    PROVE  Newest(u) = Newest(t) /\ Body(u) = Body(t) /\ Getting(u) = Getting(t)
<1>1. Newest(u) = Newest(t) /\ Body(u) = Body(t)
  BY DEF SameFetch, Newest, Body
<1> QED BY <1>1, Zenon DEF SameFetch, Getting

LEMMA PcFetch ==
    ASSUME NEW t \in Tasks, NEW p \in Stages
    PROVE  LET u == [t EXCEPT !.pc = p] IN SameFetch(t, u) /\ u.pc = p /\ u.said = t.said
  BY DEF Tasks, SameFetch

LEMMA SaysFetch ==
    ASSUME NEW t \in Tasks, NEW w \in Complaints, NEW p \in Stages
    PROVE  LET u == [Says(t, w) EXCEPT !.pc = p] IN
           SameFetch(t, u) /\ u.pc = p /\ u.said = t.said \cup {w}
<1>1. t.said \cup {w} \in SUBSET Complaints
  BY DEF Tasks
<1> QED BY <1>1 DEF Tasks, SameFetch, Says

LEMMA Likewise ==
    ASSUME NEW t, NEW u, SameFetch(t, u), t.said \subseteq u.said, u.pc # "open" \/ u.disk = <<>>
    PROVE  Follows(t, u)
  BY DEF SameFetch, Follows

(* The stages that a download goes through without a new file. *)
Moves(t, p) ==
    \/ t.pc = "connect" /\ p \in {"open", "retry", "ended"}
    \/ t.pc = "read" /\ p = "write" /\ t.buffer.head # t.buffer.tail
    \/ t.pc = "read" /\ p = "check" /\ t.buffer.head = t.buffer.tail
    \/ t.pc \in {"read", "check"} /\ p = "retry"
    \/ t.pc = "check" /\ p \in {"have", "ended"} /\ t.digest = t.checksum
       /\ t.buffer.head # 0 /\ (p = "have" => t.disk = <<t.filename, 0>>)
    \/ t.pc = "have" /\ p = "await"
    \/ t.pc = "await" /\ p = "ended"
    \/ t.pc = "unlink" /\ p = "retry"
    \/ t.pc = "ended" /\ p = "reaped"

LEMMA StageFetch ==
    ASSUME NEW t \in Tasks, NEW u, FetchOK(t), SameFetch(t, u), t.said \subseteq u.said,
           "size" \in u.said => "size" \in t.said,
           Moves(t, u.pc)
    PROVE  FetchOK(u)
<1>1. Newest(u) = Newest(t) /\ Body(u) = Body(t) /\ Getting(u) = Getting(t)
  BY SameBody
<1>2. ASSUME t.pc \in {"read", "check"}
      PROVE  /\ t.digest # <<>> => Filled(t.data, Len(t.data))
             /\ t.buffer.head # 0 => Newest(t) # <<>>
  <2>1. Getting(t)
    BY <1>2 DEF FetchOK
  <2>2. t.data # <<>> /\ t.buffer.head = Len(Newest(t))
    BY <2>1 DEF Getting
  <2>3. /\ Newest(t) \in Seq(Digits) /\ Len(t.data) \in Nat \ {0} /\ t.buffer \in Buffers(Digits)
        /\ Held(t.buffer) \in Seq(Digits) /\ Len(Held(t.buffer)) = t.buffer.tail - t.buffer.head
    BY <2>2, NewestType
  <2>4. Newest(t) # <<>> => Filled(t.data, Len(t.data))
    <3>1. Len(t.data) \in 1..Len(t.data)
      BY <2>3
    <3> QED BY <3>1 DEF Filled, Newest
  <2>5. Newest(t) = <<>> => Body(t) = <<>>
    <3>1. Newest(t) = <<>> => t.buffer.head = t.buffer.tail
      BY <1>2 DEF FetchOK
    <3>2. Newest(t) = <<>> => Held(t.buffer) = <<>>
      BY <2>3, <3>1, Counts, EmptySeq
    <3> QED BY <2>3, <3>2, EmptyJoin DEF Body
  <2>6. Filled(t.data, Len(t.data) - 1) => Filled(t.data, Len(t.data))
    BY <2>3 DEF Filled
  <2>7. PICK earlier \in Seq(Digits) : /\ t.digest = earlier \o Body(t)
                                       /\ earlier # <<>> => Filled(t.data, Len(t.data) - 1)
    BY <2>1 DEF Getting
  <2>8. Newest(t) = <<>> /\ earlier = <<>> => t.digest = <<>>
    BY <2>5, <2>7, EmptyJoin, EmptySeq
  <2>9. t.buffer.head # 0 => Newest(t) # <<>>
    BY <2>2, EmptySeq
  <2> QED BY <2>4, <2>6, <2>7, <2>8, <2>9
<1>3. /\ u.buffer = t.buffer /\ u.disk = t.disk /\ u.data = t.data /\ u.digest = t.digest
      /\ u.filename = t.filename /\ u.checksum = t.checksum
  BY DEF SameFetch
<1> QED BY <1>1, <1>2, <1>3 DEF FetchOK, Keeping, Moves

---------------------------------------------------------------------------
(* The steps of a download *)

LEMMA Becoming ==
    ASSUME ITypes, NEW c \in Children, NEW u, Becomes(c, u)
    PROVE  job[c] \in Tasks /\ job'[c] = u
  BY DEF ITypes, Becomes

(* The child goes on to stage p, perhaps with a complaint. *)
LEMMA MovesFetch ==
    ASSUME ITypes, NEW c \in Children, FetchOK(job[c]), NEW u, Moves(job[c], u.pc), SameFetch(job[c], u),
           job[c].said \subseteq u.said, "size" \in u.said => "size" \in job[c].said
    PROVE  FetchOK(u) /\ Follows(job[c], u)
<1> DEFINE t == job[c]
<1>1. t \in Tasks
  BY DEF ITypes
<1>2. u.pc # "open" \/ u.disk = <<>>
  BY DEF FetchOK, SameFetch, Moves
<1> HIDE DEF t
<1>3. FetchOK(u)
  BY <1>1, StageFetch DEF t
<1>4. Follows(t, u)
  BY <1>2, Likewise DEF t
<1> QED BY <1>3, <1>4 DEF t

LEMMA PcStep ==
    ASSUME ITypes, NEW c \in Children, FetchOK(job[c]), NEW p \in Stages, Moves(job[c], p)
    PROVE  LET u == [job[c] EXCEPT !.pc = p] IN
           FetchOK(u) /\ Follows(job[c], u) /\ SameFetch(job[c], u) /\ u.pc = p
<1> DEFINE u == [job[c] EXCEPT !.pc = p]
<1>1. SameFetch(job[c], u) /\ u.pc = p /\ u.said = job[c].said
  BY PcFetch DEF ITypes
<1> HIDE DEF u
<1>2. FetchOK(u) /\ Follows(job[c], u)
  BY <1>1, MovesFetch
<1> QED BY <1>1, <1>2 DEF u

LEMMA SaysStep ==
    ASSUME ITypes, NEW c \in Children, FetchOK(job[c]), NEW p \in Stages, Moves(job[c], p),
           NEW w \in Complaints, w # "size"
    PROVE  LET u == [Says(job[c], w) EXCEPT !.pc = p] IN
           FetchOK(u) /\ Follows(job[c], u) /\ SameFetch(job[c], u) /\ u.pc = p
<1> DEFINE u == [Says(job[c], w) EXCEPT !.pc = p]
<1>1. SameFetch(job[c], u) /\ u.pc = p /\ u.said = job[c].said \cup {w}
  BY SaysFetch DEF ITypes
<1> HIDE DEF u
<1>2. FetchOK(u) /\ Follows(job[c], u)
  BY <1>1, MovesFetch
<1> QED BY <1>1, <1>2 DEF u

LEMMA ConnectFetch ==
    ASSUME ITypes, NEW c \in Children, FetchOK(job[c]), Connect(c)
    PROVE  FetchOK(job'[c]) /\ Follows(job[c], job'[c])
<1> DEFINE t == job[c]
<1>0. t \in Tasks /\ t.pc = "connect"
  BY DEF ITypes, Connect, At
<1>1. CASE Becomes(c, [Says(t, "no peers") EXCEPT !.pc = "ended"])
  <2>1. "no peers" \in Complaints /\ "ended" \in Stages /\ Moves(t, "ended")
    BY <1>0 DEF Stages, Complaints, Moves
  <2> DEFINE u == [Says(t, "no peers") EXCEPT !.pc = "ended"]
  <2>2. FetchOK(u) /\ Follows(t, u)
    BY <2>1, SaysStep
  <2>3. job'[c] = u
    BY <1>1, Becoming
  <2> HIDE DEF u
  <2> QED BY <2>2, <2>3
<1>2. CASE Becomes(c, [t EXCEPT !.pc = "retry"])
  <2>1. "retry" \in Stages /\ job'[c] = [t EXCEPT !.pc = "retry"] /\ Moves(t, "retry")
    BY <1>0, <1>2, Becoming DEF Stages, Moves
  <2> QED BY <2>1, PcStep
<1>3. CASE Becomes(c, [t EXCEPT !.pc = "open", !.tries = 0, !.pos = 0, !.rate = NewSamples, !.j = 0])
  <2> DEFINE v == [t EXCEPT !.pc = "open"]
             u == [t EXCEPT !.pc = "open", !.tries = 0, !.pos = 0, !.rate = NewSamples, !.j = 0]
  <2>1. FetchOK(v) /\ Follows(t, v) /\ SameFetch(t, v) /\ v.pc = "open"
    <3>1. "open" \in Stages /\ Moves(t, "open")
      BY <1>0 DEF Stages, Moves
    <3> QED BY <3>1, PcStep
  <2>2. SameFetch(v, u) /\ u.pc = v.pc /\ u.said = v.said
    <3> HIDE DEF t
    <3> QED BY <1>0 DEF SameFetch, Tasks
  <2>3. job'[c] = u
    BY <1>3, Becoming
  <2> HIDE DEF u, v, t
  <2>4. Newest(u) = Newest(v) /\ Body(u) = Body(v) /\ Getting(u) = Getting(v)
    BY <2>2, SameBody
  <2>5. FetchOK(u)
    BY <2>1, <2>2, <2>4 DEF FetchOK, Keeping, SameFetch
  <2>6. Follows(t, u)
    BY <2>1, <2>2 DEF Follows, SameFetch
  <2> QED BY <2>3, <2>5, <2>6 DEF t
<1> QED BY <1>1, <1>2, <1>3 DEF Connect

LEMMA OpenFetch ==
    ASSUME ITypes, IStages, NEW c \in Children, FetchOK(job[c]), OpenDisk(c)
    PROVE  FetchOK(job'[c]) /\ Follows(job[c], job'[c])
<1> DEFINE t == job[c]
           i == t.tries
           n == <<t.filename, i>>
<1>0. t \in Tasks /\ t.pc = "open" /\ t.filename \in FileNames /\ t.buffer.head = 0 /\ t.buffer.tail = 0
      /\ t.data \in Seq(Seq(Digits)) /\ t.buffer \in Buffers(Digits) /\ t.digest \in Seq(Digits)
      /\ (t.digest # <<>> => Filled(t.data, Len(t.data)))
      /\ ("size" \in t.said => Len(t.digest) > MAX_FILESIZE)
  BY DEF ITypes, IStages, OpenDisk, At, StageOK, Downloading, Talking, FetchOK, Tasks
<1>1. CASE Becomes(c, [t EXCEPT !.tries = i + 1, !.disk = n])
  <2> DEFINE u == [t EXCEPT !.tries = i + 1, !.disk = n]
  <2>1. /\ u.pc = t.pc /\ u.buffer = t.buffer /\ u.data = t.data /\ u.digest = t.digest
        /\ u.said = t.said /\ u.filename = t.filename /\ u.checksum = t.checksum /\ u.conn = t.conn
    <3> HIDE DEF t, i, n
    <3> QED BY <1>0 DEF Tasks
  <2>2. job'[c] = u
    BY <1>1, Becoming
  <2> HIDE DEF u
  <2>3. FetchOK(u)
    <3> HIDE DEF t
    <3> QED BY <1>0, <2>1 DEF FetchOK, Keeping
  <2>4. Follows(t, u)
    BY <1>0, <2>1 DEF Follows
  <2> QED BY <2>2, <2>3, <2>4
<1>2. CASE Becomes(c, [t EXCEPT !.pc = "read", !.disk = n, !.data = Append(@, <<>>)])
  <2> DEFINE u == [t EXCEPT !.pc = "read", !.disk = n, !.data = Append(t.data, <<>>)]
  <2>1. /\ u.pc = "read" /\ u.buffer = t.buffer /\ u.data = Append(t.data, <<>>) /\ u.disk = n
        /\ u.digest = t.digest
        /\ u.said = t.said /\ u.filename = t.filename /\ u.checksum = t.checksum /\ u.conn = t.conn
    <3> HIDE DEF t, i, n
    <3> QED BY <1>0 DEF Tasks
  <2>2. job'[c] = u /\ n # <<>>
    BY <1>2, Becoming
  <2> HIDE DEF u, t, n
  <2>3. /\ Len(u.data) = Len(t.data) + 1 /\ Len(t.data) \in Nat /\ u.data # <<>>
        /\ u.data[Len(u.data)] = <<>> /\ \A k \in 1..Len(t.data) : u.data[k] = t.data[k]
    <3> DEFINE o == t.data
               w == u.data
    <3>1. <<>> \in Seq(Digits) /\ o \in Seq(Seq(Digits)) /\ w = Append(o, <<>>)
      BY <1>0, <2>1, EmptySeq
    <3> HIDE DEF o, w
    <3>2. /\ Len(w) = Len(o) + 1 /\ Len(o) \in Nat /\ w # <<>>
          /\ w[Len(w)] = <<>> /\ \A k \in 1..Len(o) : w[k] = o[k]
      BY <3>1, AppendProperties
    <3> QED BY <3>2 DEF o, w
  <2>4. Newest(u) = <<>> /\ Held(u.buffer) = <<>> /\ Body(u) = <<>>
    <3>1. Held(t.buffer) \in Seq(Digits) /\ Len(Held(t.buffer)) = 0
      BY <1>0, HeldType
    <3>2. Held(u.buffer) = <<>>
      BY <2>1, <3>1, EmptySeq
    <3>3. Newest(u) = <<>>
      BY <2>3 DEF Newest
    <3> QED BY <3>2, <3>3, EmptyJoin, EmptySeq DEF Body
  <2>5. Filled(t.data, Len(t.data)) => Filled(u.data, Len(u.data) - 1)
    BY <2>3 DEF Filled
  <2>6. Getting(u)
    <3>1. u.digest = t.digest \o Body(u)
      BY <1>0, <2>1, <2>4, EmptyJoin
    <3>2. Body(u) \in Seq(Digits \ {0}) /\ Len(Newest(u)) = 0
      BY <2>4, EmptySeq
    <3> QED BY <1>0, <2>1, <2>2, <2>3, <2>5, <3>1, <3>2 DEF Getting
  <2>7. FetchOK(u)
    BY <1>0, <2>1, <2>4, <2>6 DEF FetchOK, Keeping
  <2>8. Follows(t, u)
    BY <1>0, <2>1 DEF Follows
  <2> QED BY <2>2, <2>7, <2>8 DEF t
<1>3. CASE Becomes(c, [Says(t, "names") EXCEPT !.pc = "ended", !.disk = <<>>])
  <2> DEFINE v == [Says(t, "names") EXCEPT !.pc = "ended"]
             u == [v EXCEPT !.disk = <<>>]
  <2>0. "names" \in Complaints /\ "ended" \in Stages
    BY DEF Stages, Complaints
  <2>1. SameFetch(t, v) /\ v.pc = "ended" /\ v.said = t.said \cup {"names"} /\ v \in Tasks
    BY <1>0, <2>0, SaysFetch, SaysTask
  <2>2. /\ u.pc = "ended" /\ u.disk = <<>> /\ u.digest = v.digest
        /\ u.said = v.said /\ u.filename = v.filename /\ u.checksum = v.checksum /\ u.conn = v.conn
    <3> HIDE DEF v
    <3> QED BY <2>1 DEF Tasks
  <2>3. job'[c] = u
    BY <1>3, Becoming
  <2> HIDE DEF u, v, t
  <2>4. FetchOK(u)
    BY <1>0, <2>1, <2>2 DEF FetchOK, Keeping, SameFetch
  <2>5. Follows(t, u)
    BY <2>1, <2>2 DEF Follows, SameFetch
  <2> QED BY <2>3, <2>4, <2>5 DEF t
<1> QED BY <1>1, <1>2, <1>3 DEF OpenDisk

LEMMA CheckFetch ==
    ASSUME ITypes, NEW c \in Children, FetchOK(job[c]), CheckDigest(c)
    PROVE  FetchOK(job'[c]) /\ Follows(job[c], job'[c])
<1> DEFINE t == job[c]
<1>0. t \in Tasks /\ t.pc = "check" /\ t.buffer.total_written = t.buffer.head
  BY DEF ITypes, CheckDigest, At, Tasks, Buffers
<1>1. CASE Becomes(c, [Says(t, "empty") EXCEPT !.pc = "retry"])
  <2>1. "empty" \in Complaints /\ "retry" \in Stages /\ Moves(t, "retry")
    BY <1>0 DEF Stages, Complaints, Moves
  <2> DEFINE u == [Says(t, "empty") EXCEPT !.pc = "retry"]
  <2>2. FetchOK(u) /\ Follows(t, u)
    BY <2>1, SaysStep
  <2>3. job'[c] = u
    BY <1>1, Becoming
  <2> HIDE DEF u
  <2> QED BY <2>2, <2>3
<1>2. CASE t.buffer.total_written # 0
           /\ Becomes(c, [Says(t, "digest") EXCEPT !.pc = "retry", !.digest = Finished(@)])
  <2> DEFINE v == [Says(t, "digest") EXCEPT !.pc = "retry"]
             u == [v EXCEPT !.digest = Finished(@)]
  <2>0. "digest" \in Complaints /\ "retry" \in Stages /\ Moves(t, "retry")
    BY <1>0 DEF Stages, Complaints, Moves
  <2>1. v \in Tasks /\ v.pc = "retry" /\ FetchOK(v) /\ Follows(t, v) /\ SameFetch(t, v)
    BY <1>0, <2>0, SaysStep, SaysTask
  <2>2. /\ u.pc = v.pc /\ u.disk = v.disk /\ u.digest = Finished(v.digest) /\ u.data = v.data
        /\ u.said = v.said /\ u.filename = v.filename /\ u.checksum = v.checksum /\ u.conn = v.conn
    <3> HIDE DEF v
    <3> QED BY <2>1 DEF Tasks
  <2>3. job'[c] = u
    BY <1>2, Becoming
  <2>4. Filled(t.data, Len(t.data))
    <3>1. Getting(t)
      BY <1>0 DEF FetchOK
    <3>2. t.data # <<>> /\ t.buffer.head = Len(Newest(t)) /\ t.buffer.head # 0
      BY <1>0, <1>2, <3>1 DEF Getting
    <3>3. Len(t.data) \in 1..Len(t.data)
      BY <1>0, <3>2, NewestType
    <3>4. Newest(t) # <<>>
      BY <3>2, EmptySeq
    <3> QED BY <3>3, <3>4 DEF Filled, Newest
  <2>5. Len(v.digest) \in Nat /\ Len(Finished(v.digest)) = Len(v.digest) + 1
    <3>1. v.digest \in Seq(Digits) /\ 0 \in Digits
      BY <2>1, Bytes1 DEF Tasks
    <3> HIDE DEF v
    <3> QED BY <3>1, AppendProperties DEF Finished
  <2> HIDE DEF u, v, t
  <2>6. FetchOK(u)
    BY <2>1, <2>2, <2>4, <2>5, TransferAssumption DEF FetchOK, Keeping, SameFetch
  <2>7. Follows(t, u)
    BY <2>1, <2>2 DEF Follows, SameFetch
  <2> QED BY <2>3, <2>6, <2>7 DEF t
<1>3. CASE t.buffer.total_written # 0 /\ t.digest = t.checksum
           /\ Becomes(c, [t EXCEPT !.pc = IF t.disk = <<t.filename, 0>> THEN "have" ELSE "ended"])
  <2> DEFINE p == IF t.disk = <<t.filename, 0>> THEN "have" ELSE "ended"
  <2>1. p \in Stages /\ job'[c] = [t EXCEPT !.pc = p]
    BY <1>3, Becoming DEF Stages
  <2>2. p \in {"have", "ended"} /\ (p = "have" => t.disk = <<t.filename, 0>>)
    OBVIOUS
  <2> HIDE DEF p
  <2>3. Moves(t, p)
    BY <1>0, <1>3, <2>2 DEF Moves
  <2> QED BY <2>1, <2>3, PcStep
<1> QED BY <1>1, <1>2, <1>3, Zenon DEF CheckDigest

LEMMA HaveFetch ==
    ASSUME ITypes, NEW c \in Children, FetchOK(job[c]), SendHave(c) \/ AwaitHave(c) \/ UnlinkLarge(c)
    PROVE  FetchOK(job'[c]) /\ Follows(job[c], job'[c])
<1>1. PICK p \in {"await", "ended", "retry"} :
         /\ Becomes(c, [job[c] EXCEPT !.pc = p])
         /\ \/ p = "await" /\ job[c].pc = "have"
            \/ p = "ended" /\ job[c].pc = "await"
            \/ p = "retry" /\ job[c].pc = "unlink"
  BY DEF SendHave, AwaitHave, UnlinkLarge, At
<1>2. p \in Stages /\ job'[c] = [job[c] EXCEPT !.pc = p] /\ Moves(job[c], p)
  BY <1>1, Becoming DEF Stages, Moves
<1> QED BY <1>2, PcStep

LEMMA RetryFetch ==
    ASSUME ITypes, NEW c \in Children, FetchOK(job[c]), TryAgain(c)
    PROVE  FetchOK(job'[c]) /\ Follows(job[c], job'[c])
<1> DEFINE t == job[c]
           u == [task_pop_peer(t) EXCEPT !.pc = "connect"]
<1>0. t \in Tasks /\ t.pc = "retry" /\ t.buffer \in Buffers(Digits)
  BY DEF ITypes, TryAgain, At, Tasks
<1>1. /\ u.pc = "connect" /\ u.disk = <<>> /\ u.digest = t.digest /\ u.data = t.data
      /\ u.buffer = Emptied(t.buffer)
      /\ u.said = t.said /\ u.filename = t.filename /\ u.checksum = t.checksum /\ u.conn = t.conn
  <2> HIDE DEF t
  <2> QED BY <1>0 DEF Tasks, task_pop_peer
<1>2. Emptied(t.buffer).head = 0 /\ Emptied(t.buffer).tail = 0
  <2> DEFINE b == t.buffer
  <2>1. b \in [head : Nat, tail : Nat, total_written : Nat, buf : [0..TASKBUFSIZ - 1 -> Digits]]
    BY <1>0 DEF Buffers
  <2> HIDE DEF b
  <2> QED BY <2>1 DEF Emptied, b
<1>3. job'[c] = u
  BY Becoming DEF TryAgain
<1> HIDE DEF u, t
<1>4. FetchOK(u)
  BY <1>0, <1>1, <1>2 DEF FetchOK, Keeping, t
<1>5. Follows(t, u)
  BY <1>1 DEF Follows
<1> QED BY <1>3, <1>4, <1>5 DEF t

(* The buffer and the digest get the same bytes. *)
LEMMA ReadFetches ==
    ASSUME NEW t \in Tasks, NEW u, Getting(t), NEW s \in Seq(Digits \ {0}), Len(s) <= Room(t.buffer),
           u.buffer = ReadInto(t.buffer, s), u.digest = t.digest \o s,
           u.disk = t.disk, u.data = t.data, u.filename = t.filename
    PROVE  /\ Getting(u) /\ Newest(u) = Newest(t) /\ Len(u.digest) = Len(t.digest) + Len(s)
           /\ u.buffer.head = t.buffer.head /\ u.buffer.tail = t.buffer.tail + Len(s)
<1> DEFINE b == t.buffer
           h == Held(b)
           x == Newest(t)
           r == ReadInto(b, s)
<1>0. t.data # <<>>
  BY DEF Getting
<1>1. x \in Seq(Digits) /\ h \in Seq(Digits) /\ b \in Buffers(Digits) /\ t.digest \in Seq(Digits)
      /\ Body(t) \in Seq(Digits)
  BY <1>0, NewestType
<1>2. s \in Seq(Digits)
  <2>1. \A i \in 1..Len(s) : s[i] \in Digits
    OBVIOUS
  <2> QED BY <2>1
<1>3. Held(r) = h \o s
  BY <1>1, <1>2, ReadAppends
<1>4. r.head = b.head /\ r.tail = b.tail + Len(s)
  <2>1. b \in [head : Nat, tail : Nat, total_written : Nat, buf : [0..TASKBUFSIZ - 1 -> Digits]]
    BY <1>1 DEF Buffers
  <2> HIDE DEF b
  <2> QED BY <2>1 DEF ReadInto
<1>5. Newest(u) = x
  BY DEF Newest
<1>6. Body(u) = Body(t) \o s
  <2>1. Body(u) = x \o Held(r)
    BY <1>5 DEF Body
  <2>2. Body(t) = x \o h
    BY DEF Body
  <2> HIDE DEF x, h, r
  <2> QED BY SMTT(30), <1>1, <1>2, <1>3, <2>1, <2>2, ConcatAssociative
<1>7. PICK earlier \in Seq(Digits) : /\ t.digest = earlier \o Body(t)
                                     /\ earlier # <<>> => Filled(t.data, Len(t.data) - 1)
  BY DEF Getting
<1>8. u.digest = earlier \o Body(u)
  <2>1. u.digest = (earlier \o Body(t)) \o s
    BY <1>7, Zenon
  <2>2. (earlier \o Body(t)) \o s = earlier \o (Body(t) \o s)
    BY SMTT(30), <1>1, <1>2, ConcatAssociative
  <2> QED BY <1>6, <2>1, <2>2, Zenon
<1>9. Body(u) \in Seq(Digits \ {0})
  <2>1. Body(t) \in Seq(Digits \ {0})
    BY DEF Getting
  <2> QED BY <1>6, <2>1, ConcatProperties
<1>10. Len(u.digest) = Len(t.digest) + Len(s)
  BY <1>1, <1>2, ConcatProperties
<1> HIDE DEF x, h, r, b
<1>11. u.buffer = r /\ b.head = Len(x)
  BY DEF r, b, x, Getting
<1>12. Getting(u)
  BY <1>4, <1>5, <1>7, <1>8, <1>9, <1>11 DEF Getting
<1> QED BY <1>4, <1>5, <1>10, <1>11, <1>12 DEF x, b

LEMMA ReadFetch ==
    ASSUME ITypes, IStages, NEW c \in Children, FetchOK(job[c]), ReadPeer(c)
    PROVE  FetchOK(job'[c]) /\ Follows(job[c], job'[c])
<1> DEFINE t == job[c]
           left == Rest(t)
<1>0. t \in Tasks /\ t.pc = "read" /\ Getting(t) /\ t.filename \in FileNames /\ t.peers # <<>>
      /\ t.peers \in Seq(Peers) /\ t.pos \in Nat
  BY DEF ITypes, IStages, ReadPeer, At, StageOK, Downloading, Talking, Tasks, FetchOK
<1>1. ASSUME NEW n \in 1..Len(left) PROVE SubSeq(left, 1, n) \in Seq(Digits \ {0}) /\ Len(SubSeq(left, 1, n)) = n
  <2>1. Peer(t) \in Peers
    BY <1>0 DEF Peer
  <2>2. Sends(t).stream \in Seq(Digits \ {0}) /\ Sends(t).stream \in Seq(Digits)
    BY <1>0, <2>1, Bytes1, Bytes2 DEF Sends
  <2>3. left \in Seq(Digits)
    BY <1>0, <2>2, RestType DEF Rest
  <2>4. n \in Nat /\ n \in 0..Len(left)
    BY <2>3
  <2>5. Len(SubSeq(left, 1, n)) = n
    BY <2>3, <2>4, FrontType
  <2>6. SubSeq(left, 1, n) \in Seq(Digits \ {0})
    <3>1. n <= Len(left)
      BY <2>3
    <3> QED BY <1>0, <2>2, <2>4, <3>1, RestBytes DEF Rest
  <2> QED BY <2>5, <2>6
<1>2. ASSUME NEW n \in 1..Len(left), n <= Room(t.buffer),
             Becomes(c, [t EXCEPT !.pc = "write", !.pos = @ + n,
                                  !.buffer = ReadInto(t.buffer, SubSeq(left, 1, n)),
                                  !.digest = Hashed(t, SubSeq(left, 1, n))])
      PROVE  FetchOK(job'[c]) /\ Follows(t, job'[c])
  <2> DEFINE s == SubSeq(left, 1, n)
             u == [t EXCEPT !.pc = "write", !.pos = @ + n, !.buffer = ReadInto(t.buffer, s),
                            !.digest = Hashed(t, s)]
  <2>1. s \in Seq(Digits \ {0}) /\ Len(s) = n /\ Len(s) \in Nat \ {0}
    <3>1. s \in Seq(Digits \ {0}) /\ Len(s) = n
      BY <1>1
    <3>2. Len(s) \in Nat
      BY <3>1
    <3>3. n \in Int /\ n >= 1
      <4>1. n \in Int
        BY <3>1, <3>2
      <4> QED BY <4>1
    <3> QED BY <3>1, <3>2, <3>3
  <2>2. /\ u.pc = "write" /\ u.buffer = ReadInto(t.buffer, s) /\ u.digest = t.digest \o s
        /\ u.disk = t.disk /\ u.data = t.data /\ u.said = t.said
        /\ u.filename = t.filename /\ u.checksum = t.checksum /\ u.conn = t.conn
    <3> HIDE DEF t, s
    <3> QED BY <1>0 DEF Tasks, Hashed
  <2>3. job'[c] = u
    BY <1>2, Becoming
  <2>4. Len(s) <= Room(t.buffer)
    BY <1>2, <2>1
  <2> HIDE DEF s, u
  <2>5. /\ Getting(u) /\ Newest(u) = Newest(t) /\ Len(u.digest) = Len(t.digest) + Len(s)
        /\ u.buffer.head = t.buffer.head /\ u.buffer.tail = t.buffer.tail + Len(s)
    BY <1>0, <2>1, <2>2, <2>4, ReadFetches
  <2>6. u.buffer.head # u.buffer.tail /\ Len(t.digest) \in Nat
    <3>1. t.buffer \in Buffers(Digits) /\ t.digest \in Seq(Digits)
      BY <1>0 DEF Tasks
    <3>2. t.buffer.head \in Nat /\ t.buffer.tail \in Nat /\ t.buffer.head <= t.buffer.tail
      BY <3>1, Counts
    <3> QED BY <2>1, <2>5, <3>1, <3>2
  <2>7. "size" \in t.said => Len(t.digest) > MAX_FILESIZE
    BY DEF FetchOK
  <2> HIDE DEF t
  <2>8. FetchOK(u)
    BY <2>1, <2>2, <2>5, <2>6, <2>7, TransferAssumption DEF FetchOK, Keeping
  <2>9. Follows(t, u)
    BY <2>2 DEF Follows
  <2> QED BY <2>3, <2>8, <2>9
<1>3. CASE Becomes(c, [t EXCEPT !.pc = IF t.buffer.head = t.buffer.tail THEN "check" ELSE "write"])
  <2> DEFINE p == IF t.buffer.head = t.buffer.tail THEN "check" ELSE "write"
  <2>1. p \in Stages /\ job'[c] = [t EXCEPT !.pc = p]
    BY <1>3, Becoming DEF Stages
  <2>2. \/ p = "check" /\ t.buffer.head = t.buffer.tail
        \/ p = "write" /\ t.buffer.head # t.buffer.tail
    OBVIOUS
  <2> HIDE DEF p
  <2>3. Moves(t, p)
    BY <1>0, <2>2 DEF Moves
  <2> QED BY <2>1, <2>3, PcStep
<1>4. CASE Becomes(c, [Says(t, "read error") EXCEPT !.pc = "retry"])
  <2>1. "read error" \in Complaints /\ "retry" \in Stages /\ Moves(t, "retry")
    BY <1>0 DEF Stages, Complaints, Moves
  <2> DEFINE u == [Says(t, "read error") EXCEPT !.pc = "retry"]
  <2>2. FetchOK(u) /\ Follows(t, u)
    BY <2>1, SaysStep
  <2>3. job'[c] = u
    BY <1>4, Becoming
  <2> HIDE DEF u
  <2> QED BY <2>2, <2>3
<1> QED BY <1>2, <1>3, <1>4, Zenon DEF ReadPeer

(* A write moves the front of the buffer to the end of the file. *)
LEMMA WriteFetches ==
    ASSUME NEW t \in Tasks, NEW u, Getting(t), NEW n, n = Span(t.buffer), t.buffer.head # t.buffer.tail,
           u.buffer = WriteOut(t.buffer, n), u.digest = t.digest,
           u.data = [t.data EXCEPT ![Len(t.data)] = @ \o Piece(t.buffer, n)],
           u.disk = t.disk, u.filename = t.filename
    PROVE  /\ Getting(u) /\ Newest(u) # <<>> /\ Len(u.data) = Len(t.data)
           /\ Filled(u.data, Len(u.data))
           /\ u.buffer.total_written = Len(Newest(u)) /\ u.buffer.total_written <= Len(u.digest)
           /\ u.buffer.head = u.buffer.tail \/ Newest(u) # <<>>
<1> DEFINE b == t.buffer
           x == Newest(t)
           p == Piece(b, n)
           r == WriteOut(b, n)
<1>0. t.data # <<>> /\ b.head = Len(x) /\ t.disk # <<>> /\ t.filename \in FileNames
  BY DEF Getting
<1>1. x \in Seq(Digits) /\ Held(b) \in Seq(Digits) /\ b \in Buffers(Digits) /\ t.digest \in Seq(Digits)
      /\ Body(t) \in Seq(Digits) /\ t.data \in Seq(Seq(Digits)) /\ Len(t.data) \in Nat \ {0}
  BY <1>0, NewestType
<1>2. n \in Nat \ {0} /\ n \in 0..Span(b)
  <2>1. n \in 0..b.tail - b.head /\ (n = 0 <=> b.tail = b.head)
    BY <1>1, SpanFits
  <2>2. n \in Nat \ {0}
    BY <1>1, <2>1, Counts
  <2> QED BY <2>2
<1>3. p \in Seq(Digits) /\ Len(p) = n
  <2>1. p \in Seq(Digits)
    BY <1>1, <1>2, PieceType
  <2> QED BY <1>2, <2>1 DEF Piece
<1>4. r \in Buffers(Digits) /\ Held(b) = p \o Held(r) /\ Held(r) \in Seq(Digits)
  BY ZenonT(60), <1>1, <1>2, WriteTakesFront, HeldType
<1>5. r.head = b.head + n /\ r.total_written = r.head
  <2>1. b \in [head : Nat, tail : Nat, total_written : Nat, buf : [0..TASKBUFSIZ - 1 -> Digits]]
    BY <1>1 DEF Buffers
  <2>2. r.total_written = r.head
    BY <1>4 DEF Buffers
  <2> HIDE DEF b
  <2> QED BY <2>1, <2>2 DEF WriteOut
<1> HIDE DEF b, p, r
<1>6. /\ Len(u.data) = Len(t.data) /\ u.data # <<>>
      /\ u.data[Len(t.data)] = t.data[Len(t.data)] \o p
      /\ \A k \in 1..Len(t.data) - 1 : u.data[k] = t.data[k]
  <2> DEFINE o == t.data
             e == u.data
  <2>1. e = [o EXCEPT ![Len(o)] = @ \o p]
    BY DEF p, b
  <2>2. o \in Seq(Seq(Digits)) /\ o # <<>>
    BY <1>0, <1>1
  <2> HIDE DEF o, e
  <2>3. /\ e \in Seq(Seq(Digits)) /\ Len(e) = Len(o) /\ e # <<>>
        /\ e[Len(o)] = o[Len(o)] \o p /\ \A k \in 1..Len(o) - 1 : e[k] = o[k]
    BY <1>3, <2>1, <2>2, Lengthens
  <2> QED BY <2>3 DEF o, e
<1>7. Newest(u) = x \o p
  BY <1>6 DEF Newest
<1> HIDE DEF x
<1>8. Newest(u) \in Seq(Digits) /\ Len(Newest(u)) = Len(x) + n /\ Len(x) \in Nat
  BY <1>1, <1>3, <1>7, ConcatProperties
<1>9. Newest(u) # <<>>
  BY <1>2, <1>8, EmptySeq
<1>10. u.buffer = r
  BY DEF r, b
<1>11. Body(u) = Body(t)
  <2>1. Body(u) = (x \o p) \o Held(r)
    BY <1>7, <1>10 DEF Body
  <2>2. Body(t) = x \o (p \o Held(r))
    BY <1>4 DEF Body, x, b
  <2>3. (x \o p) \o Held(r) = x \o (p \o Held(r))
    <3> DEFINE g == Held(r)
    <3>1. x \in Seq(Digits) /\ p \in Seq(Digits) /\ g \in Seq(Digits)
      BY <1>1, <1>3, <1>4
    <3> HIDE DEF g
    <3>2. (x \o p) \o g = x \o (p \o g)
      BY <3>1, Joins
    <3> QED BY <3>2 DEF g
  <2> QED BY <2>1, <2>2, <2>3
<1>12. Filled(t.data, Len(t.data) - 1) => Filled(u.data, Len(u.data) - 1)
  BY <1>6 DEF Filled
<1>13. Getting(u)
  BY <1>0, <1>5, <1>6, <1>8, <1>10, <1>11, <1>12 DEF Getting
<1>14. Filled(u.data, Len(u.data))
  <2>1. Len(u.data) \in 1..Len(u.data)
    BY <1>1, <1>6
  <2> QED BY <1>9, <2>1 DEF Filled, Newest
<1>15. u.buffer.total_written = Len(Newest(u))
  BY <1>0, <1>5, <1>8, <1>10
<1>16. Len(Newest(u)) <= Len(u.digest)
  <2>1. PICK earlier \in Seq(Digits) : u.digest = earlier \o Body(u)
    BY <1>13 DEF Getting
  <2>2. Len(Body(u)) = Len(Newest(u)) + Len(Held(r)) /\ Len(Held(r)) \in Nat
        /\ Body(u) \in Seq(Digits)
    <3>1. Newest(u) \in Seq(Digits) /\ Held(r) \in Seq(Digits) /\ Body(u) = Newest(u) \o Held(r)
      BY <1>4, <1>8, <1>10 DEF Body
    <3> QED BY <3>1, JoinLen, ZenonT(60)
  <2>3. Len(u.digest) = Len(earlier) + Len(Body(u)) /\ Len(earlier) \in Nat
    <3>1. Body(u) \in Seq(Digits)
      BY <2>2
    <3> QED BY <2>1, <3>1, JoinLen, Zenon
  <2> QED BY <1>8, <2>2, <2>3
<1> QED BY <1>6, <1>9, <1>13, <1>14, <1>15, <1>16

LEMMA WriteFetch ==
    ASSUME ITypes, NEW c \in Children, FetchOK(job[c]), WriteDisk(c)
    PROVE  FetchOK(job'[c]) /\ Follows(job[c], job'[c])
<1> DEFINE t == job[c]
           b == t.buffer
           n == Span(b)
           r == [t.rate EXCEPT ![t.j % SAMPLESIZE] = n]
           d == [t.data EXCEPT ![Len(t.data)] = @ \o Piece(b, n)]
           next == [t EXCEPT !.buffer = WriteOut(b, n), !.data[Len(t.data)] = @ \o Piece(b, n),
                             !.rate = r, !.j = (@ % SAMPLESIZE) + 1]
           last == IF next.buffer.total_written > MAX_FILESIZE
                   THEN [Says(next, "size") EXCEPT !.pc = "unlink"]
                   ELSE IF Total(r) \div SAMPLESIZE < MIN_TRANSRATE
                   THEN [Says(next, "slow") EXCEPT !.pc = "retry"]
                   ELSE [next EXCEPT !.pc = "read"]
<1>0. t \in Tasks /\ t.pc = "write" /\ Getting(t) /\ b.head # b.tail
      /\ ("size" \in t.said => Len(t.digest) > MAX_FILESIZE)
  BY DEF ITypes, WriteDisk, At, FetchOK
<1>1. Becomes(c, last)
  BY Zenon DEF WriteDisk
<1>2. job'[c] = last
  BY <1>1, Becoming
<1>3. /\ next.buffer = WriteOut(b, n) /\ next.data = d /\ next.digest = t.digest
      /\ next.disk = t.disk /\ next.filename = t.filename /\ next.checksum = t.checksum
      /\ next.conn = t.conn /\ next.said = t.said /\ next = [next EXCEPT !.said = t.said]
      /\ DOMAIN next = DOMAIN t
  <2>1. next = [t EXCEPT !.buffer = WriteOut(b, n), !.data = d, !.rate = r, !.j = (@ % SAMPLESIZE) + 1]
    OBVIOUS
  <2> HIDE DEF t, r, d, b, n
  <2> QED BY <1>0, <2>1 DEF Tasks
<1>4. /\ Getting(next) /\ Newest(next) # <<>> /\ Len(next.data) = Len(t.data)
      /\ Filled(next.data, Len(next.data))
      /\ next.buffer.total_written <= Len(next.digest)
  <2>1. d = [t.data EXCEPT ![Len(t.data)] = @ \o Piece(b, n)] /\ n = Span(t.buffer)
    OBVIOUS
  <2> DEFINE u == next
  <2>2. /\ u.buffer = WriteOut(t.buffer, n) /\ u.digest = t.digest
        /\ u.data = [t.data EXCEPT ![Len(t.data)] = @ \o Piece(t.buffer, n)]
        /\ u.disk = t.disk /\ u.filename = t.filename
    BY <1>3
  <2> HIDE DEF u, next, d, n, r, t
  <2>3. /\ Getting(u) /\ Newest(u) # <<>> /\ Len(u.data) = Len(t.data)
        /\ Filled(u.data, Len(u.data))
        /\ u.buffer.total_written = Len(Newest(u)) /\ u.buffer.total_written <= Len(u.digest)
        /\ u.buffer.head = u.buffer.tail \/ Newest(u) # <<>>
    BY <1>0, <2>1, <2>2, WriteFetches
  <2> QED BY <2>3 DEF u
<1>5. MAX_FILESIZE \in Nat /\ Len(t.digest) \in Nat /\ WriteOut(b, n).total_written \in Nat
  <2>1. b \in Buffers(Digits) /\ n \in 0..Span(b)
    <3>1. b \in Buffers(Digits)
      BY <1>0 DEF Tasks
    <3>2. n \in Nat
      BY <3>1, SpanFits, Counts
    <3> QED BY <3>1, <3>2
  <2>2. WriteOut(b, n) \in Buffers(Digits) /\ t.digest \in Seq(Digits)
    BY <1>0, <2>1, WriteTakesFront DEF Tasks
  <2> QED BY <2>2, TransferAssumption DEF Buffers
<1>6. DOMAIN t = {"pc", "buffer", "filename", "peers", "checksum", "digest", "disk", "data", "pos",
                  "tries", "rate", "j", "conn", "file", "opened", "said"}
  BY <1>0 DEF Tasks
<1> HIDE DEF next, t, r, b, n, d
<1>7. ASSUME NEW u, SameFetch(next, u), next.said \subseteq u.said,
             \/ u.pc = "unlink" /\ "size" \in u.said /\ next.buffer.total_written > MAX_FILESIZE
             \/ u.pc \in {"read", "retry"} /\ ("size" \in u.said => "size" \in next.said)
      PROVE  FetchOK(u) /\ Follows(t, u)
  <2>1. Newest(u) = Newest(next) /\ Body(u) = Body(next) /\ Getting(u) = Getting(next)
    BY <1>7, SameBody
  <2>2. FetchOK(u)
    BY <1>0, <1>3, <1>4, <1>5, <1>7, <2>1 DEF FetchOK, Keeping, SameFetch
  <2>3. Follows(t, u)
    BY <1>3, <1>4, <1>7 DEF Follows, SameFetch
  <2> QED BY <2>2, <2>3
<1>8. ASSUME NEW w, NEW p
      PROVE  LET u == [Says(next, w) EXCEPT !.pc = p] IN
             SameFetch(next, u) /\ u.pc = p /\ u.said = next.said \cup {w}
  BY <1>3, <1>6 DEF SameFetch, Says
<1>9. LET u == [next EXCEPT !.pc = "read"] IN
      SameFetch(next, u) /\ u.pc = "read" /\ u.said = next.said
  BY <1>3, <1>6 DEF SameFetch
<1>10. CASE next.buffer.total_written > MAX_FILESIZE
  <2> DEFINE u == [Says(next, "size") EXCEPT !.pc = "unlink"]
  <2>1. SameFetch(next, u) /\ u.pc = "unlink" /\ u.said = next.said \cup {"size"}
    BY <1>8
  <2>2. last = u
    BY <1>10
  <2> HIDE DEF u, last
  <2> QED BY <1>2, <1>7, <1>10, <2>1, <2>2 DEF t
<1>11. CASE ~(next.buffer.total_written > MAX_FILESIZE) /\ Total(r) \div SAMPLESIZE < MIN_TRANSRATE
  <2> DEFINE u == [Says(next, "slow") EXCEPT !.pc = "retry"]
  <2>1. SameFetch(next, u) /\ u.pc = "retry" /\ u.said = next.said \cup {"slow"}
    BY <1>8
  <2>2. last = u
    BY <1>11, Zenon
  <2> HIDE DEF u, last
  <2> QED BY <1>2, <1>7, <2>1, <2>2 DEF t
<1>12. CASE ~(next.buffer.total_written > MAX_FILESIZE) /\ ~(Total(r) \div SAMPLESIZE < MIN_TRANSRATE)
  <2> DEFINE u == [next EXCEPT !.pc = "read"]
  <2>1. SameFetch(next, u) /\ u.pc = "read" /\ u.said = next.said
    BY <1>9
  <2>2. last = u
    BY <1>12, Zenon
  <2> HIDE DEF u, last
  <2> QED BY <1>2, <1>7, <2>1, <2>2 DEF t
<1> QED BY <1>10, <1>11, <1>12

(* A step of a download keeps its invariant. *)
LEMMA DownloadFetch ==
    ASSUME ITypes, IStages, NEW c \in Children, FetchOK(job[c]), task_download(c)
    PROVE  FetchOK(job'[c]) /\ Follows(job[c], job'[c])
  BY ConnectFetch, OpenFetch, ReadFetch, WriteFetch, CheckFetch, HaveFetch, RetryFetch
  DEF task_download

(* An upload changes nothing that a download needs to know. *)
LEMMA UploadFetch ==
    ASSUME ITypes, NEW c \in Children, task_upload(c)
    PROVE  /\ job'[c].conn = job[c].conn /\ job'[c].checksum = job[c].checksum
           /\ job[c].said \subseteq job'[c].said
<1> DEFINE t == job[c]
<1>0. t \in Tasks
  BY DEF ITypes
<1> DEFINE Like(u) == u.conn = t.conn /\ u.checksum = t.checksum /\ t.said \subseteq u.said
<1>1. \A w, p : Like([Says(t, w) EXCEPT !.pc = p])
  BY <1>0 DEF Says, Tasks
<1>2. \A f, x, l : Like([t EXCEPT !.pc = "send", !.filename = f, !.file = x, !.opened = l])
  BY <1>0 DEF Tasks
<1>3. \A b : Like([t EXCEPT !.pc = "fill", !.buffer = b]) /\ Like([t EXCEPT !.pc = "fill"])
  BY <1>0 DEF Tasks
<1>4. \A b, n : Like([t EXCEPT !.pc = "send", !.pos = @ + n, !.buffer = b])
  BY <1>0 DEF Tasks
<1>5. Like([t EXCEPT !.pc = "ended"])
  BY <1>0 DEF Tasks
<1> HIDE DEF Like
<1>6. Like(job'[c])
  <2>1. \A u : Becomes(c, u) => job'[c] = u
    BY Becoming
  <2>2. CASE ReadRequest(c)
    <3> DEFINE a == Asks[t.conn]
               x == dir[<<a.file, 0>>]
               u == [t EXCEPT !.pc = "send", !.filename = a.file, !.file = x,
                              !.opened = Len(Bytes(a.file, x))]
               v == [Says(t, "request") EXCEPT !.pc = "ended"]
               S == a.request = "sound" /\ x # Free
    <3>1. Becomes(c, IF S THEN u ELSE v)
      BY <2>2, Zenon DEF ReadRequest
    <3>2. Like(u) /\ Like(v)
      BY <1>1, <1>2
    <3> HIDE DEF u, v, S
    <3>3. job'[c] = u \/ job'[c] = v
      BY <2>1, <3>1
    <3> QED BY <3>2, <3>3
  <2>3. CASE SendPeer(c)
    <3>1. \/ Becomes(c, [t EXCEPT !.pc = "fill"])
          \/ \E n \in 1..Span(t.buffer) :
                Becomes(c, [t EXCEPT !.pc = "fill", !.buffer = WriteOut(t.buffer, n)])
          \/ Becomes(c, [Says(t, "write error") EXCEPT !.pc = "ended"])
      BY <2>3, Zenon DEF SendPeer
    <3>2. \A b : Like([t EXCEPT !.pc = "fill", !.buffer = b])
      BY <1>3
    <3>3. ASSUME NEW n, Becomes(c, [t EXCEPT !.pc = "fill", !.buffer = WriteOut(t.buffer, n)])
          PROVE  Like(job'[c])
      BY <2>1, <3>2, <3>3, Zenon
    <3>4. CASE Becomes(c, [t EXCEPT !.pc = "fill"])
      BY <1>3, <2>1, <3>4, Zenon
    <3>5. CASE Becomes(c, [Says(t, "write error") EXCEPT !.pc = "ended"])
      <4> DEFINE v == [Says(t, "write error") EXCEPT !.pc = "ended"]
      <4>1. Like(v) /\ Becomes(c, v)
        BY <1>1, <3>5
      <4> HIDE DEF v
      <4> QED BY <2>1, <4>1
    <3> QED BY <3>1, <3>3, <3>4, <3>5
  <2>4. CASE FillBuffer(c)
    <3> DEFINE n == Smaller(Len(Unread(t)), Room(t.buffer))
               u == [t EXCEPT !.pc = "send", !.pos = @ + n,
                              !.buffer = ReadInto(t.buffer, SubSeq(Unread(t), 1, n))]
               v == [t EXCEPT !.pc = "ended"]
               S == Drained(n, t.buffer)
    <3>1. Becomes(c, IF S THEN v ELSE u)
      BY <2>4, Zenon DEF FillBuffer
    <3>2. Like(u) /\ Like(v)
      BY <1>4, <1>5
    <3> HIDE DEF u, v, S
    <3>3. job'[c] = u \/ job'[c] = v
      BY <2>1, <3>1
    <3> QED BY <3>2, <3>3
  <2> QED BY <2>2, <2>3, <2>4 DEF task_upload
<1> QED BY <1>6 DEF Like

---------------------------------------------------------------------------
(* The invariant *)

IFetch ==
    /\ \A c \in Children : job[c].conn = 0 => FetchOK(job[c])
    /\ \A c \in Children : job[c].pc = "none" => job[c].said = {}
    /\ main.pc \in {"sum", "sum?", "fork"} => main.task.disk = <<>> /\ main.task.digest = <<>>

\* Some child has fetched more than a file may have, and unlinks its file twice.
TooLarge == \E d \in Children : "size" \in job[d].said

INames ==
    /\ \A n \in scene.local : dir[n] = Old
    /\ \A c \in Children : (job[c].conn = 0 /\ job[c].disk # <<>> /\ job[c].pc # "open") =>
          /\ job[c].disk \notin scene.local
          /\ dir[job[c].disk] = <<c, Len(job[c].data)>> \/ TooLarge

Contents == {Content[f] : f \in FileNames}
Sums == {<<>>, NoDigest} \cup Contents

ISums ==
    /\ \A c \in Children : job[c].checksum \in Sums
    /\ main.task.checksum \in Sums
    /\ \A i \in DOMAIN fromTracker : fromTracker[i].sum \in {<<>>} \cup Contents

(* The checksum of a task whose answers were its own.                      *)
Right(t) == t.filename \in scene.sums =>
               \/ t.checksum = Content[t.filename]
               \/ t.checksum = NoDigest /\ Content[t.filename] = <<>>

Silent == \A c \in Children : ~Told(c)

Hearing == {"greet?", "addr?", "file?", "want?", "sum?"}

\* As long as no child talks to the tracker, main waits for what it asked for.
Synced ==
    \/ main.pc \notin Hearing /\ toTracker = <<>> /\ fromTracker = <<>>
    \/ /\ main.pc \in Hearing
       /\ \E r \in Requests :
             /\ main.pc = "sum?" => r = Request("main", "MD5SUM", Head(main.argv))
             /\ main.pc = "want?" => r = Request("main", "WANT", Head(main.argv))
             /\ \/ toTracker = <<r>> /\ fromTracker = <<>>
                \/ toTracker = <<>> /\ fromTracker = <<Answer(r)>>

ISure ==
    /\ Silent => Synced
    /\ main.pc \in {"sum", "sum?", "fork"} => main.task.filename = Head(main.argv)
    /\ (Silent /\ main.pc = "fork") => Right(main.task)
    /\ \A c \in Children : (job[c].conn = 0 /\ job[c].pc # "none" /\ \A d \in 1..c - 1 : ~Told(d))
                           => Right(job[c])

IFiles == IType /\ IFetch /\ INames /\ ISums /\ ISure

---------------------------------------------------------------------------
(* A step of a child *)

\* What a step of a child does to the tasks, for the invariant.
ChildFollows(c) ==
    /\ \A d \in Children : d # c => job'[d] = job[d]
    /\ job'[c].conn = job[c].conn /\ job'[c].checksum = job[c].checksum
    /\ job[c].said \subseteq job'[c].said
    /\ job[c].conn = 0 => /\ FetchOK(job[c]) /\ FetchOK(job'[c]) /\ Follows(job[c], job'[c])
                          /\ task_download(c)
    /\ task_download(c) => job[c].conn = 0
    /\ job[c].pc # "none" /\ job'[c].pc # "none"

LEMMA ChildOf ==
    ASSUME IType, IFetch, NEW c \in Children, Child(c) PROVE ChildFollows(c)
<1>1. ITypes /\ IStages /\ IMade /\ job \in [Children -> Tasks]
  BY DEF IType, ITypes
<1>2. TaskStep(c)
  BY <1>1, ChildTask
<1>3. \A d \in Children : d # c => job'[d] = job[d]
  BY <1>1, <1>2 DEF TaskStep
<1>4. CASE task_download(c)
  <2>1. job[c].pc \in {"await"} \cup Downloading /\ StageOK(job[c])
    BY <1>1, <1>4 DEF task_download, Connect, OpenDisk, ReadPeer, WriteDisk, CheckDigest, SendHave,
                AwaitHave, UnlinkLarge, TryAgain, At, Downloading, Talking, IStages
  <2>2. job[c].conn = 0
    BY <2>1 DEF StageOK
  <2>3. FetchOK(job'[c]) /\ Follows(job[c], job'[c]) /\ FetchOK(job[c])
    BY <1>1, <1>4, <2>2, DownloadFetch DEF IFetch
  <2> QED BY <1>2, <1>3, <1>4, <2>2, <2>3 DEF ChildFollows, Follows, TaskStep
<1>5. CASE task_upload(c)
  <2>1. job[c].pc \in Uploading /\ StageOK(job[c])
    BY <1>1, <1>5 DEF task_upload, ReadRequest, SendPeer, FillBuffer, At, Uploading, IStages
  <2>2. job[c].conn # 0
    BY <2>1, TransferAssumption DEF StageOK
  <2>3. ~task_download(c)
    BY <2>1 DEF task_download, Connect, OpenDisk, ReadPeer, WriteDisk, CheckDigest, SendHave,
                AwaitHave, UnlinkLarge, TryAgain, At, Uploading
  <2>4. /\ job'[c].conn = job[c].conn /\ job'[c].checksum = job[c].checksum
        /\ job[c].said \subseteq job'[c].said
    BY <1>1, <1>5, UploadFetch
  <2> QED BY <1>2, <1>3, <2>2, <2>3, <2>4 DEF ChildFollows, TaskStep
<1> QED BY <1>4, <1>5 DEF Child

LEMMA ChildFetch ==
    ASSUME IFetch, NEW c \in Children, ChildFollows(c), UNCHANGED main PROVE IFetch'
<1>1. ASSUME NEW d \in Children, job'[d].conn = 0 PROVE FetchOK(job'[d])
  <2>1. CASE d = c
    BY <1>1, <2>1 DEF ChildFollows
  <2>2. CASE d # c
    BY <1>1, <2>2 DEF ChildFollows, IFetch
  <2> QED BY <2>1, <2>2
<1>2. \A d \in Children : job'[d].pc = "none" => job'[d].said = {}
  BY DEF ChildFollows, IFetch
<1> QED BY <1>1, <1>2 DEF IFetch

LEMMA StillTold ==
    ASSUME ITypes, NEW c \in Children, ChildFollows(c), NEW d \in Children, Told(d) PROVE Told(d)'
<1>1. CASE d # c
  BY <1>1 DEF ChildFollows, Told, Kept
<1>2. CASE d = c
  <2>1. job[c].conn = 0 /\ job[c].disk # <<>> /\ job[c].pc \in {"await", "ended", "reaped"}
        /\ job[c].disk = <<job[c].filename, 0>>
    BY <1>2 DEF Told, Kept
  <2>2. AwaitHave(c)
    BY <2>1 DEF ChildFollows, task_download, Connect, OpenDisk, ReadPeer, WriteDisk, CheckDigest,
                SendHave, UnlinkLarge, TryAgain, At
  <2>3. /\ job'[c].conn = 0 /\ job'[c].filename = job[c].filename /\ job'[c].disk = job[c].disk
        /\ job'[c].pc = "ended"
    <3>1. job'[c].conn = 0 /\ job'[c].filename = job[c].filename
      BY <2>1 DEF ChildFollows, Follows
    <3>2. "ended" \in Stages /\ job'[c] = [job[c] EXCEPT !.pc = "ended"] /\ job[c] \in Tasks
      BY <2>2, Becoming DEF AwaitHave, Stages
    <3>3. SameFetch(job[c], job'[c]) /\ job'[c].pc = "ended"
      BY <3>2, PcFetch
    <3> QED BY <3>1, <3>3 DEF SameFetch
  <2> QED BY <1>2, <2>1, <2>3 DEF Told, Kept
<1> QED BY <1>1, <1>2

(* A new file gets a free name. *)
LEMMA OpenIs ==
    ASSUME ITypes, IStages, NEW c \in Children, OpenDisk(c)
    PROVE  \/ dir' = dir /\ (job'[c].pc = "open" \/ job'[c].disk = <<>>)
           \/ \E n \in Names : /\ dir[n] = Free /\ job'[c].disk = n
                               /\ dir' = [dir EXCEPT ![n] = <<c, Len(job'[c].data)>>]
<1> DEFINE t == job[c]
           i == t.tries
           n == <<t.filename, i>>
<1>0. t \in Tasks /\ t.pc = "open" /\ t.filename \in FileNames /\ t.data \in Seq(Seq(Digits))
      /\ i \in 0..LocalNames
  BY DEF ITypes, IStages, OpenDisk, At, StageOK, Downloading, Talking, Tasks
<1>1. CASE dir' = dir /\ Becomes(c, [t EXCEPT !.tries = i + 1, !.disk = n])
  <2>1. [t EXCEPT !.tries = i + 1, !.disk = n].pc = t.pc
    <3> HIDE DEF t, i, n
    <3> QED BY <1>0 DEF Tasks
  <2> QED BY <1>0, <1>1, <2>1, Becoming
<1>2. CASE dir' = dir /\ Becomes(c, [Says(t, "names") EXCEPT !.pc = "ended", !.disk = <<>>])
  <2> DEFINE v == [Says(t, "names") EXCEPT !.pc = "ended"]
             u == [v EXCEPT !.disk = <<>>]
  <2>0. "names" \in Complaints /\ "ended" \in Stages
    BY DEF Stages, Complaints
  <2>1. v \in Tasks
    BY <1>0, <2>0, SaysTask
  <2>2. u.disk = <<>>
    <3> HIDE DEF v
    <3> QED BY <2>1 DEF Tasks
  <2>3. job'[c] = u
    BY <1>2, Becoming
  <2> HIDE DEF u
  <2> QED BY <1>2, <2>2, <2>3
<1>3. CASE /\ i < LocalNames /\ dir[n] = Free /\ dir' = [dir EXCEPT ![n] = <<c, Len(t.data) + 1>>]
           /\ Becomes(c, [t EXCEPT !.pc = "read", !.disk = n, !.data = Append(@, <<>>)])
  <2> DEFINE u == [t EXCEPT !.pc = "read", !.disk = n, !.data = Append(t.data, <<>>)]
  <2>1. u.disk = n /\ u.data = Append(t.data, <<>>)
    <3> HIDE DEF t, i, n
    <3> QED BY <1>0 DEF Tasks
  <2>2. job'[c] = u
    BY <1>3, Becoming
  <2>3. n \in Names
    <3>1. i \in 0..LocalNames - 1
      <4> HIDE DEF i
      <4> QED BY <1>0, <1>3, TransferAssumption
    <3> QED BY <1>0, <3>1 DEF Names
  <2> HIDE DEF u, t, n
  <2>4. Len(u.data) = Len(t.data) + 1
    <3>1. <<>> \in Seq(Digits)
      BY EmptySeq
    <3> QED BY <1>0, <2>1, <3>1, AppendProperties
  <2>5. dir[n] = Free /\ dir' = [dir EXCEPT ![n] = <<c, Len(job'[c].data)>>]
    BY <1>3, <2>2, <2>4
  <2> QED BY <2>1, <2>2, <2>3, <2>5
<1> QED BY <1>1, <1>2, <1>3 DEF OpenDisk

LEMMA ChildNames ==
    ASSUME IFiles, NEW c \in Children, Child(c), ChildFollows(c), UNCHANGED peerVars PROVE INames'
<1>0. ITypes /\ IStages /\ INames /\ job \in [Children -> Tasks] /\ dir \in [Names -> Inodes]
      /\ scene' = scene /\ scene.local \subseteq Names /\ \A n \in Names : n # <<>>
  <2>1. \A n \in Names : n # <<>>
    BY DEF Names
  <2>2. scene.local \subseteq Names
    BY SceneAssumption, Zenon DEF IFiles, IType, ITypes
  <2> QED BY <2>1, <2>2 DEF IFiles, IType, ITypes, peerVars
<1>1. TooLarge => TooLarge'
  BY DEF TooLarge, ChildFollows
<1>2. \A d \in Children, k \in Nat : <<d, k>> # Free /\ <<d, k>> # Old
  <2>1. \A d \in Children, k \in Nat : <<d, k>> \in Children \X Nat
    OBVIOUS
  <2> QED BY <2>1, TransferAssumption, Zenon
<1>3. \A d \in Children : Len(job[d].data) \in Nat /\ Len(job'[d].data) \in Nat
  <2>1. job' \in [Children -> Tasks]
    BY <1>0, ChildTask DEF TaskStep, IFiles, IType
  <2>2. ASSUME NEW t \in Tasks PROVE Len(t.data) \in Nat
    <3>1. t.data \in Seq(Seq(Digits))
      BY DEF Tasks
    <3> QED BY <3>1
  <2> QED BY <1>0, <2>1, <2>2
<1>4. \A d \in Children : (job[d].conn = 0 /\ job[d].disk # <<>> /\ job[d].pc # "open") =>
          /\ job[d].disk \notin scene.local
          /\ dir[job[d].disk] = <<d, Len(job[d].data)>> \/ TooLarge
  BY <1>0 DEF INames
<1>5. \A d \in Children : job[d].disk \in Names \cup {<<>>} /\ job'[d].disk \in Names \cup {<<>>}
  <2>1. job' \in [Children -> Tasks]
    BY <1>0, ChildTask DEF TaskStep, IFiles, IType
  <2> QED BY <1>0, <2>1 DEF Tasks
<1>6. ASSUME job'[c].conn = 0
      PROVE  job[c].conn = 0 /\ FetchOK(job[c]) /\ Follows(job[c], job'[c]) /\ task_download(c)
  BY <1>6 DEF ChildFollows
<1>7. CASE OpenDisk(c)
  <2>1. CASE dir' = dir /\ (job'[c].pc = "open" \/ job'[c].disk = <<>>)
    BY <1>0, <1>1, <1>4, <2>1 DEF ChildFollows, INames
  <2>2. ASSUME NEW n \in Names, dir[n] = Free, job'[c].disk = n,
               dir' = [dir EXCEPT ![n] = <<c, Len(job'[c].data)>>]
        PROVE  INames'
    <3>1. n \notin scene.local
      BY <1>0, <2>2, TransferAssumption DEF INames
    <3>2. \A m \in Names : dir'[m] = IF m = n THEN <<c, Len(job'[c].data)>> ELSE dir[m]
      BY <1>0, <2>2
    <3>3. \A m \in scene.local : dir'[m] = Old
      BY <1>0, <3>1, <3>2 DEF INames
    <3>4. ASSUME NEW d \in Children, job'[d].conn = 0, job'[d].disk # <<>>, job'[d].pc # "open"
          PROVE  /\ job'[d].disk \notin scene.local
                 /\ dir'[job'[d].disk] = <<d, Len(job'[d].data)>> \/ TooLarge'
      <4>1. CASE d = c
        BY <2>2, <3>1, <3>2, <4>1
      <4>2. CASE d # c
        <5>1. job'[d] = job[d]
          BY <4>2 DEF ChildFollows
        <5>2. job[d].disk \notin scene.local
              /\ (dir[job[d].disk] = <<d, Len(job[d].data)>> \/ TooLarge)
          BY <1>4, <3>4, <5>1
        <5>3. CASE job[d].disk # n
          BY <1>1, <1>5, <3>2, <3>4, <5>1, <5>2, <5>3
        <5>4. CASE job[d].disk = n
          BY <1>1, <1>2, <1>3, <2>2, <5>1, <5>2, <5>4
        <5> QED BY <5>3, <5>4
      <4> QED BY <4>1, <4>2
    <3> QED BY <1>0, <3>3, <3>4 DEF INames
  <2> QED BY <1>0, <1>7, <2>1, <2>2, OpenIs
<1>8. CASE UnlinkLarge(c) \/ TryAgain(c)
  <2>1. dir' = Unlinked(c) /\ job[c].pc \in {"unlink", "retry"} /\ job[c].conn = 0
        /\ FetchOK(job[c]) /\ Follows(job[c], job'[c])
    BY <1>8 DEF UnlinkLarge, TryAgain, At, ChildFollows, task_download
  <2>2. \A m \in Names : dir'[m] = IF m = job[c].disk THEN Free ELSE dir[m]
    BY <2>1 DEF Unlinked
  <2>3. job[c].disk \notin scene.local
    BY <1>0, <1>4, <2>1
  <2>4. \A m \in scene.local : dir'[m] = Old
    BY <1>0, <2>2, <2>3 DEF INames
  <2>5. job'[c].disk = <<>> \/ TooLarge'
    <3>1. CASE UnlinkLarge(c)
      <4>1. "size" \in job[c].said
        BY <3>1 DEF UnlinkLarge, At, FetchOK, ChildFollows, task_download
      <4> QED BY <1>1, <4>1 DEF TooLarge
    <3>2. CASE TryAgain(c)
      <4>1. job[c].pc = "retry" /\ job'[c] = [task_pop_peer(job[c]) EXCEPT !.pc = "connect"]
            /\ job[c] \in Tasks
        BY <1>0, <3>2, Becoming DEF TryAgain, At
      <4>2. job'[c].pc = "connect"
        BY <4>1 DEF task_pop_peer, Tasks
      <4>3. FetchOK(job'[c])
        BY <2>1 DEF ChildFollows
      <4> QED BY <4>2, <4>3 DEF FetchOK
    <3> QED BY <1>8, <3>1, <3>2
  <2>6. ASSUME NEW d \in Children, job'[d].conn = 0, job'[d].disk # <<>>, job'[d].pc # "open"
        PROVE  /\ job'[d].disk \notin scene.local
               /\ dir'[job'[d].disk] = <<d, Len(job'[d].data)>> \/ TooLarge'
    <3>1. CASE d = c
      <4>1. job'[c].disk = job[c].disk /\ TooLarge'
        BY <2>1, <2>5, <2>6, <3>1 DEF Follows
      <4> QED BY <2>3, <3>1, <4>1
    <3>2. CASE d # c
      <4>1. job'[d] = job[d]
        BY <3>2 DEF ChildFollows
      <4>2. job[d].disk \notin scene.local
            /\ (dir[job[d].disk] = <<d, Len(job[d].data)>> \/ TooLarge)
        BY <1>4, <2>6, <4>1
      <4>3. CASE job[d].disk # job[c].disk
        BY <1>1, <1>5, <2>2, <2>6, <4>1, <4>2, <4>3
      <4>4. CASE job[d].disk = job[c].disk
        <5>1. dir[job[c].disk] = <<c, Len(job[c].data)>> \/ TooLarge
          BY <1>4, <2>1, <2>6, <4>1, <4>4
        <5> QED BY <1>1, <3>2, <4>1, <4>2, <4>4, <5>1
      <4> QED BY <4>3, <4>4
    <3> QED BY <3>1, <3>2
  <2> QED BY <1>0, <2>4, <2>6 DEF INames
<1>9. CASE ~OpenDisk(c) /\ ~UnlinkLarge(c) /\ ~TryAgain(c)
  <2>1. dir' = dir /\ job[c].pc # "open"
    BY <1>9 DEF Child, task_download, task_upload, Connect, ReadPeer, WriteDisk, CheckDigest, SendHave,
                AwaitHave, ReadRequest, SendPeer, FillBuffer, At
  <2>2. ASSUME NEW d \in Children, job'[d].conn = 0, job'[d].disk # <<>>, job'[d].pc # "open"
        PROVE  /\ job'[d].disk \notin scene.local
               /\ dir'[job'[d].disk] = <<d, Len(job'[d].data)>> \/ TooLarge'
    <3>1. CASE d = c
      <4>1. job'[c].disk = job[c].disk /\ Len(job'[c].data) = Len(job[c].data) /\ job[c].conn = 0
        BY <1>6, <2>1, <2>2, <3>1 DEF Follows
      <4> QED BY <1>1, <1>4, <2>1, <2>2, <3>1, <4>1
    <3>2. CASE d # c
      <4>1. job'[d] = job[d]
        BY <3>2 DEF ChildFollows
      <4> QED BY <1>1, <1>4, <2>1, <2>2, <4>1
    <3> QED BY <3>1, <3>2
  <2> QED BY <1>0, <2>1, <2>2 DEF INames
<1> QED BY <1>7, <1>8, <1>9

LEMMA ChildSums ==
    ASSUME IFiles, NEW c \in Children, Child(c), ChildFollows(c), UNCHANGED peerVars PROVE ISums'
<1>1. \A d \in Children : job'[d].checksum = job[d].checksum
  BY DEF ChildFollows
<1>2. fromTracker' = fromTracker \/ fromTracker' = <<>>
  BY DEF Child, task_download, task_upload, Connect, OpenDisk, ReadPeer, WriteDisk, CheckDigest,
         SendHave, AwaitHave, UnlinkLarge, TryAgain, ReadRequest, SendPeer, FillBuffer, TakeAnswers
<1> QED BY <1>1, <1>2 DEF IFiles, ISums, peerVars

LEMMA ChildSure ==
    ASSUME IFiles, NEW c \in Children, Child(c), ChildFollows(c), UNCHANGED peerVars PROVE ISure'
<1>0. ITypes /\ ISure /\ job \in [Children -> Tasks] /\ scene' = scene /\ main' = main
  BY DEF IFiles, IType, ITypes, peerVars
<1>1. \A d \in Children : Told(d) => Told(d)'
  BY <1>0, StillTold
<1>2. Silent' => Silent
  BY <1>1 DEF Silent
<1>3. Silent' => UNCHANGED <<toTracker, fromTracker>>
  <2>1. CASE SendHave(c) \/ AwaitHave(c)
    <3>1. job[c].conn = 0 /\ FetchOK(job[c]) /\ job[c].pc \in {"have", "await"}
      BY <2>1 DEF ChildFollows, task_download, SendHave, AwaitHave, At
    <3>2. job[c].disk = <<job[c].filename, 0>>
      BY <3>1 DEF FetchOK
    <3>3. PICK p \in {"await", "ended"} : job'[c] = [job[c] EXCEPT !.pc = p]
      BY <1>0, <2>1, Becoming DEF SendHave, AwaitHave
    <3>4. p \in Stages /\ job[c] \in Tasks
      BY <1>0 DEF Stages
    <3>5. SameFetch(job[c], job'[c]) /\ job'[c].pc = p
      BY <3>3, <3>4, PcFetch
    <3>6. Told(c)'
      BY <3>1, <3>2, <3>5 DEF Told, Kept, SameFetch
    <3> QED BY <3>6 DEF Silent
  <2>2. CASE ~SendHave(c) /\ ~AwaitHave(c)
    BY <2>2 DEF Child, task_download, task_upload, Connect, OpenDisk, ReadPeer, WriteDisk, CheckDigest,
                UnlinkLarge, TryAgain, ReadRequest, SendPeer, FillBuffer
  <2> QED BY <2>1, <2>2
<1>4. Synced /\ UNCHANGED <<toTracker, fromTracker>> => Synced'
  BY <1>0 DEF Synced, Answer
<1>5. ASSUME NEW d \in Children, job'[d].conn = 0, job'[d].pc # "none", \A e \in 1..d - 1 : ~Told(e)'
      PROVE  Right(job[d])'
  <2>1. job'[d].conn = job[d].conn /\ job'[d].checksum = job[d].checksum
        /\ (job[d].conn = 0 => job'[d].filename = job[d].filename) /\ job[d].pc # "none"
    <3>1. CASE d = c
      BY <3>1 DEF ChildFollows, Follows
    <3>2. CASE d # c
      BY <1>5, <3>2 DEF ChildFollows
    <3> QED BY <3>1, <3>2
  <2>2. \A e \in 1..d - 1 : ~Told(e)
    <3>1. Children = 1..Cardinality(Children) /\ Cardinality(Children) \in Nat
      BY FS_CardinalityType, TransferAssumption
    <3>2. \A e \in 1..d - 1 : e \in Children
      BY <3>1
    <3> QED BY <1>1, <1>5, <3>2
  <2>3. Right(job[d])
    BY <1>0, <1>5, <2>1, <2>2 DEF ISure
  <2> QED BY <1>0, <1>5, <2>1, <2>3 DEF Right
<1> QED BY <1>0, <1>2, <1>3, <1>4, <1>5 DEF ISure, Right

---------------------------------------------------------------------------
(* A step of main or of the tracker *)

(* main and the tracker leave the names and what they stand for.           *)
LEMMA QuietNames ==
    ASSUME INames, UNCHANGED <<scene, dir>>,
           \A c \in Children : \/ job'[c] = job[c]
                               \/ SameFetch(job[c], job'[c]) /\ job'[c].said = job[c].said
                                  /\ job[c].pc # "open"
                               \/ (job'[c].disk = <<>> \/ job'[c].conn # 0) /\ job[c].said = {}
    PROVE  INames'
<1>1. TooLarge => TooLarge'
  BY DEF TooLarge
<1> QED BY <1>1 DEF INames, SameFetch

LEMMA QuietFiles ==
    ASSUME IFiles, UNCHANGED <<scene, job, dir>>,
           main'.pc \in {"sum", "sum?", "fork"} =>
              /\ main'.task.disk = <<>> /\ main'.task.digest = <<>>
              /\ main'.task.filename = Head(main'.argv),
           main'.task.checksum \in Sums, fromTracker' = fromTracker \/ fromTracker' = <<>>,
           Silent => Synced', (Silent /\ main'.pc = "fork") => Right(main'.task)
    PROVE  IFetch' /\ INames' /\ ISums' /\ ISure'
<1>1. IFetch'
  BY DEF IFiles, IFetch
<1>2. INames'
  BY QuietNames DEF IFiles
<1>3. ISums'
  BY DEF IFiles, ISums
<1>4. Silent' = Silent /\ \A c \in Children : Told(c)' = Told(c)
  BY DEF Silent, Told, Kept
<1>5. \A c \in Children : (\A d \in 1..c - 1 : ~Told(d)') => \A d \in 1..c - 1 : ~Told(d)
  BY DEF Told, Kept
<1>6. ISure'
  BY <1>4, <1>5 DEF IFiles, ISure, Right
<1> QED BY <1>1, <1>2, <1>3, <1>6

\* What main is before its step.
LEMMA MainIs ==
    ASSUME IFiles
    PROVE  /\ main \in Mains /\ MainOK(main) /\ main.task.checksum \in Sums /\ ITypes
           /\ toTracker \in Seq(Requests) /\ fromTracker \in Seq(Answers) /\ main.argv \in Seq(FileNames)
           /\ main.pc \in {"sum", "sum?", "fork"} =>
                 /\ main.task.disk = <<>> /\ main.task.digest = <<>>
                 /\ main.task.filename = Head(main.argv)
           /\ Silent => Synced
  BY DEF IFiles, IType, ITypes, IStages, IFetch, ISums, ISure, Mains

(* main asks when nothing is on its way, unless a child talks too.         *)
LEMMA AsksFiles ==
    ASSUME IFiles, main.pc \notin Hearing, NEW what, NEW f, Request("main", what, f) \in Requests,
           toTracker' = Append(toTracker, Request("main", what, f)), UNCHANGED fromTracker, Unstirred,
           main'.pc \in Hearing, main'.task = main.task, main'.argv = main.argv,
           main'.pc = "sum?" => main.pc = "sum" /\ what = "MD5SUM" /\ f = Head(main.argv),
           main'.pc = "want?" => what = "WANT" /\ f = Head(main.argv)
    PROVE  IFetch' /\ INames' /\ ISums' /\ ISure'
<1> DEFINE r == Request("main", what, f)
<1>1. Silent => toTracker' = <<r>> /\ fromTracker' = <<>>
  <2>1. Silent => toTracker = <<>> /\ fromTracker = <<>>
    BY MainIs DEF Synced
  <2>2. Append(<<>>, r) = <<r>>
    <3> HIDE DEF r
    <3> QED OBVIOUS
  <2> QED BY <2>1, <2>2
<1>2. /\ main'.pc = "sum?" => r = Request("main", "MD5SUM", Head(main'.argv))
      /\ main'.pc = "want?" => r = Request("main", "WANT", Head(main'.argv))
  OBVIOUS
<1>3. r \in Requests
  OBVIOUS
<1> HIDE DEF r
<1>4. Silent => Synced'
  BY <1>1, <1>2, <1>3 DEF Synced
<1> QED BY <1>4, MainIs, QuietFiles DEF Hearing, Unstirred

(* main takes the only answer there is, unless a child talks too.          *)
LEMMA HearsFiles ==
    ASSUME IFiles, main.pc \in Hearing, NEW m \in Mains, Takes(m), m.pc \notin Hearing,
           m.pc \in {"sum", "fork"} => /\ m.task.disk = <<>> /\ m.task.digest = <<>>
                                       /\ m.task.filename = Head(m.argv),
           m.task.checksum \in Sums, (Silent /\ m.pc = "fork") => Right(m.task)
    PROVE  IFetch' /\ INames' /\ ISums' /\ ISure'
<1>1. main' = m /\ fromTracker # <<>> /\ fromTracker' = <<>> /\ toTracker' = toTracker /\ Unstirred
  BY DEF Takes, TakeAnswers
<1>2. Silent => Synced'
  BY <1>1, MainIs DEF Synced
<1> QED BY <1>1, <1>2, QuietFiles DEF Hearing, Unstirred

LEMMA StaysFiles ==
    ASSUME IFiles, main.pc \notin Hearing, NEW m \in Mains, main' = m, m.pc \notin Hearing,
           m.pc \notin {"sum", "fork"}, UNCHANGED <<toTracker, fromTracker, scene, job, dir>>,
           m.task.checksum \in Sums
    PROVE  IFetch' /\ INames' /\ ISums' /\ ISure'
<1>1. Silent => Synced'
  BY MainIs DEF Synced
<1> QED BY <1>1, QuietFiles DEF Hearing

LEMMA BeginsFiles ==
    ASSUME IFiles, \/ StartTracker \/ Greeting \/ StartListen \/ RegisterAddress \/ AddressAnswer
                   \/ RegisterFile \/ FileAnswer \/ StartServing
    PROVE  IFetch' /\ INames' /\ ISums' /\ ISure'
<1>0. main \in Mains /\ main.task.checksum \in Sums /\ NoName \in FileNames \cup {NoName}
  BY MainIs
<1> USE DEF MainAt, Hearing
<1>1. CASE StartTracker
  <2>1. CASE Sends1("a connection", NoName, "greet?")
    BY <1>0, <1>1, <2>1, AsksFiles DEF StartTracker, Sends1, Mains, Request, Requests
  <2>2. CASE main' = [main EXCEPT !.pc = "dead"] /\ UNCHANGED <<toTracker, fromTracker>> /\ Unstirred
    <3> DEFINE m == [main EXCEPT !.pc = "dead"]
    <3>1. m \in Mains /\ m.pc = "dead" /\ m.task = main.task /\ main' = m
      BY <1>0, <2>2 DEF Mains, MainStages
    <3> HIDE DEF m
    <3> QED BY <1>0, <1>1, <2>2, <3>1, StaysFiles DEF StartTracker, Unstirred
  <2> QED BY <1>1, <2>1, <2>2 DEF StartTracker
<1>2. CASE Greeting
  BY <1>0, <1>2, HearsFiles DEF Greeting, Mains, MainStages
<1>3. CASE StartListen
  <2>1. main' \in Mains
    BY <1>3, Begins DEF IFiles, IType, ITypes
  <2>2. main.pc = "listen" /\ main'.pc \in {"dead", "listen", "addr"} /\ main'.task = main.task
        /\ UNCHANGED <<toTracker, fromTracker>> /\ Unstirred
    BY <1>0, <1>3 DEF StartListen, Mains
  <2> QED BY <1>0, <2>1, <2>2, StaysFiles DEF Unstirred
<1>4. CASE RegisterAddress
  BY <1>0, <1>4, AsksFiles DEF RegisterAddress, Sends1, Mains, Request, Requests
<1>5. CASE AddressAnswer
  <2> DEFINE x == {f \in FileNames : dir[<<f, 0>>] # Free}
             m == IF First.ok THEN [main EXCEPT !.pc = "files", !.files = x]
                  ELSE [main EXCEPT !.pc = "want"]
  <2>1. Takes(m) /\ main.pc = "addr?"
    BY <1>5, Zenon DEF AddressAnswer
  <2>2. x \in SUBSET FileNames
    OBVIOUS
  <2> HIDE DEF x
  <2>3. m \in Mains /\ m.pc \in {"files", "want"} /\ m.task = main.task
    BY <1>0, <2>2 DEF Mains, MainStages
  <2> HIDE DEF m
  <2> QED BY <1>0, <2>1, <2>3, HearsFiles
<1>6. CASE RegisterFile
  <2>1. ASSUME NEW f \in main.files,
               toTracker' = Append(toTracker, Request("main", "HAVE", f)),
               main' = [main EXCEPT !.pc = "file?", !.files = @ \ {f}]
        PROVE  IFetch' /\ INames' /\ ISums' /\ ISure'
    <3>1. f \in FileNames
      BY <1>0 DEF Mains
    <3> QED BY <1>0, <1>6, <2>1, <3>1, AsksFiles DEF RegisterFile, Mains, Request, Requests
  <2>2. CASE main' = [main EXCEPT !.pc = "want"] /\ UNCHANGED toTracker
    BY <1>0, <1>6, <2>2, StaysFiles DEF RegisterFile, Mains, MainStages, Unstirred
  <2> QED BY <1>6, <2>1, <2>2 DEF RegisterFile
<1>7. CASE FileAnswer
  BY <1>0, <1>7, HearsFiles DEF FileAnswer, Mains, MainStages
<1>8. CASE StartServing
  BY <1>0, <1>8, StaysFiles DEF StartServing, Mains, MainStages, Unstirred
<1> QED BY <1>1, <1>2, <1>3, <1>4, <1>5, <1>6, <1>7, <1>8

LEMMA BareTask ==
    ASSUME NEW pc \in Stages
    PROVE  LET t == task_new(pc) IN
           t.disk = <<>> /\ t.digest = <<>> /\ t.checksum = <<>> /\ t.said = {}
  BY DEF task_new

\* The digest in the answer to a request is none or that of a file.
LEMMA AnswerSum ==
    ASSUME IType, NEW r \in Requests
    PROVE  /\ Answer(r).sum \in {<<>>} \cup Contents
           /\ (r.what = "MD5SUM" /\ r.file \in scene.sums) =>
                 Answer(r).ok /\ Answer(r).sum = Content[r.file]
<1>1. r.what = "MD5SUM" => r.file \in FileNames
  BY DEF Requests
<1>2. CASE r.what = "MD5SUM" /\ r.file \in scene.sums
  <2>1. Answer(r).sum = Content[r.file] /\ Answer(r).ok = (r.file \in scene.sums)
    BY <1>2 DEF Answer
  <2> QED BY <1>1, <1>2, <2>1 DEF Contents
<1>3. CASE ~(r.what = "MD5SUM" /\ r.file \in scene.sums)
  <2>1. Answer(r).sum = <<>>
    BY <1>3 DEF Answer
  <2> QED BY <1>3, <2>1
<1> QED BY <1>2, <1>3

LEMMA DownloadsFiles ==
    ASSUME IFiles, Want \/ WantAnswer \/ AskSum \/ SumAnswer
    PROVE  IFetch' /\ INames' /\ ISums' /\ ISure'
<1>0. /\ main \in Mains /\ main.task.checksum \in Sums /\ MainOK(main) /\ main.task \in Tasks
      /\ main.argv \in Seq(FileNames) /\ IType /\ ITypes
  BY MainIs DEF Mains, IFiles
<1> USE DEF MainAt, Hearing
<1>1. CASE Want
  <2>1. Head(main.argv) \in FileNames
    BY <1>0, <1>1 DEF Want
  <2> QED BY <1>0, <1>1, <2>1, AsksFiles DEF Want, Sends1, Mains, Request, Requests
<1>2. CASE AskSum
  <2>1. Head(main.argv) \in FileNames
    BY <1>0, <1>2 DEF AskSum, MainOK
  <2> QED BY <1>0, <1>2, <2>1, AsksFiles DEF AskSum, Sends1, Mains, Request, Requests
<1>3. CASE WantAnswer
  <2>0. main.argv # <<>> /\ Head(main.argv) \in FileNames /\ First \in Answers /\ main.pc = "want?"
    BY <1>0, <1>3, AnswerType DEF WantAnswer, MainOK
  <2> DEFINE new == task_new("connect")
             t == [new EXCEPT !.filename = Head(main.argv), !.peers = Reverse(First.peers)]
             m == [main EXCEPT !.pc = "sum", !.task = t]
             next == NextName(main)
             dead == [main EXCEPT !.pc = "dead"]
  <2>1. next \in Mains /\ next.pc = "want" /\ next.task = main.task
    <3>1. Tail(main.argv) \in Seq(FileNames)
      BY <1>0, <2>0
    <3> QED BY <1>0, <3>1 DEF NextName, Mains, MainStages
  <2>2. dead \in Mains /\ dead.pc = "dead" /\ dead.task = main.task
    BY <1>0 DEF Mains, MainStages
  <2>3. t \in Tasks /\ t.disk = <<>> /\ t.digest = <<>> /\ t.checksum = <<>>
        /\ t.filename = Head(main.argv)
    <3>1. "connect" \in Stages
      BY DEF Stages
    <3>2. new \in Tasks /\ new.disk = <<>> /\ new.digest = <<>> /\ new.checksum = <<>>
      BY <3>1, NewTask, BareTask
    <3>3. Reverse(First.peers) \in Seq(Peers)
      BY <2>0, ReverseType DEF Answers
    <3> HIDE DEF new
    <3> QED BY <2>0, <3>2, <3>3 DEF Tasks
  <2>4. m \in Mains /\ m.pc = "sum" /\ m.task = t /\ m.argv = main.argv
    <3> HIDE DEF t
    <3> QED BY <1>0, <2>3 DEF Mains, MainStages
  <2>5. Takes(next) \/ Takes(dead) \/ Takes(m)
    BY <1>3, Zenon DEF WantAnswer
  <2> HIDE DEF next, dead, m, t
  <2>6. CASE Takes(next)
    BY <1>0, <2>0, <2>1, <2>6, HearsFiles
  <2>7. CASE Takes(dead)
    BY <1>0, <2>0, <2>2, <2>7, HearsFiles
  <2>8. CASE Takes(m)
    <3>1. m.task.checksum \in Sums
      BY <2>3, <2>4 DEF Sums
    <3> QED BY <1>0, <2>0, <2>3, <2>4, <2>8, <3>1, HearsFiles
  <2> QED BY <2>5, <2>6, <2>7, <2>8
<1>4. CASE SumAnswer
  <2>0. First \in Answers /\ main.pc = "sum?" /\ fromTracker # <<>> /\ main.argv # <<>>
    BY <1>0, <1>4, AnswerType DEF SumAnswer, MainOK
  <2>1. First.sum \in {<<>>} \cup Contents
    <3>1. fromTracker \in Seq(Answers)
      BY MainIs
    <3>2. 1 \in DOMAIN fromTracker /\ First = fromTracker[1]
      BY <2>0, <3>1 DEF First
    <3> QED BY <3>2 DEF IFiles, ISums
  <2>2. Leftovers \subseteq Sums
    BY DEF Leftovers, IFiles, ISums, Sums
  <2>3. Silent /\ Head(main.argv) \in scene.sums =>
           First.ok /\ First.sum = Content[Head(main.argv)]
    <3>1. ASSUME Silent, Head(main.argv) \in scene.sums
          PROVE  First.ok /\ First.sum = Content[Head(main.argv)]
      <4>1. PICK r \in Requests : /\ r = Request("main", "MD5SUM", Head(main.argv))
                                  /\ fromTracker = <<Answer(r)>>
        BY <2>0, <3>1, MainIs DEF Synced
      <4>2. First = Answer(r)
        BY <4>1 DEF First
      <4>3. r.what = "MD5SUM" /\ r.file = Head(main.argv)
        BY <4>1 DEF Request
      <4> QED BY <1>0, <3>1, <4>2, <4>3, AnswerSum
    <3> QED BY <3>1
  <2>4. PICK s \in (IF ~First.ok THEN Leftovers ELSE IF First.sum = <<>> THEN {NoDigest} ELSE {First.sum}) :
           Takes([main EXCEPT !.pc = "fork", !.task.checksum = s])
    BY <1>4, Zenon DEF SumAnswer
  <2>5. s \in Sums /\ ((Silent /\ Head(main.argv) \in scene.sums)
                          => \/ s = Content[Head(main.argv)]
                             \/ s = NoDigest /\ Content[Head(main.argv)] = <<>>)
    <3>1. CASE ~First.ok
      BY <2>2, <2>3, <2>4, <3>1
    <3>2. CASE First.ok
      BY <2>1, <2>3, <2>4, <3>2 DEF Sums
    <3> QED BY <3>1, <3>2
  <2> DEFINE t == [main.task EXCEPT !.checksum = s]
             m == [main EXCEPT !.pc = "fork", !.task = t]
  <2>6. s \in Seq(Digits)
    <3>1. NoDigest \in Seq(Digits) /\ <<>> \in Seq(Digits)
      BY Bytes1 DEF NoDigest
    <3>2. Contents \subseteq Seq(Digits)
      BY Bytes1 DEF Contents
    <3> QED BY <2>5, <3>1, <3>2 DEF Sums
  <2>7. t \in Tasks /\ t.checksum = s /\ t.disk = <<>> /\ t.digest = <<>> /\ t.filename = Head(main.argv)
    BY <1>0, <2>0, <2>6, MainIs DEF Tasks
  <2>8. m \in Mains /\ m.pc = "fork" /\ m.task = t /\ m.argv = main.argv
    <3> HIDE DEF t
    <3> QED BY <1>0, <2>7 DEF Mains, MainStages
  <2>9. Takes(m)
    BY <2>4
  <2> HIDE DEF t, m
  <2>10. Silent => Right(m.task)
    BY <2>5, <2>7, <2>8 DEF Right
  <2> QED BY <1>0, <2>0, <2>5, <2>7, <2>8, <2>9, <2>10, HearsFiles
<1> QED BY <1>1, <1>2, <1>3, <1>4

LEMMA AcceptFiles == ASSUME IFiles, Accept PROVE IFetch' /\ INames' /\ ISums' /\ ISure'
<1> DEFINE new == task_new("request")
           t == [new EXCEPT !.conn = Head(waiting)]
           m == [main EXCEPT !.pc = "serve", !.task = t]
<1>0. /\ main \in Mains /\ main.pc = "accept" /\ main' = m /\ waiting # <<>> /\ waiting \in Seq(Conns)
      /\ UNCHANGED <<scene, transferVars>>
  BY MainIs DEF Accept, MainAt, ITypes
<1>1. t \in Tasks /\ t.checksum = <<>>
  <2>1. "request" \in Stages
    BY DEF Stages
  <2>2. new \in Tasks /\ new.checksum = <<>>
    BY <2>1, NewTask, BareTask
  <2>3. Head(waiting) \in Conns
    BY <1>0
  <2> HIDE DEF new
  <2> QED BY <2>2, <2>3 DEF Tasks
<1>2. m \in Mains /\ m.pc = "serve" /\ m.task = t
  <2> HIDE DEF t
  <2> QED BY <1>0, <1>1 DEF Mains, MainStages
<1> HIDE DEF t, m
<1> QED BY <1>0, <1>1, <1>2, StaysFiles DEF Hearing, transferVars, Sums

(* A child has the task that main made ready, and its checksum is its own  *)
(* when no child before it has told the tracker of its file.               *)
LEMMA ForkFiles ==
    ASSUME IFiles, ForkDownload \/ ForkUpload PROVE IFetch' /\ INames' /\ ISums' /\ ISure'
<1> DEFINE n == NextChild
           t == main.task
<1>0. /\ UNCHANGED <<scene, dir, toTracker, fromTracker>>
      /\ main \in Mains /\ t \in Tasks /\ t.checksum \in Sums /\ job \in [Children -> Tasks] /\ IType
      /\ Silent => Synced
  BY MainIs DEF ForkDownload, ForkUpload, IFiles, ITypes, Mains
<1>1. /\ Fresh(t) /\ StageOK(t)
      /\ \/ /\ main.pc = "fork" /\ t.pc = "connect" /\ t.conn = 0
            /\ t.disk = <<>> /\ t.digest = <<>>
         \/ main.pc = "serve" /\ t.pc = "request" /\ t.conn # 0
  BY <1>0, MainIs, TransferAssumption
     DEF ForkDownload, ForkUpload, MainAt, MainOK, StageOK, Downloading, Uploading
<1>2. main'.pc \in {"want", "accept", "wait"} /\ main'.task = t
  BY <1>0 DEF ForkDownload, ForkUpload, Fork, NextName, Mains
<1>3. Silent => toTracker' = <<>> /\ fromTracker' = <<>>
  BY <1>0, <1>1 DEF Synced, Hearing
<1>4. CASE UNCHANGED job
  <2>1. Silent => Synced'
    BY <1>2, <1>3 DEF Synced, Hearing
  <2> HIDE DEF t
  <2> QED BY <1>0, <1>2, <1>4, <2>1, QuietFiles
<1>5. CASE job' = [job EXCEPT ![n] = t]
  <2>1. n \notin Started /\ n \in Nat \ {0} /\ Started = 1..n - 1
    <3>1. Cardinality(Started) = n - 1
      BY <1>0, StartedIs DEF NextChild
    <3> QED BY <1>0, <3>1, StartedIs
  <2> HIDE DEF n, t
  <2>2. \A d \in Children : job'[d] = IF d = n THEN t ELSE job[d]
    BY <1>0, <1>5
  <2>3. n \in Children => job[n].pc = "none"
    BY <2>1 DEF Started
  <2>4. n \in Children => job[n].said = {}
    BY <2>3 DEF IFiles, IFetch
  <2>5. t.conn = 0 => FetchOK(t)
    <3>1. ASSUME t.conn = 0
          PROVE  t.pc = "connect" /\ t.disk = <<>> /\ t.digest = <<>> /\ t.buffer = NewBuffer /\ t.said = {}
      BY <1>1, <3>1 DEF Fresh
    <3>2. NewBuffer.head = 0 /\ NewBuffer.tail = 0
      BY DEF NewBuffer
    <3> QED BY <3>1, <3>2 DEF FetchOK, Keeping
  <2>6. IFetch'
    BY <1>1, <1>2, <2>2, <2>5 DEF IFiles, IFetch, Fresh
  <2>7. INames'
    <3>1. \A d \in Children : \/ job'[d] = job[d]
                              \/ (job'[d].disk = <<>> \/ job'[d].conn # 0) /\ job[d].said = {}
      BY <1>1, <2>2, <2>4
    <3> QED BY <1>0, <3>1, QuietNames DEF IFiles
  <2>8. ISums'
    BY <1>0, <1>2, <2>2 DEF IFiles, ISums
  <2>9. \A d \in Children : ~Told(d)' => ~Told(d)
    <3>1. n \in Children => ~Told(n)
      BY <2>3 DEF Told, Kept
    <3> QED BY <2>2, <3>1 DEF Told, Kept
  <2>10. Silent' => Silent
    BY <2>9 DEF Silent
  <2>11. Children = 1..Cardinality(Children) /\ Cardinality(Children) \in Nat
    BY FS_CardinalityType, TransferAssumption
  <2>12. ASSUME NEW c \in Children, job'[c].conn = 0, job'[c].pc # "none", \A d \in 1..c - 1 : ~Told(d)'
         PROVE  Right(job[c])'
    <3>1. \A d \in 1..c - 1 : d \in Children
      BY <2>11
    <3>2. \A d \in 1..c - 1 : ~Told(d)
      BY <2>9, <2>12, <3>1
    <3>3. CASE c # n
      <4>1. Right(job[c])
        BY <2>2, <2>12, <3>2, <3>3 DEF IFiles, ISure
      <4> QED BY <1>0, <2>2, <3>3, <4>1 DEF Right
    <3>4. CASE c = n
      <4>1. ASSUME NEW d \in Children PROVE ~Told(d)
        <5>1. CASE d \in Started
          BY <2>1, <3>2, <3>4, <5>1
        <5>2. CASE d \notin Started
          BY <5>2 DEF Started, Told, Kept
        <5> QED BY <5>1, <5>2
      <4>2. Silent
        BY <4>1 DEF Silent
      <4>3. main.pc = "fork"
        BY <1>1, <2>2, <2>12, <3>4
      <4>4. Right(t)
        BY <4>2, <4>3 DEF IFiles, ISure, t
      <4> QED BY <1>0, <2>2, <3>4, <4>4 DEF Right
    <3> QED BY <3>3, <3>4
  <2>13. Silent' => Synced'
    BY <1>2, <1>3, <2>10 DEF Synced, Hearing
  <2>14. ISure'
    BY <1>2, <2>12, <2>13 DEF ISure
  <2> QED BY <2>6, <2>7, <2>8, <2>14
<1> QED BY <1>4, <1>5 DEF ForkDownload, ForkUpload, Fork

LEMMA WaitFiles == ASSUME IFiles, WaitForOne PROVE IFetch' /\ INames' /\ ISums' /\ ISure'
<1>0. /\ UNCHANGED <<scene, dir, toTracker, fromTracker>> /\ main \in Mains
      /\ main.task.checksum \in Sums /\ job \in [Children -> Tasks] /\ IType
      /\ Silent => Synced
  BY MainIs DEF WaitForOne, IFiles, ITypes
<1>1. main.pc = "wait" /\ main'.pc \in {"want", "accept"} /\ main'.task = main.task
  BY <1>0 DEF WaitForOne, MainAt, Mains
<1>2. Silent => toTracker' = <<>> /\ fromTracker' = <<>>
  BY <1>0, <1>1 DEF Synced, Hearing
<1>3. CASE UNCHANGED job
  <2>1. Silent => Synced'
    BY <1>1, <1>2 DEF Synced, Hearing
  <2> QED BY <1>0, <1>1, <1>3, <2>1, QuietFiles
<1>4. ASSUME NEW c \in Children, job[c].pc = "ended", job' = [job EXCEPT ![c].pc = "reaped"]
      PROVE  IFetch' /\ INames' /\ ISums' /\ ISure'
  <2> DEFINE u == [job[c] EXCEPT !.pc = "reaped"]
  <2>1. SameFetch(job[c], u) /\ u.pc = "reaped" /\ u.said = job[c].said
    <3>1. job[c] \in Tasks /\ "reaped" \in Stages
      BY <1>0 DEF Stages
    <3> QED BY <3>1, PcFetch
  <2>2. job' = [job EXCEPT ![c] = u]
    BY <1>4
  <2> HIDE DEF u
  <2>3. \A d \in Children : job'[d] = IF d = c THEN u ELSE job[d]
    BY <1>0, <2>2
  <2>4. FetchOK(job[c]) => FetchOK(u)
    <3>1. Moves(job[c], u.pc) /\ job[c] \in Tasks
      BY <1>0, <1>4, <2>1 DEF Moves
    <3> QED BY <2>1, <3>1, StageFetch
  <2>5. IFetch'
    BY <1>1, <2>1, <2>3, <2>4 DEF IFiles, IFetch, SameFetch
  <2>6. INames'
    BY <1>0, <1>4, <2>1, <2>3, QuietNames DEF IFiles
  <2>7. ISums'
    BY <1>0, <1>1, <2>1, <2>3 DEF IFiles, ISums, SameFetch
  <2>8. \A d \in Children : Told(d)' = Told(d)
    BY <1>4, <2>1, <2>3 DEF Told, Kept, SameFetch
  <2>9. Silent' => Synced'
    BY <1>1, <1>2, <2>8 DEF Silent, Synced, Hearing
  <2>10. Children = 1..Cardinality(Children) /\ Cardinality(Children) \in Nat
    BY FS_CardinalityType, TransferAssumption
  <2>11. ASSUME NEW d \in Children, job'[d].conn = 0, job'[d].pc # "none", \A e \in 1..d - 1 : ~Told(e)'
         PROVE  Right(job[d])'
    <3>1. \A e \in 1..d - 1 : e \in Children
      BY <2>10
    <3>2. \A e \in 1..d - 1 : ~Told(e)
      BY <2>8, <2>11, <3>1
    <3>3. job[d].conn = 0 /\ job[d].pc # "none"
      BY <1>4, <2>1, <2>3, <2>11 DEF SameFetch
    <3>4. Right(job[d])
      BY <3>2, <3>3 DEF IFiles, ISure
    <3> QED BY <1>0, <2>1, <2>3, <3>4 DEF Right, SameFetch
  <2>12. ISure'
    BY <1>1, <2>9, <2>11 DEF ISure
  <2> QED BY <2>5, <2>6, <2>7, <2>12
<1> QED BY <1>3, <1>4 DEF WaitForOne, Unreaped, Started

LEMMA TrackerFiles == ASSUME IFiles, Tracker PROVE IFetch' /\ INames' /\ ISums' /\ ISure'
<1> DEFINE r == Head(toTracker)
           a == Answer(r)
<1>0. /\ UNCHANGED <<scene, main, job, dir>> /\ toTracker # <<>> /\ toTracker' = Tail(toTracker)
      /\ fromTracker' = Append(fromTracker, a) /\ IType
      /\ toTracker \in Seq(Requests) /\ fromTracker \in Seq(Answers)
      /\ Silent => Synced
  BY MainIs DEF Tracker, IFiles
<1>1. r \in Requests /\ a.sum \in {<<>>} \cup Contents
  BY <1>0, AnswerSum
<1>2. IFetch' /\ INames'
  BY <1>0, QuietNames DEF IFiles, IFetch
<1>3. ISums'
  <2>1. a \in Answers
    BY <1>0, <1>1, AnswersType
  <2> HIDE DEF a
  <2>2. \A i \in DOMAIN fromTracker' : fromTracker'[i] = a \/ (i \in DOMAIN fromTracker /\ fromTracker'[i] = fromTracker[i])
    BY <1>0, <2>1
  <2> QED BY <1>0, <1>1, <2>2 DEF IFiles, ISums
<1>4. Silent => Synced'
  <2>1. ASSUME Silent PROVE Synced'
    <3>1. PICK q \in Requests :
             /\ main.pc \in Hearing
             /\ main.pc = "sum?" => q = Request("main", "MD5SUM", Head(main.argv))
             /\ main.pc = "want?" => q = Request("main", "WANT", Head(main.argv))
             /\ toTracker = <<q>> /\ fromTracker = <<>>
      BY <1>0, <2>1 DEF Synced
    <3>2. r = q /\ toTracker' = <<>>
      BY <1>0, <3>1
    <3>3. Append(<<>>, a) = <<a>>
      <4> HIDE DEF a
      <4> QED OBVIOUS
    <3>4. fromTracker' = <<Answer(q)>>
      BY <1>0, <3>1, <3>2, <3>3
    <3>5. Answer(q)' = Answer(q)
      BY <1>0 DEF Answer
    <3>6. fromTracker' = <<Answer(q)'>>
      BY <3>4, <3>5
    <3> QED BY <1>0, <3>1, <3>2, <3>6 DEF Synced
  <2> QED BY <2>1
<1>5. Silent' = Silent /\ \A c \in Children : Told(c)' = Told(c)
  BY <1>0 DEF Silent, Told, Kept
<1>6. \A c \in Children : (\A d \in 1..c - 1 : ~Told(d)') => \A d \in 1..c - 1 : ~Told(d)
  BY <1>0 DEF Told, Kept
<1>7. ISure'
  BY <1>0, <1>4, <1>5, <1>6 DEF IFiles, ISure, Right
<1> QED BY <1>2, <1>3, <1>7

---------------------------------------------------------------------------
(* Every behaviour *)

LEMMA InitFiles == ASSUME Init PROVE IFiles
<1> DEFINE none == task_new("none")
           new == task_new("connect")
<1>0. IType /\ job \in [Children -> Tasks] /\ scene \in Scenes
  <2>1. IType
    BY InitTypes
  <2> QED BY <2>1 DEF IType, ITypes
<1>1. /\ none.conn = 0 /\ none.pc = "none" /\ none.disk = <<>> /\ none.digest = <<>>
      /\ none.checksum = <<>> /\ none.said = {} /\ new.checksum = <<>>
  <2>1. "none" \in Stages /\ "connect" \in Stages
    BY DEF Stages
  <2> QED BY <2>1, NewTask, BareTask
<1>2. /\ \A c \in Children : job[c] = none
      /\ main.task = new /\ main.pc = "start" /\ toTracker = <<>> /\ fromTracker = <<>>
      /\ dir = [n \in Names |-> IF n \in scene.local THEN Old ELSE Free]
  BY DEF Init
<1> HIDE DEF none, new
<1>3. IFetch
  BY <1>1, <1>2 DEF IFetch, FetchOK, Keeping
<1>4. INames
  <2>1. scene.local \subseteq Names
    BY <1>0, SceneAssumption, Zenon
  <2> QED BY <1>1, <1>2, <2>1 DEF INames
<1>5. ISums
  BY <1>1, <1>2 DEF ISums, Sums
<1>6. ISure
  BY <1>1, <1>2 DEF ISure, Synced, Hearing
<1> QED BY <1>0, <1>3, <1>4, <1>5, <1>6 DEF IFiles

LEMMA NextFiles == ASSUME IFiles, [Next]_vars PROVE IFiles'
<1>1. IType'
  BY NextTypes DEF IFiles
<1>2. CASE Main
  BY <1>1, <1>2, BeginsFiles, DownloadsFiles, ForkFiles, WaitFiles, AcceptFiles DEF Main, IFiles
<1>3. CASE AChild
  <2>1. PICK c \in Children : Child(c) /\ UNCHANGED peerVars
    BY <1>3 DEF AChild
  <2>2. ChildFollows(c)
    BY <2>1, ChildOf DEF IFiles
  <2>3. IFetch'
    BY <2>1, <2>2, ChildFetch DEF IFiles, peerVars
  <2> QED BY <1>1, <2>1, <2>2, <2>3, ChildNames, ChildSums, ChildSure DEF IFiles
<1>4. CASE Tracker
  BY <1>1, <1>4, TrackerFiles DEF IFiles
<1>5. CASE UNCHANGED vars
  <2>1. UNCHANGED <<scene, main, job, dir, toTracker, fromTracker>>
    BY <1>5 DEF vars, peerVars, transferVars
  <2>2. Silent => Synced'
    BY <2>1, MainIs DEF Synced, Answer
  <2>3. (Silent /\ main.pc = "fork") => Right(main.task)
    BY DEF IFiles, ISure
  <2> QED BY <1>1, <2>1, <2>2, <2>3, MainIs, QuietFiles DEF IFiles
<1> QED BY <1>2, <1>3, <1>4, <1>5 DEF Next, Resting

LEMMA WholeEnd ==
    ASSUME NEW S, NEW s \in Seq(S), NEW t \in Seq(S)
    PROVE  IsSuffix(t, s \o t)
<1> DEFINE w == s \o t
           a == Reverse(t)
           b == Reverse(w)
<1>1. w \in Seq(S) /\ Len(w) = Len(s) + Len(t) /\ Len(s) \in Nat /\ Len(t) \in Nat
      /\ \A i \in 1..Len(t) : w[Len(s) + i] = t[i]
  OBVIOUS
<1> HIDE DEF w
<1>2. /\ a \in Seq(S) /\ Len(a) = Len(t) /\ \A i \in 1..Len(t) : a[i] = t[(Len(t) - i) + 1]
      /\ b \in Seq(S) /\ Len(b) = Len(w) /\ \A i \in 1..Len(w) : b[i] = w[(Len(w) - i) + 1]
  <2>1. a \in Seq(S) /\ b \in Seq(S)
    BY <1>1, ReverseType
  <2>2. \A x \in Seq(S) : Len(Reverse(x)) = Len(x) /\ \A i \in 1..Len(x) : Reverse(x)[i] = x[(Len(x) - i) + 1]
    BY DEF Reverse
  <2> QED BY <1>1, <2>1, <2>2
<1>3. \A i \in 1..Len(a) : a[i] = b[i]
  <2>1. ASSUME NEW i \in 1..Len(t) PROVE t[(Len(t) - i) + 1] = w[(Len(w) - i) + 1]
    <3>1. (Len(t) - i) + 1 \in 1..Len(t) /\ (Len(w) - i) + 1 = Len(s) + ((Len(t) - i) + 1)
      BY <1>1
    <3> QED BY <1>1, <3>1
  <2>2. \A i \in 1..Len(t) : i \in 1..Len(w)
    BY <1>1
  <2> QED BY <1>2, <2>1, <2>2
<1>4. Len(a) <= Len(b)
  BY <1>1, <1>2
<1> HIDE DEF a, b
<1>5. SubSeq(a, 1, Len(a)) = SubSeq(b, 1, Len(a))
  <2>1. Len(a) \in Nat /\ Len(a) \in 0..Len(b) /\ Len(a) \in 0..Len(a)
    BY <1>2, <1>4
  <2>2. /\ SubSeq(a, 1, Len(a)) = [i \in 1..Len(a) |-> a[i]]
        /\ SubSeq(b, 1, Len(a)) = [i \in 1..Len(a) |-> b[i]]
    BY <1>2, <1>4, <2>1
  <2> QED BY <1>3, <2>2
<1>6. IsPrefix(a, b)
  BY <1>4, <1>5 DEF IsPrefix
<1> QED BY <1>6 DEF IsSuffix, a, b, w

(* A child that keeps its file has fetched what the digest says, and only  *)
(* one that is too large takes its name from it.                           *)
LEMMA KeptIs ==
    ASSUME IFiles, NEW c \in Children, Kept(c)
    PROVE  \E f \in FileNames :
             /\ Sure(c) => f = job[c].filename
             /\ IsSuffix(Saved(c), Content[f])
             /\ \/ Saved(c) = Content[f]
                \/ \E k \in 1..Len(job[c].data) - 1 : job[c].data[k] # <<>>
             /\ \/ dir[job[c].disk] = <<c, Len(job[c].data)>>
                \/ \E d \in Children \ {c} : "size" \in job[d].said
                \/ Len(Content[f]) > MAX_FILESIZE
<1> DEFINE j == job[c]
<1>0. j \in Tasks /\ FetchOK(j) /\ j.conn = 0 /\ Keeping(j) /\ j.pc # "none" /\ j.checksum \in Sums
  BY DEF IFiles, IType, ITypes, IFetch, ISums, Kept, Keeping
<1> HIDE DEF j
<1>1. Getting(j) /\ j.buffer.head = j.buffer.tail /\ Newest(j) # <<>> /\ j.digest = j.checksum
  BY <1>0 DEF FetchOK
<1>2. /\ j.data # <<>> /\ Newest(j) \in Seq(Digits) /\ Held(j.buffer) \in Seq(Digits)
      /\ Len(Held(j.buffer)) = 0 /\ Len(j.data) \in Nat
  BY <1>0, <1>1, NewestType DEF Getting
<1>3. Body(j) = Newest(j)
  BY <1>2, EmptySeq, EmptyJoin DEF Body
<1>4. PICK earlier \in Seq(Digits) : /\ j.checksum = earlier \o Newest(j)
                                     /\ earlier # <<>> => Filled(j.data, Len(j.data) - 1)
  BY <1>1, <1>3 DEF Getting
<1>5. Newest(j) \in Seq(Digits \ {0})
  BY <1>1, <1>3 DEF Getting
<1>6. j.checksum # <<>> /\ j.checksum # NoDigest
  <2>1. /\ Len(j.checksum) = Len(earlier) + Len(Newest(j)) /\ Len(Newest(j)) \in Nat \ {0}
        /\ j.checksum[Len(earlier) + Len(Newest(j))] = Newest(j)[Len(Newest(j))]
    <3> DEFINE e == Newest(j)
    <3>1. e \in Seq(Digits) /\ e # <<>>
      BY <1>1, <1>2
    <3> HIDE DEF e
    <3> QED BY <1>4, <3>1 DEF e
  <2>2. Newest(j)[Len(Newest(j))] # 0
    BY <1>5, <2>1
  <2>3. Len(<<>>) = 0 /\ Len(NoDigest) = 1 /\ NoDigest[1] = 0
    BY DEF NoDigest
  <2>4. Len(earlier) \in Nat
    OBVIOUS
  <2> QED BY <2>1, <2>2, <2>3, <2>4
<1>7. PICK f \in FileNames : j.checksum = Content[f] /\ (Sure(c) => f = j.filename)
  <2>1. PICK g \in FileNames : j.checksum = Content[g]
    BY <1>0, <1>6 DEF Sums, Contents
  <2>2. CASE Sure(c)
    <3>1. Right(j)
      BY <1>0, <2>2 DEF IFiles, ISure, Sure, j
    <3>2. j.filename \in FileNames /\ j.filename \in scene.sums
      BY <1>1, <2>2 DEF Getting, Sure, j
    <3> QED BY <1>6, <3>1, <3>2 DEF Right
  <2> QED BY <2>1, <2>2
<1>8. Saved(c) = Newest(j)
  BY DEF Saved, Newest, j
<1>9. IsSuffix(Saved(c), Content[f])
  BY <1>2, <1>4, <1>7, <1>8, WholeEnd
<1>10. Saved(c) = Content[f] \/ \E k \in 1..Len(j.data) - 1 : j.data[k] # <<>>
  <2>1. earlier = <<>> => Saved(c) = Content[f]
    BY <1>2, <1>4, <1>7, <1>8, EmptyJoin
  <2> QED BY <1>4, <2>1 DEF Filled
<1>11. \/ dir[j.disk] = <<c, Len(j.data)>>
       \/ \E d \in Children \ {c} : "size" \in job[d].said
       \/ Len(Content[f]) > MAX_FILESIZE
  <2>1. dir[j.disk] = <<c, Len(j.data)>> \/ TooLarge
    BY <1>0, <1>1 DEF IFiles, INames, Kept, Keeping, Getting, j
  <2>2. "size" \in j.said => Len(Content[f]) > MAX_FILESIZE
    BY <1>0, <1>1, <1>7 DEF FetchOK
  <2> QED BY <2>1, <2>2 DEF TooLarge, j
<1> QED BY <1>7, <1>9, <1>10, <1>11 DEF j

(* A file that a child keeps is the one it was to fetch (task_download, the*)
(* check of the digest before HAVE is sent), unless main may have read an  *)
(* answer that was not its own or an earlier peer sent the beginning; no   *)
(* file that was there before is touched, and only one that is too large   *)
(* is ever unlinked under the name of another.                             *)
THEOREM FilesKeptCorrect == Spec => []FilesKept
<1>1. Spec => []IFiles
  BY InitFiles, NextFiles, PTL DEF Spec
<1>2. ASSUME IFiles PROVE FilesKept
  <2>1. \A n \in scene.local : dir[n] = Old
    BY <1>2 DEF IFiles, INames
  <2> QED BY <1>2, <2>1, KeptIs DEF FilesKept
<1> QED BY <1>1, <1>2, PTL
---------------------------------------------------------------------------
(* A download that comes to a good peer *)

\* The first peer that a download of f can reach is the i-th of the list, and good.
Lucky(f, i) ==
    /\ f \in FileNames /\ Len(Content[f]) \in 1..MAX_FILESIZE
    /\ GoodFirst(f, i)

\* The peers that are left are the first ones of the list, from the end.
LeftOf(peers, list) ==
    /\ Len(peers) <= Len(list)
    /\ \A k \in 1..Len(peers) : peers[k] = list[(Len(peers) - k) + 1]

\* The download on its way to the peer at i, with it, and after it.
Going(j, i, list, content) ==
    /\ j.checksum = content /\ LeftOf(j.peers, list)
    /\ j.pc \in {"connect", "retry"} => j.digest = <<>>
    /\ j.pc = "connect" => Len(j.peers) >= i
    /\ j.pc = "retry" => Len(j.peers) > i
    /\ j.pc = "open" => Len(j.peers) = i /\ j.digest = <<>> /\ j.pos = 0
    /\ j.pc \in {"read", "write", "check"} =>
          /\ Len(j.peers) = i /\ j.pos <= Len(content) /\ j.buffer.tail = j.pos
          /\ j.digest = SubSeq(content, 1, j.pos)
    /\ j.pc = "check" => j.pos = Len(content)
    /\ j.pc \in {"have", "await", "ended", "reaped"} => j.disk # <<>>
    /\ j.pc # "unlink"

FirstOK(j) ==
    \A i : (Lucky(j.filename, i) /\ j.said \cap {"slow", "names"} = {}) =>
              Going(j, i, scene.lists[j.filename], Content[j.filename])

\* The task that main makes ready, when the answer that it read was its own.
MainFirst ==
    (Silent /\ main.pc \in {"sum", "sum?", "fork"}) =>
       main.task.peers = Reverse(scene.lists[main.task.filename])

KidsFirst ==
    \A c \in Children : (job[c].conn = 0 /\ job[c].pc # "none" /\ Sure(c)) => FirstOK(job[c])

IFirst == MainFirst /\ KidsFirst

LEMMA LuckyIs ==
    ASSUME ITypes, NEW f, NEW i, Lucky(f, i), NEW L, L = scene.lists[f]
    PROVE  /\ f \in FileNames /\ L \in Seq(Peers) /\ i \in 1..Len(L) /\ Reach[L[i]] = "up"
           /\ \A k \in 1..Len(L) : Reach[L[k]] \in {"up", "flaky"} => k <= i
           /\ Content[f] \in Seq(Digits) /\ Len(Content[f]) \in 1..MAX_FILESIZE /\ MAX_FILESIZE \in Nat
           /\ Serves[L[i]][f].stream = Content[f] /\ Serves[L[i]][f].then = "end"
<1>1. f \in FileNames /\ L \in Seq(Peers)
  BY SceneIs DEF Lucky
<1>2. Content[f] \in Seq(Digits) /\ MAX_FILESIZE \in Nat
  BY <1>1, Bytes1, TransferAssumption
<1>3. DOMAIN L = 1..Len(L)
  BY <1>1
<1>4. Reachable(f) = {k \in 1..Len(L) : Reach[L[k]] \in {"up", "flaky"}}
  BY <1>3 DEF Reachable
<1>5. /\ i \in Reachable(f) /\ \A k \in Reachable(f) : k <= i
      /\ Reach[L[i]] = "up" /\ Serves[L[i]][f] = [stream |-> Content[f], then |-> "end"]
  BY DEF Lucky, GoodFirst, Good
<1> QED BY <1>1, <1>2, <1>4, <1>5 DEF Lucky

\* The peer that a download talks to.
LEMMA PeerIs ==
    ASSUME NEW peers \in Seq(Peers), peers # <<>>, NEW L \in Seq(Peers), LeftOf(peers, L)
    PROVE  Head(peers) = L[Len(peers)] /\ Len(peers) \in 1..Len(L)
<1>1. Len(peers) \in Nat \ {0} /\ Head(peers) = peers[1] /\ Len(L) \in Nat
  BY EmptySeq
<1> QED BY <1>1 DEF LeftOf

\* What else a download needs to know of its task.
SameGoing(t, u) == SameFetch(t, u) /\ u.peers = t.peers /\ u.pos = t.pos

LEMMA PcGoing ==
    ASSUME NEW t \in Tasks, NEW p \in Stages
    PROVE  LET u == [t EXCEPT !.pc = p] IN SameGoing(t, u) /\ u.pc = p /\ u.said = t.said
  BY DEF Tasks, SameFetch, SameGoing

LEMMA SaysGoing ==
    ASSUME NEW t \in Tasks, NEW w, NEW p \in Stages
    PROVE  LET u == [Says(t, w) EXCEPT !.pc = p] IN u.pc = p /\ w \in u.said
  BY DEF Tasks, Says

LEMMA ConnectGoing ==
    ASSUME ITypes, NEW c \in Children, FetchOK(job[c]), Connect(c), NEW f, f = job[c].filename,
           NEW i, Lucky(f, i), NEW L, L = scene.lists[f], Going(job[c], i, L, Content[f])
    PROVE  Going(job'[c], i, L, Content[f])
<1> DEFINE t == job[c]
<1>0. t \in Tasks /\ t.pc = "connect" /\ t.peers \in Seq(Peers)
  BY DEF ITypes, Connect, At, Tasks
<1>1. /\ L \in Seq(Peers) /\ i \in 1..Len(L) /\ Reach[L[i]] = "up"
      /\ \A k \in 1..Len(L) : Reach[L[k]] \in {"up", "flaky"} => k <= i
  BY LuckyIs
<1>2. Len(t.peers) >= i /\ LeftOf(t.peers, L) /\ t.digest = <<>> /\ t.checksum = Content[f]
      /\ t.buffer.tail = 0
  BY <1>0 DEF Going, FetchOK
<1>3. t.peers # <<>>
  BY <1>1, <1>2
<1>4. Peer(t) = L[Len(t.peers)] /\ Len(t.peers) \in 1..Len(L)
  BY <1>0, <1>1, <1>2, <1>3, PeerIs DEF Peer
<1>5. CASE Reach[Peer(t)] # "up" /\ Becomes(c, [t EXCEPT !.pc = "retry"])
  <2>1. Len(t.peers) > i
    BY <1>1, <1>2, <1>4, <1>5
  <2> DEFINE u == [t EXCEPT !.pc = "retry"]
  <2>2. SameGoing(t, u) /\ u.pc = "retry"
    BY <1>0, PcGoing DEF Stages
  <2>3. job'[c] = u
    BY <1>5, Becoming
  <2> HIDE DEF u, t
  <2> QED BY <1>2, <2>1, <2>2, <2>3 DEF Going, SameGoing, SameFetch
<1>6. CASE /\ Reach[Peer(t)] \in {"up", "flaky"}
           /\ Becomes(c, [t EXCEPT !.pc = "open", !.tries = 0, !.pos = 0, !.rate = NewSamples, !.j = 0])
  <2> DEFINE u == [t EXCEPT !.pc = "open", !.tries = 0, !.pos = 0, !.rate = NewSamples, !.j = 0]
  <2>1. Len(t.peers) = i
    BY <1>1, <1>2, <1>4, <1>6
  <2>2. job'[c] = u
    BY <1>6, Becoming
  <2> HIDE DEF t
  <2>3. u.pc = "open" /\ u.pos = 0 /\ u.peers = t.peers /\ u.digest = t.digest /\ u.checksum = t.checksum
    BY <1>0 DEF Tasks
  <2> HIDE DEF u
  <2> QED BY <1>2, <2>1, <2>2, <2>3 DEF Going
<1> QED BY <1>3, <1>5, <1>6 DEF Connect

LEMMA OpenGoing ==
    ASSUME ITypes, NEW c \in Children, FetchOK(job[c]), OpenDisk(c), NEW f, f = job[c].filename,
           NEW i, Lucky(f, i), NEW L, L = scene.lists[f], Going(job[c], i, L, Content[f]),
           "names" \notin job'[c].said
    PROVE  Going(job'[c], i, L, Content[f])
<1> DEFINE t == job[c]
           n == <<t.filename, t.tries>>
<1>0. t \in Tasks /\ t.pc = "open" /\ t.buffer.tail = 0
  BY DEF ITypes, OpenDisk, At, FetchOK
<1>1. Len(t.peers) = i /\ LeftOf(t.peers, L) /\ t.digest = <<>> /\ t.checksum = Content[f] /\ t.pos = 0
  BY <1>0 DEF Going
<1>2. CASE Becomes(c, [t EXCEPT !.tries = t.tries + 1, !.disk = n])
  <2> DEFINE u == [t EXCEPT !.tries = t.tries + 1, !.disk = n]
  <2>1. job'[c] = u
    BY <1>2, Becoming
  <2> HIDE DEF t, n
  <2>2. u.pc = t.pc /\ u.pos = t.pos /\ u.peers = t.peers /\ u.digest = t.digest /\ u.checksum = t.checksum
    BY <1>0 DEF Tasks
  <2> HIDE DEF u
  <2> QED BY <1>0, <1>1, <2>1, <2>2 DEF Going
<1>3. CASE Becomes(c, [t EXCEPT !.pc = "read", !.disk = n, !.data = Append(@, <<>>)])
  <2> DEFINE u == [t EXCEPT !.pc = "read", !.disk = n, !.data = Append(t.data, <<>>)]
  <2>1. job'[c] = u
    BY <1>3, Becoming
  <2> HIDE DEF t, n
  <2>2. u.pc = "read" /\ u.pos = t.pos /\ u.peers = t.peers /\ u.digest = t.digest /\ u.checksum = t.checksum
        /\ u.buffer = t.buffer
    BY <1>0 DEF Tasks
  <2> HIDE DEF u
  <2>3. Content[f] \in Seq(Digits) /\ Len(Content[f]) \in Nat
    <3>1. Content[f] \in Seq(Digits)
      BY LuckyIs
    <3> QED BY <3>1
  <2>4. SubSeq(Content[f], 1, 0) = <<>>
    BY <2>3
  <2> QED BY <1>0, <1>1, <2>1, <2>2, <2>3, <2>4 DEF Going
<1>4. CASE Becomes(c, [Says(t, "names") EXCEPT !.pc = "ended", !.disk = <<>>])
  <2> DEFINE u == [Says(t, "names") EXCEPT !.pc = "ended", !.disk = <<>>]
  <2>1. job'[c] = u
    BY <1>4, Becoming
  <2> HIDE DEF t
  <2>2. "names" \in u.said
    BY <1>0 DEF Tasks, Says
  <2> QED BY <2>1, <2>2
<1> QED BY <1>2, <1>3, <1>4 DEF OpenDisk

\* The front of a sequence and the piece that follows it.
LEMMA FrontGrows ==
    ASSUME NEW S, NEW s \in Seq(S), NEW m \in 0..Len(s), NEW n \in Nat,
           n <= Len(SubSeq(s, m + 1, Len(s)))
    PROVE  /\ m + n <= Len(s)
           /\ SubSeq(s, 1, m) \o SubSeq(SubSeq(s, m + 1, Len(s)), 1, n) = SubSeq(s, 1, m + n)
<1> DEFINE r == SubSeq(s, m + 1, Len(s))
           a == SubSeq(s, 1, m)
           b == SubSeq(r, 1, n)
           w == SubSeq(s, 1, m + n)
<1>1. m \in Nat /\ Len(s) \in Nat /\ m <= Len(s)
  OBVIOUS
<1>2. r \in Seq(S) /\ Len(r) = Len(s) - m /\ \A k \in 1..Len(r) : r[k] = s[m + k]
  BY <1>1
<1> HIDE DEF r
<1>3. m + n <= Len(s) /\ n \in 0..Len(r)
  BY <1>1, <1>2 DEF r
<1>4. b \in Seq(S) /\ Len(b) = n /\ \A k \in 1..n : b[k] = s[m + k]
  BY <1>2, <1>3
<1>5. a \in Seq(S) /\ Len(a) = m /\ \A k \in 1..m : a[k] = s[k]
  BY <1>1
<1>6. w \in Seq(S) /\ Len(w) = m + n /\ \A k \in 1..m + n : w[k] = s[k]
  BY <1>1, <1>3
<1> HIDE DEF a, b, w
<1>7. a \o b \in Seq(S) /\ Len(a \o b) = m + n
      /\ \A k \in 1..m + n : (a \o b)[k] = IF k <= m THEN a[k] ELSE b[k - m]
  BY <1>1, <1>4, <1>5, ConcatProperties
<1>8. \A k \in 1..m + n : (a \o b)[k] = w[k]
  <2>1. ASSUME NEW k \in 1..m + n PROVE (a \o b)[k] = s[k]
    <3>1. CASE k <= m
      BY <1>1, <1>5, <1>7, <2>1, <3>1
    <3>2. CASE ~(k <= m)
      <4>1. k - m \in 1..n /\ m + (k - m) = k
        BY <1>1, <2>1, <3>2
      <4> QED BY <1>1, <1>4, <1>7, <2>1, <3>2, <4>1
    <3> QED BY <3>1, <3>2
  <2> QED BY <1>6, <2>1
<1>9. a \o b = w
  BY <1>6, <1>7, <1>8, SeqEqual
<1> QED BY <1>3, <1>9 DEF a, b, w, r

LEMMA ReadGoing ==
    ASSUME ITypes, IStages, NEW c \in Children, FetchOK(job[c]), ReadPeer(c), NEW f, f = job[c].filename,
           NEW i, Lucky(f, i), NEW L, L = scene.lists[f], Going(job[c], i, L, Content[f])
    PROVE  Going(job'[c], i, L, Content[f])
<1> DEFINE t == job[c]
           C == Content[f]
           left == Rest(t)
<1>0. t \in Tasks /\ t.pc = "read" /\ t.peers \in Seq(Peers) /\ t.pos \in Nat /\ t.buffer \in Buffers(Digits)
      /\ t.peers # <<>>
  BY DEF ITypes, IStages, ReadPeer, At, StageOK, Talking, Tasks
<1>1. /\ L \in Seq(Peers) /\ i \in 1..Len(L) /\ C \in Seq(Digits)
      /\ Serves[L[i]][f].stream = C /\ Serves[L[i]][f].then = "end"
  BY LuckyIs
<1>2. /\ Len(t.peers) = i /\ LeftOf(t.peers, L) /\ t.checksum = C /\ t.pos <= Len(C)
      /\ t.buffer.tail = t.pos /\ t.digest = SubSeq(C, 1, t.pos)
  BY <1>0 DEF Going
<1>3. Sends(t).stream = C /\ Sends(t).then = "end"
  <2>1. Peer(t) = L[i]
    BY <1>0, <1>1, <1>2, PeerIs DEF Peer
  <2> QED BY <1>1, <2>1 DEF Sends
<1>4. left = SubSeq(C, t.pos + 1, Len(C)) /\ Len(C) \in Nat /\ t.pos \in 0..Len(C) /\ Len(left) = Len(C) - t.pos
      /\ left \in Seq(Digits)
  <2>1. left = SubSeq(C, t.pos + 1, Len(C))
    BY <1>3 DEF Rest
  <2>2. t.pos \in 0..Len(C) /\ Len(C) \in Nat
    BY <1>0, <1>1, <1>2
  <2> HIDE DEF t, C, left
  <2> QED BY <1>1, <2>1, <2>2
<1>5. ASSUME NEW n \in 1..Len(left), n <= Room(t.buffer),
             Becomes(c, [t EXCEPT !.pc = "write", !.pos = @ + n,
                                  !.buffer = ReadInto(t.buffer, SubSeq(left, 1, n)),
                                  !.digest = Hashed(t, SubSeq(left, 1, n))])
      PROVE  Going(job'[c], i, L, C)
  <2> DEFINE s == SubSeq(left, 1, n)
             u == [t EXCEPT !.pc = "write", !.pos = @ + n, !.buffer = ReadInto(t.buffer, s),
                            !.digest = Hashed(t, s)]
  <2>1. n \in Nat /\ n <= Len(left)
    <3>1. Len(left) \in Nat
      BY <1>4
    <3> HIDE DEF left
    <3> QED BY <3>1
  <2>2. t.pos + n <= Len(C) /\ SubSeq(C, 1, t.pos) \o s = SubSeq(C, 1, t.pos + n)
    <3> DEFINE r == SubSeq(C, t.pos + 1, Len(C))
    <3> HIDE DEF t, C, left
    <3>1. C \in Seq(Digits) /\ t.pos \in 0..Len(C) /\ n \in Nat /\ n <= Len(r)
      BY <1>1, <1>4, <2>1
    <3>2. t.pos + n <= Len(C) /\ SubSeq(C, 1, t.pos) \o SubSeq(r, 1, n) = SubSeq(C, 1, t.pos + n)
      BY <3>1, FrontGrows
    <3>3. left = r
      BY <1>4
    <3> QED BY <3>2, <3>3
  <2>3. Len(s) = n
    <3>1. left \in Seq(Digits)
      BY <1>4
    <3> HIDE DEF left
    <3> QED BY <2>1, <3>1
  <2>4. job'[c] = u
    BY <1>5, Becoming
  <2>5. ReadInto(t.buffer, s).tail = t.buffer.tail + Len(s)
    <3> DEFINE b == t.buffer
    <3>1. b \in [head : Nat, tail : Nat, total_written : Nat, buf : [0..TASKBUFSIZ - 1 -> Digits]]
      BY <1>0 DEF Buffers
    <3> HIDE DEF b, s
    <3>2. ReadInto(b, s).tail = b.tail + Len(s)
      BY <3>1 DEF ReadInto
    <3> QED BY <3>2 DEF b
  <2> HIDE DEF s
  <2>6. /\ u.pc = "write" /\ u.pos = t.pos + n /\ u.buffer = ReadInto(t.buffer, s) /\ u.digest = t.digest \o s
        /\ u.peers = t.peers /\ u.checksum = t.checksum
    <3> HIDE DEF t
    <3> QED BY <1>0 DEF Tasks, Hashed
  <2> HIDE DEF u, t, C
  <2> QED BY <1>2, <2>2, <2>3, <2>4, <2>5, <2>6 DEF Going
<1>6. CASE left = <<>> /\ Becomes(c, [t EXCEPT !.pc = IF t.buffer.head = t.buffer.tail THEN "check" ELSE "write"])
  <2> DEFINE p == IF t.buffer.head = t.buffer.tail THEN "check" ELSE "write"
             u == [t EXCEPT !.pc = p]
  <2>1. p \in Stages /\ job'[c] = u /\ p \in {"check", "write"}
    BY <1>6, Becoming DEF Stages
  <2> HIDE DEF p
  <2>2. SameGoing(t, u) /\ u.pc = p
    BY <1>0, <2>1, PcGoing
  <2>3. t.pos = Len(C)
    BY <1>4, <1>6, EmptySeq
  <2> HIDE DEF u, t, C
  <2>4. Going(u, i, L, C)
    BY <1>2, <2>1, <2>2, <2>3 DEF Going, SameGoing, SameFetch
  <2> QED BY <2>1, <2>4 DEF C
<1>7. Sends(t).then # "error"
  BY <1>3
<1> QED BY <1>5, <1>6, <1>7, Zenon DEF ReadPeer

LEMMA WriteGoing ==
    ASSUME ITypes, NEW c \in Children, FetchOK(job[c]), WriteDisk(c), NEW f, f = job[c].filename,
           NEW i, Lucky(f, i), NEW L, L = scene.lists[f], Going(job[c], i, L, Content[f]),
           "slow" \notin job'[c].said
    PROVE  Going(job'[c], i, L, Content[f])
<1> DEFINE t == job[c]
           C == Content[f]
           b == t.buffer
           n == Span(b)
           r == [t.rate EXCEPT ![t.j % SAMPLESIZE] = n]
           d == [t.data EXCEPT ![Len(t.data)] = @ \o Piece(b, n)]
           next == [t EXCEPT !.buffer = WriteOut(b, n), !.data[Len(t.data)] = @ \o Piece(b, n),
                             !.rate = r, !.j = (@ % SAMPLESIZE) + 1]
           last == IF next.buffer.total_written > MAX_FILESIZE
                   THEN [Says(next, "size") EXCEPT !.pc = "unlink"]
                   ELSE IF Total(r) \div SAMPLESIZE < MIN_TRANSRATE
                   THEN [Says(next, "slow") EXCEPT !.pc = "retry"]
                   ELSE [next EXCEPT !.pc = "read"]
<1>0. t \in Tasks /\ t.pc = "write" /\ b \in Buffers(Digits)
  BY DEF ITypes, WriteDisk, At, Tasks
<1>1. job'[c] = last
  <2>1. Becomes(c, last)
    BY Zenon DEF WriteDisk
  <2> QED BY <2>1, Becoming
<1>2. C \in Seq(Digits) /\ Len(C) \in 1..MAX_FILESIZE /\ MAX_FILESIZE \in Nat
  BY LuckyIs
<1>3. /\ Len(t.peers) = i /\ LeftOf(t.peers, L) /\ t.checksum = C /\ t.pos <= Len(C)
      /\ b.tail = t.pos /\ t.digest = SubSeq(C, 1, t.pos)
  BY <1>0 DEF Going
<1>4. WriteOut(b, n).tail = b.tail /\ WriteOut(b, n).total_written <= b.tail
      /\ WriteOut(b, n).total_written \in Nat
  <2>1. n \in 0..b.tail - b.head /\ b.head \in Nat /\ b.tail \in Nat /\ b.total_written = b.head
    BY <1>0, SpanFits, Counts DEF Buffers
  <2>2. b \in [head : Nat, tail : Nat, total_written : Nat, buf : [0..TASKBUFSIZ - 1 -> Digits]]
    BY <1>0 DEF Buffers
  <2> HIDE DEF b, n
  <2>3. WriteOut(b, n).tail = b.tail /\ WriteOut(b, n).total_written = b.total_written + n
    BY <2>2 DEF WriteOut
  <2> QED BY <2>1, <2>3
<1>5. /\ next.buffer = WriteOut(b, n) /\ next.digest = t.digest /\ next.checksum = t.checksum
      /\ next.peers = t.peers /\ next.pos = t.pos /\ DOMAIN next = DOMAIN t
  <2>1. next = [t EXCEPT !.buffer = WriteOut(b, n), !.data = d, !.rate = r, !.j = (@ % SAMPLESIZE) + 1]
    OBVIOUS
  <2> HIDE DEF t, r, d, b, n
  <2> QED BY <1>0, <2>1 DEF Tasks
<1>6. DOMAIN t = {"pc", "buffer", "filename", "peers", "checksum", "digest", "disk", "data", "pos",
                  "tries", "rate", "j", "conn", "file", "opened", "said"}
  BY <1>0 DEF Tasks
<1>7. ~(next.buffer.total_written > MAX_FILESIZE)
  <2> HIDE DEF next
  <2>1. t.pos \in Nat /\ Len(C) \in Nat
    BY <1>0, <1>2 DEF Tasks
  <2>2. next.buffer.total_written <= t.pos /\ next.buffer.total_written \in Nat
    BY <1>3, <1>4, <1>5
  <2> QED BY <1>2, <1>3, <2>1, <2>2
<1> HIDE DEF next, t, r, b, n, d, C
<1>8. CASE Total(r) \div SAMPLESIZE < MIN_TRANSRATE
  <2> DEFINE u == [Says(next, "slow") EXCEPT !.pc = "retry"]
  <2>1. "slow" \in u.said
    BY <1>5, <1>6 DEF Says
  <2>2. last = u
    BY <1>7, <1>8, Zenon
  <2> HIDE DEF u, last
  <2> QED BY <1>1, <2>1, <2>2
<1>9. CASE ~(Total(r) \div SAMPLESIZE < MIN_TRANSRATE)
  <2> DEFINE u == [next EXCEPT !.pc = "read"]
  <2>1. /\ u.pc = "read" /\ u.buffer = next.buffer /\ u.digest = next.digest /\ u.checksum = next.checksum
        /\ u.peers = next.peers /\ u.pos = next.pos
    BY <1>5, <1>6
  <2>2. last = u
    BY <1>7, <1>9, Zenon
  <2> HIDE DEF u, last
  <2>3. Going(u, i, L, C)
    BY <1>3, <1>4, <1>5, <2>1 DEF Going
  <2> QED BY <1>1, <2>2, <2>3 DEF C
<1> QED BY <1>8, <1>9 DEF C

LEMMA CheckGoing ==
    ASSUME ITypes, NEW c \in Children, FetchOK(job[c]), CheckDigest(c), NEW f, f = job[c].filename,
           NEW i, Lucky(f, i), NEW L, L = scene.lists[f], Going(job[c], i, L, Content[f])
    PROVE  Going(job'[c], i, L, Content[f])
<1> DEFINE t == job[c]
           C == Content[f]
           p == IF t.disk = <<t.filename, 0>> THEN "have" ELSE "ended"
           u == [t EXCEPT !.pc = p]
<1>0. t \in Tasks /\ t.pc = "check" /\ t.buffer.total_written = t.buffer.head /\ Getting(t)
      /\ t.buffer.head = t.buffer.tail
  BY DEF ITypes, CheckDigest, At, Tasks, Buffers, FetchOK
<1>1. C \in Seq(Digits) /\ Len(C) \in 1..MAX_FILESIZE /\ MAX_FILESIZE \in Nat
  BY LuckyIs
<1>2. /\ Len(t.peers) = i /\ LeftOf(t.peers, L) /\ t.checksum = C /\ t.pos = Len(C)
      /\ t.buffer.tail = t.pos /\ t.digest = SubSeq(C, 1, t.pos)
  BY <1>0 DEF Going
<1>3. t.digest = t.checksum
  <2> HIDE DEF C
  <2>1. SubSeq(C, 1, Len(C)) = C
    BY <1>1
  <2> QED BY <1>2, <2>1
<1>4. t.buffer.total_written # 0
  BY <1>0, <1>1, <1>2
<1>5. Becomes(c, u)
  BY <1>3, <1>4, Zenon DEF CheckDigest
<1>6. p \in {"have", "ended"} /\ p \in Stages /\ job'[c] = u
  BY <1>5, Becoming DEF Stages
<1>7. t.disk # <<>>
  BY <1>0 DEF Getting
<1> HIDE DEF p
<1>8. SameGoing(t, u) /\ u.pc = p
  BY <1>0, <1>6, PcGoing
<1> HIDE DEF u, t, C
<1>9. Going(u, i, L, C)
  BY <1>2, <1>6, <1>7, <1>8 DEF Going, SameGoing, SameFetch
<1> QED BY <1>6, <1>9 DEF C

LEMMA HaveGoing ==
    ASSUME ITypes, NEW c \in Children, FetchOK(job[c]), SendHave(c) \/ AwaitHave(c) \/ UnlinkLarge(c),
           NEW i, NEW L, NEW C, Going(job[c], i, L, C)
    PROVE  Going(job'[c], i, L, C)
<1>1. PICK p \in {"await", "ended", "retry"} :
         /\ Becomes(c, [job[c] EXCEPT !.pc = p])
         /\ \/ p = "await" /\ job[c].pc = "have"
            \/ p = "ended" /\ job[c].pc = "await"
            \/ p = "retry" /\ job[c].pc = "unlink"
  BY DEF SendHave, AwaitHave, UnlinkLarge, At
<1> DEFINE u == [job[c] EXCEPT !.pc = p]
<1>2. job'[c] = u /\ SameGoing(job[c], u) /\ u.pc = p
  <2>1. p \in Stages /\ job[c] \in Tasks
    BY <1>1 DEF Stages, ITypes
  <2> QED BY <1>1, <2>1, Becoming, PcGoing
<1> HIDE DEF u
<1> QED BY <1>1, <1>2 DEF Going, SameGoing, SameFetch

LEMMA RetryGoing ==
    ASSUME ITypes, IStages, NEW c \in Children, TryAgain(c), NEW i, i \in Nat,
           NEW L, L \in Seq(Peers), NEW C, Going(job[c], i, L, C)
    PROVE  Going(job'[c], i, L, C)
<1> DEFINE t == job[c]
           q == t.peers
           u == [task_pop_peer(t) EXCEPT !.pc = "connect"]
<1>0. t \in Tasks /\ t.pc = "retry" /\ q \in Seq(Peers) /\ q # <<>>
  BY DEF ITypes, IStages, TryAgain, At, StageOK, Talking, Tasks
<1>1. job'[c] = u
  BY Becoming DEF TryAgain
<1>2. t.digest = <<>> /\ Len(q) > i /\ LeftOf(q, L) /\ t.checksum = C
  BY <1>0 DEF Going
<1>3. u.pc = "connect" /\ u.peers = Tail(q) /\ u.digest = t.digest /\ u.checksum = t.checksum
  <2> HIDE DEF t
  <2> QED BY <1>0 DEF Tasks, task_pop_peer
<1> HIDE DEF u, q
<1>4. Len(Tail(q)) = Len(q) - 1 /\ Len(q) \in Nat \ {0} /\ \A k \in 1..Len(q) - 1 : Tail(q)[k] = q[k + 1]
  BY <1>0, EmptySeq
<1>5. LeftOf(Tail(q), L)
  <2>1. Len(L) \in Nat
    OBVIOUS
  <2>2. ASSUME NEW k \in 1..Len(q) - 1 PROVE Tail(q)[k] = L[((Len(q) - 1) - k) + 1]
    <3>1. k + 1 \in 1..Len(q) /\ (Len(q) - (k + 1)) + 1 = ((Len(q) - 1) - k) + 1
      BY <1>4
    <3>2. q[k + 1] = L[(Len(q) - (k + 1)) + 1]
      BY <1>2, <3>1 DEF LeftOf
    <3> QED BY <1>4, <3>1, <3>2
  <2>3. Len(Tail(q)) <= Len(L)
    BY <1>2, <1>4, <2>1 DEF LeftOf
  <2> QED BY <1>4, <2>2, <2>3 DEF LeftOf
<1>6. Len(Tail(q)) >= i
  BY <1>2, <1>4
<1> QED BY <1>1, <1>2, <1>3, <1>5, <1>6 DEF Going

(* A step of a download towards, with or after its good peer.              *)
LEMMA DownloadGoing ==
    ASSUME ITypes, IStages, NEW c \in Children, FetchOK(job[c]), Follows(job[c], job'[c]),
           task_download(c), FirstOK(job[c])
    PROVE  FirstOK(job'[c])
<1> DEFINE f == job[c].filename
<1>1. job'[c].filename = f /\ job[c].said \subseteq job'[c].said
  BY DEF Follows
<1>2. ASSUME NEW i, Lucky(f, i), job'[c].said \cap {"slow", "names"} = {}
      PROVE  Going(job'[c], i, scene.lists[f], Content[f])
  <2> DEFINE L == scene.lists[f]
  <2>1. Going(job[c], i, L, Content[f])
    BY <1>1, <1>2 DEF FirstOK
  <2>2. L \in Seq(Peers) /\ i \in Nat
    <3>1. L \in Seq(Peers) /\ i \in 1..Len(L)
      BY <1>2, LuckyIs
    <3> QED BY <3>1
  <2>3. "slow" \notin job'[c].said /\ "names" \notin job'[c].said
    BY <1>2
  <2> HIDE DEF L
  <2>4. L = scene.lists[f]
    BY DEF L
  <2> HIDE DEF f
  <2>5. f = job[c].filename
    BY DEF f
  <2> QED BY <1>2, <2>1, <2>2, <2>3, <2>4, <2>5, ConnectGoing, OpenGoing, ReadGoing, WriteGoing,
             CheckGoing, HaveGoing, RetryGoing DEF task_download
<1> QED BY <1>1, <1>2 DEF FirstOK

LEMMA FirstStays ==
    ASSUME UNCHANGED scene, NEW c \in Children, FirstOK(job'[c]) PROVE FirstOK(job[c])'
  BY DEF FirstOK, Lucky, GoodFirst, Reachable, Good

LEMMA SureBefore ==
    ASSUME UNCHANGED scene, \A d \in Children : Told(d) => Told(d)', NEW c \in Children,
           job'[c].filename = job[c].filename, Sure(c)'
    PROVE  Sure(c)
<1>1. Children = 1..Cardinality(Children) /\ Cardinality(Children) \in Nat
  BY FS_CardinalityType, TransferAssumption
<1>2. \A d \in 1..c - 1 : d \in Children
  BY <1>1
<1> QED BY <1>2 DEF Sure

\* The children when one of them changes its task.
LEMMA KidsStay ==
    ASSUME KidsFirst, UNCHANGED scene, \A d \in Children : Told(d) => Told(d)',
           \A d \in Children : (job'[d].conn = 0 /\ job'[d].pc # "none") =>
              \/ /\ job[d].conn = 0 /\ job[d].pc # "none" /\ job'[d].filename = job[d].filename
                 /\ FirstOK(job[d]) => FirstOK(job'[d])
              \/ Sure(d)' => FirstOK(job'[d])
    PROVE  KidsFirst'
<1>1. ASSUME NEW c \in Children, job'[c].conn = 0, job'[c].pc # "none", Sure(c)'
      PROVE  FirstOK(job[c])'
  <2>1. CASE /\ job[c].conn = 0 /\ job[c].pc # "none" /\ job'[c].filename = job[c].filename
             /\ FirstOK(job[c]) => FirstOK(job'[c])
    <3>1. Sure(c)
      BY <1>1, <2>1, SureBefore
    <3> QED BY <2>1, <3>1, FirstStays DEF KidsFirst
  <2>2. CASE Sure(c)' => FirstOK(job'[c])
    BY <1>1, <2>2, FirstStays
  <2> QED BY <1>1, <2>1, <2>2
<1> QED BY <1>1 DEF KidsFirst

LEMMA ChildFirst ==
    ASSUME IFiles, IFirst, NEW c \in Children, Child(c), ChildFollows(c), UNCHANGED peerVars
    PROVE  IFirst'
<1>0. ITypes /\ IStages /\ scene' = scene /\ main' = main
  BY DEF IFiles, IType, peerVars
<1>1. \A d \in Children : Told(d) => Told(d)'
  BY <1>0, StillTold
<1>2. MainFirst'
  BY <1>0, <1>1 DEF IFirst, MainFirst, Silent
<1>3. ASSUME NEW d \in Children, job'[d].conn = 0, job'[d].pc # "none"
      PROVE  /\ job[d].conn = 0 /\ job[d].pc # "none" /\ job'[d].filename = job[d].filename
             /\ FirstOK(job[d]) => FirstOK(job'[d])
  <2>1. CASE d # c
    BY <1>3, <2>1 DEF ChildFollows
  <2>2. CASE d = c
    <3>1. job[c].conn = 0 /\ job[c].pc # "none"
      BY <1>3, <2>2 DEF ChildFollows
    <3>2. FetchOK(job[c]) /\ Follows(job[c], job'[c]) /\ task_download(c)
      BY <3>1 DEF ChildFollows
    <3>3. FirstOK(job[c]) => FirstOK(job'[c])
      BY <1>0, <3>2, DownloadGoing
    <3> QED BY <2>2, <3>1, <3>2, <3>3 DEF Follows
  <2> QED BY <2>1, <2>2
<1>4. KidsFirst'
  BY <1>0, <1>1, <1>3, KidsStay DEF IFirst
<1> QED BY <1>2, <1>4 DEF IFirst

\* A step that leaves the children, and what main makes ready as well.
LEMMA QuietFirst ==
    ASSUME IFirst, UNCHANGED <<scene, job>>,
           \/ main'.pc \notin {"sum", "sum?", "fork"}
           \/ main.pc \in {"sum", "sum?", "fork"} /\ main'.task.peers = main.task.peers
              /\ main'.task.filename = main.task.filename
           \/ Silent => main'.task.peers = Reverse(scene.lists[main'.task.filename])
    PROVE  IFirst'
<1>1. Silent' = Silent /\ \A d \in Children : Told(d)' = Told(d)
  BY DEF Silent, Told, Kept
<1>2. MainFirst'
  BY <1>1 DEF IFirst, MainFirst
<1>3. KidsFirst'
  BY <1>1, KidsStay DEF IFirst
<1> QED BY <1>2, <1>3 DEF IFirst

LEMMA BeginsFirst ==
    ASSUME IFiles, IFirst, \/ StartTracker \/ Greeting \/ StartListen \/ RegisterAddress \/ AddressAnswer
                           \/ RegisterFile \/ FileAnswer \/ StartServing
    PROVE  IFirst'
<1>0. main \in Mains /\ UNCHANGED <<scene, job>>
  BY MainIs DEF StartTracker, Greeting, StartListen, RegisterAddress, AddressAnswer, RegisterFile,
                FileAnswer, StartServing, Sends1, Takes, Unstirred
<1>1. main'.pc \notin {"sum", "sum?", "fork"}
  <2>1. CASE StartTracker \/ RegisterAddress \/ RegisterFile
    BY <1>0, <2>1 DEF StartTracker, RegisterAddress, RegisterFile, Sends1, Mains
  <2>2. CASE Greeting \/ AddressAnswer \/ FileAnswer
    BY <1>0, <2>2 DEF Greeting, AddressAnswer, FileAnswer, Takes, Mains
  <2>3. CASE StartListen \/ StartServing
    BY <1>0, <2>3 DEF StartListen, StartServing, MainAt, Mains
  <2> QED BY <2>1, <2>2, <2>3
<1> QED BY <1>0, <1>1, QuietFirst

\* The answer with the peers, when no child may have read or sent another one.
LEMMA WantFirst ==
    ASSUME IFiles, IFirst, WantAnswer PROVE IFirst'
<1> DEFINE new == task_new("connect")
           t == [new EXCEPT !.filename = Head(main.argv), !.peers = Reverse(First.peers)]
           m == [main EXCEPT !.pc = "sum", !.task = t]
           next == NextName(main)
           dead == [main EXCEPT !.pc = "dead"]
<1>0. /\ main \in Mains /\ main.pc = "want?" /\ main.argv # <<>> /\ Head(main.argv) \in FileNames
      /\ Silent => Synced
  BY MainIs DEF WantAnswer, MainAt, MainOK
<1>1. UNCHANGED <<scene, job>>
  BY DEF WantAnswer, Takes, Unstirred
<1>2. main' = next \/ main' = dead \/ (First.ok /\ main' = m)
  BY Zenon DEF WantAnswer, Takes
<1>3. next.pc = "want" /\ dead.pc = "dead"
  BY <1>0 DEF NextName, Mains
<1>4. t.filename = Head(main.argv) /\ t.peers = Reverse(First.peers)
  BY DEF task_new
<1>5. m.task = t
  <2> HIDE DEF t
  <2> QED BY <1>0 DEF Mains
<1> HIDE DEF next, dead, m, t
<1>6. CASE main'.pc \notin {"sum", "sum?", "fork"}
  BY <1>1, <1>6, QuietFirst
<1>7. CASE First.ok /\ main' = m
  <2>1. ASSUME Silent PROVE First.peers = scene.lists[Head(main.argv)]
    <3>1. PICK r \in Requests : r = Request("main", "WANT", Head(main.argv)) /\ fromTracker = <<Answer(r)>>
      BY <1>0, <2>1 DEF Synced, WantAnswer
    <3>2. First = Answer(r) /\ r.what = "WANT" /\ r.file = Head(main.argv)
      BY <3>1 DEF First, Request
    <3> QED BY <1>7, <3>2 DEF Answer
  <2>2. Silent => main'.task.peers = Reverse(scene.lists[main'.task.filename])
    BY <1>4, <1>5, <1>7, <2>1
  <2> QED BY <1>1, <2>2, QuietFirst
<1> QED BY <1>2, <1>3, <1>6, <1>7

LEMMA SumFirst ==
    ASSUME IFiles, IFirst, Want \/ AskSum \/ SumAnswer PROVE IFirst'
<1>0. main \in Mains /\ main.task \in Tasks /\ UNCHANGED <<scene, job>>
  BY MainIs DEF Want, AskSum, SumAnswer, Sends1, Takes, Unstirred, Mains
<1>1. CASE Want \/ AskSum
  BY <1>0, <1>1, QuietFirst DEF Want, AskSum, Sends1, MainAt, Mains
<1>2. CASE SumAnswer
  <2>1. PICK s : main' = [main EXCEPT !.pc = "fork", !.task.checksum = s] /\ main.pc = "sum?"
    BY <1>2, Zenon DEF SumAnswer, Takes, MainAt
  <2> DEFINE t == [main.task EXCEPT !.checksum = s]
  <2>2. t.peers = main.task.peers /\ t.filename = main.task.filename
    BY <1>0 DEF Tasks
  <2>3. main' = [main EXCEPT !.pc = "fork", !.task = t]
    BY <2>1
  <2> HIDE DEF t
  <2>4. main'.task = t
    BY <1>0, <2>3 DEF Mains
  <2> QED BY <1>0, <2>1, <2>2, <2>4, QuietFirst
<1> QED BY <1>1, <1>2

LEMMA AcceptFirst ==
    ASSUME IFiles, IFirst, Accept PROVE IFirst'
<1> DEFINE t == [task_new("request") EXCEPT !.conn = Head(waiting)]
<1>1. main \in Mains /\ UNCHANGED <<scene, job>> /\ main' = [main EXCEPT !.pc = "serve", !.task = t]
  BY MainIs DEF Accept, transferVars
<1> HIDE DEF t
<1>2. main'.pc = "serve"
  BY <1>1 DEF Mains
<1> QED BY <1>1, <1>2, QuietFirst

\* The list of the tracker, turned round, is the whole of it.
LEMMA LeftAll ==
    ASSUME NEW S, NEW L \in Seq(S) PROVE LeftOf(Reverse(L), L) /\ Len(Reverse(L)) = Len(L)
<1>1. Reverse(L) = [k \in 1..Len(L) |-> L[(Len(L) - k) + 1]]
  BY DEF Reverse
<1>2. Len(Reverse(L)) = Len(L) /\ Len(L) \in Nat
  BY <1>1
<1> QED BY <1>1, <1>2 DEF LeftOf

LEMMA ForkFirst ==
    ASSUME IFiles, IFirst, ForkDownload \/ ForkUpload PROVE IFirst'
<1> DEFINE n == NextChild
           t == main.task
<1>0. /\ scene' = scene /\ main \in Mains /\ t \in Tasks /\ job \in [Children -> Tasks]
      /\ IType /\ ITypes /\ ISure
  BY MainIs DEF ForkDownload, ForkUpload, IFiles, Mains, ITypes
<1>1. \/ main.pc = "fork" /\ t.pc = "connect" /\ t.conn = 0 /\ t.digest = <<>>
      \/ main.pc = "serve" /\ t.conn # 0
  BY <1>0, MainIs, TransferAssumption
     DEF ForkDownload, ForkUpload, MainAt, MainOK, StageOK, Downloading, Uploading
<1>2. main'.pc \notin {"sum", "sum?", "fork"}
  BY <1>0 DEF ForkDownload, ForkUpload, Fork, NextName, Mains
<1>3. CASE UNCHANGED job
  BY <1>0, <1>2, <1>3, QuietFirst
<1>4. CASE job' = [job EXCEPT ![n] = t]
  <2>1. n \notin Started /\ n \in Nat \ {0} /\ Started = 1..n - 1
    <3>1. Cardinality(Started) = n - 1
      BY <1>0, StartedIs DEF NextChild
    <3> QED BY <1>0, <3>1, StartedIs
  <2> HIDE DEF n, t
  <2>2. \A d \in Children : job'[d] = IF d = n THEN t ELSE job[d]
    BY <1>0, <1>4
  <2>3. n \in Children => job[n].pc = "none"
    BY <2>1 DEF Started
  <2>4. \A d \in Children : Told(d) => Told(d)'
    <3>1. n \in Children => ~Told(n)
      BY <2>3 DEF Told, Kept
    <3> QED BY <2>2, <3>1 DEF Told, Kept
  <2>5. Children = 1..Cardinality(Children) /\ Cardinality(Children) \in Nat
    BY FS_CardinalityType, TransferAssumption
  <2>6. ASSUME NEW k \in Children, k = n, t.conn = 0, Sure(k)' PROVE FirstOK(t)
    <3>1. ASSUME NEW d \in Children PROVE ~Told(d)
      <4>1. CASE d \in Started
        BY <2>1, <2>4, <2>6, <3>1, <4>1 DEF Sure
      <4>2. CASE d \notin Started
        BY <4>2 DEF Started, Told, Kept
      <4> QED BY <4>1, <4>2
    <3>2. Silent
      BY <3>1 DEF Silent
    <3>3. main.pc = "fork" /\ t.pc = "connect" /\ t.digest = <<>>
      BY <1>1, <2>6
    <3>4. t.filename \in scene.sums
      BY <1>0, <2>2, <2>6 DEF Sure
    <3>5. Right(t) /\ t.peers = Reverse(scene.lists[t.filename])
      BY <1>0, <3>2, <3>3 DEF ISure, IFirst, MainFirst, t
    <3>6. ASSUME NEW i, Lucky(t.filename, i)
          PROVE  Going(t, i, scene.lists[t.filename], Content[t.filename])
      <4> DEFINE L == scene.lists[t.filename]
                 C == Content[t.filename]
      <4>1. L \in Seq(Peers) /\ i \in 1..Len(L) /\ C \in Seq(Digits) /\ Len(C) \in 1..MAX_FILESIZE
            /\ MAX_FILESIZE \in Nat
        BY <1>0, <3>6, LuckyIs
      <4>2. t.checksum = C
        BY <3>4, <3>5, <4>1, EmptySeq DEF Right
      <4> HIDE DEF L
      <4>3. LeftOf(Reverse(L), L) /\ Len(Reverse(L)) = Len(L)
        BY <4>1, LeftAll
      <4>4. t.peers = Reverse(L)
        BY <3>5 DEF L
      <4> HIDE DEF C
      <4>5. Len(t.peers) >= i
        BY <4>1, <4>3, <4>4
      <4>6. Going(t, i, L, C)
        BY <3>3, <4>2, <4>3, <4>4, <4>5 DEF Going
      <4> QED BY <4>6 DEF L, C
    <3> QED BY <3>6 DEF FirstOK
  <2>7. KidsFirst'
    <3>1. \A d \in Children : (job'[d].conn = 0 /\ job'[d].pc # "none") =>
             \/ /\ job[d].conn = 0 /\ job[d].pc # "none" /\ job'[d].filename = job[d].filename
                /\ FirstOK(job[d]) => FirstOK(job'[d])
             \/ Sure(d)' => FirstOK(job'[d])
      <4>1. ASSUME NEW d \in Children, d = n, t.conn = 0 PROVE Sure(d)' => FirstOK(t)
        BY <2>6, <4>1
      <4> QED BY <2>2, <4>1
    <3> QED BY <1>0, <2>4, <3>1, KidsStay DEF IFirst
  <2>8. MainFirst'
    BY <1>2 DEF MainFirst
  <2> QED BY <2>7, <2>8 DEF IFirst
<1> QED BY <1>3, <1>4 DEF ForkDownload, ForkUpload, Fork

LEMMA WaitFirst == ASSUME IFiles, IFirst, WaitForOne PROVE IFirst'
<1>0. scene' = scene /\ main \in Mains /\ job \in [Children -> Tasks]
  BY MainIs DEF WaitForOne, IFiles, ITypes
<1>1. main'.pc \notin {"sum", "sum?", "fork"}
  BY <1>0 DEF WaitForOne, MainAt, Mains
<1>2. CASE UNCHANGED job
  BY <1>0, <1>1, <1>2, QuietFirst
<1>3. ASSUME NEW c \in Children, job[c].pc = "ended", job' = [job EXCEPT ![c].pc = "reaped"]
      PROVE  IFirst'
  <2> DEFINE u == [job[c] EXCEPT !.pc = "reaped"]
  <2>1. SameGoing(job[c], u) /\ u.pc = "reaped" /\ u.said = job[c].said
    <3>1. job[c] \in Tasks /\ "reaped" \in Stages
      BY <1>0 DEF Stages
    <3> QED BY <3>1, PcGoing
  <2>2. job' = [job EXCEPT ![c] = u]
    BY <1>3
  <2> HIDE DEF u
  <2>3. \A d \in Children : job'[d] = IF d = c THEN u ELSE job[d]
    BY <1>0, <2>2
  <2>4. \A d \in Children : Told(d) => Told(d)'
    BY <1>3, <2>1, <2>3 DEF Told, Kept, SameGoing, SameFetch
  <2>5. FirstOK(job[c]) => FirstOK(u)
    <3>1. ASSUME NEW i, NEW L, NEW C, Going(job[c], i, L, C) PROVE Going(u, i, L, C)
      BY <1>3, <2>1, <3>1 DEF Going, SameGoing, SameFetch
    <3> QED BY <2>1, <3>1 DEF FirstOK, SameGoing, SameFetch
  <2>6. \A d \in Children : (job'[d].conn = 0 /\ job'[d].pc # "none") =>
             /\ job[d].conn = 0 /\ job[d].pc # "none" /\ job'[d].filename = job[d].filename
             /\ FirstOK(job[d]) => FirstOK(job'[d])
    BY <1>3, <2>1, <2>3, <2>5 DEF SameGoing, SameFetch
  <2>7. KidsFirst'
    BY <1>0, <2>4, <2>6, KidsStay DEF IFirst
  <2>8. MainFirst'
    BY <1>1 DEF MainFirst
  <2> QED BY <2>7, <2>8 DEF IFirst
<1> QED BY <1>2, <1>3 DEF WaitForOne, Unreaped, Started

LEMMA InitFirst == ASSUME Init PROVE IFirst
<1>1. main.pc = "start" /\ \A c \in Children : job[c].pc = "none"
  BY DEF Init, task_new
<1> QED BY <1>1 DEF IFirst, MainFirst, KidsFirst

LEMMA NextFirst == ASSUME IFiles, IFirst, [Next]_vars PROVE IFirst'
<1>1. CASE Main
  BY <1>1, BeginsFirst, WantFirst, SumFirst, ForkFirst, WaitFirst, AcceptFirst DEF Main
<1>2. CASE AChild
  <2>1. PICK c \in Children : Child(c) /\ UNCHANGED peerVars
    BY <1>2 DEF AChild
  <2>2. ChildFollows(c)
    BY <2>1, ChildOf DEF IFiles
  <2> QED BY <2>1, <2>2, ChildFirst
<1>3. CASE Tracker \/ UNCHANGED vars
  <2>1. UNCHANGED <<scene, main, job>>
    BY <1>3 DEF Tracker, vars, peerVars, transferVars
  <2> QED BY <2>1, QuietFirst
<1> QED BY <1>1, <1>2, <1>3 DEF Next, Resting

(* A download whose first peer of those it can reach is good keeps its     *)
(* file (task_download; the peers are tried from the end of the list), and *)
(* no other child, nor the buffer of its own, can make it fail.            *)
THEOREM FirstPeerCorrect == Spec => []FirstPeerSuffices
<1>1. Spec => [](IFiles /\ IFirst)
  BY InitFiles, NextFiles, InitFirst, NextFirst, PTL DEF Spec
<1>2. ASSUME IFiles, IFirst PROVE FirstPeerSuffices
  <2>1. ASSUME NEW c \in Children, job[c].pc \in {"ended", "reaped"}, job[c].conn = 0,
               job[c].said \cap {"slow", "names"} = {}, Sure(c),
               Len(Content[job[c].filename]) \in 1..MAX_FILESIZE,
               NEW i \in Reachable(job[c].filename), GoodFirst(job[c].filename, i)
        PROVE  Kept(c)
    <3>1. job[c].filename \in FileNames
      <4>1. scene.sums \subseteq FileNames
        BY <1>2, SceneAssumption, Zenon DEF IFiles, IType, ITypes
      <4> QED BY <2>1, <4>1 DEF Sure
    <3>2. Going(job[c], i, scene.lists[job[c].filename], Content[job[c].filename])
      BY <1>2, <2>1, <3>1 DEF IFirst, KidsFirst, FirstOK, Lucky
    <3> QED BY <2>1, <3>2 DEF Going, Kept
  <2> QED BY <2>1 DEF FirstPeerSuffices
<1> QED BY <1>1, <1>2, PTL
=============================================================================
