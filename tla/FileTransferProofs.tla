-------------------------- MODULE FileTransferProofs --------------------------
(***************************************************************************)
(* Proofs about FileTransfer, for every number of agents, blocks, calls    *)
(* and changes and every limit of a file's size.                           *)
(***************************************************************************)
EXTENDS FileTransfer, SequenceTheorems, TLAPS

Places == {"idle", "upload", "download", "list_files", "mkdir", "create", "write",
           "stat", "open", "read", "list"}
Results == {"none", "error", "uploaded", "downloaded", "listed"}

\* Types of all variables but the counters.
TransferTypes ==
    /\ file \in Seq(Kinds) \cup {Absent}
    /\ conn \in {"up", "closing", "closed"} /\ exited \in BOOLEAN
    /\ holding \subseteq Agents /\ asked \subseteq Agents /\ disturbed \subseteq Agents
    /\ pc \in [Agents -> Places]
    /\ data \in [Agents -> Seq(Kinds \cup {Unread})]
    /\ pos \in [Agents -> Nat]
    /\ reply \in [Agents -> [what : Results, content : Seq(Kinds \cup {"replaced"})]]

\* As long as nobody else changes the file, it is what the upload has written.
Uploading(a) ==
    /\ pc[a] \in {"upload", "mkdir", "create", "write"} =>
          data[a] \in Seq(Kinds) /\ pos[a] < Len(data[a])
    /\ pc[a] \in {"upload", "mkdir", "create"} => pos[a] = 0
    /\ pc[a] = "write" =>
          /\ file # Absent
          /\ a \notin disturbed => file = SubSeq(data[a], 1, pos[a])

\* As long as nobody changes the file, a download has as many blocks as the
\* file, and those it has read are the file's.
Downloading(a) ==
    pc[a] \in {"open", "read"} =>
        /\ file # Absent /\ Len(data[a]) <= MaxFile
        /\ a \notin disturbed =>
              /\ DOMAIN data[a] = DOMAIN file
              /\ \A i \in DOMAIN file : data[a][i] \in {Unread, file[i]}

\* A transfer under way has no result yet.
Pending(a) == pc[a] # "idle" => reply[a].what = "none"

Stored(a) ==
    reply[a].what = "uploaded" /\ a \notin disturbed => file = data[a]

Returned(a) ==
    reply[a].what = "downloaded" =>
        /\ Len(reply[a].content) <= MaxFile
        /\ a \notin disturbed => file # Absent /\ reply[a].content = OnTheWire(file)

AgentInv(a) ==
    Uploading(a) /\ Downloading(a) /\ Pending(a) /\ Stored(a) /\ Returned(a)

TransferInv == TransferTypes /\ \A a \in Agents : AgentInv(a)

--------------------------------------------------------------------------------
(* Files and contents. *)

\* No sequence of blocks is the missing file.
LEMMA NotAbsent == ASSUME NEW f \in Seq(Kinds) PROVE f # Absent
<1>1. SUFFICES ASSUME f = Absent PROVE FALSE
  OBVIOUS
<1>2. Len(f) = 1 /\ f[1] = "absent"
  BY <1>1 DEF Absent
<1>3. f[1] \in Kinds
  BY <1>2, ElementOfSeq
<1> QED
  BY <1>2, <1>3 DEF Kinds

\* Writing a block of a file leaves a file, as the host fills a gap.
LEMMA PutType ==
    ASSUME NEW f \in Seq(Kinds), NEW i \in Nat \ {0}, NEW b \in Kinds
    PROVE  Put(f, i, b) \in Seq(Kinds)
<1> DEFINE n == IF i > Len(f) THEN i ELSE Len(f)
<1>1. n \in Nat
  BY LenProperties
<1>2. \A j \in 1..n : (IF j = i THEN b ELSE IF j <= Len(f) THEN f[j] ELSE "bin") \in Kinds
  BY LenProperties, ElementOfSeq DEF Kinds
<1>3. Put(f, i, b) \in [1..n -> Kinds]
  BY <1>2 DEF Put
<1> QED
  BY <1>1, <1>3, SeqDef

\* Writing the next block of a content behind those already there.
LEMMA PutNext ==
    ASSUME NEW d \in Seq(Kinds), NEW n \in 0..(Len(d) - 1)
    PROVE  Put(SubSeq(d, 1, n), n + 1, d[n + 1]) = SubSeq(d, 1, n + 1)
<1>0. Len(d) \in Nat /\ n \in Nat /\ \A i \in 1..Len(d) : d[i] \in Kinds
  BY LenProperties, ElementOfSeq
<1>1. /\ SubSeq(d, 1, n) \in Seq(Kinds) /\ Len(SubSeq(d, 1, n)) = n
      /\ \A i \in 1..n : SubSeq(d, 1, n)[i] = d[i]
  BY <1>0, SubSeqProperties
<1>2. /\ SubSeq(d, 1, n + 1) \in Seq(Kinds) /\ Len(SubSeq(d, 1, n + 1)) = n + 1
      /\ \A i \in 1..(n + 1) : SubSeq(d, 1, n + 1)[i] = d[i]
  BY <1>0, SubSeqProperties
<1> DEFINE p == Put(SubSeq(d, 1, n), n + 1, d[n + 1])
<1>3. p = [j \in 1..(n + 1) |-> IF j = n + 1 THEN d[n + 1]
             ELSE IF j <= n THEN SubSeq(d, 1, n)[j] ELSE "bin"]
  BY <1>0, <1>1 DEF Put
<1>4. p \in Seq(Kinds)
  <2>1. n + 1 \in Nat \ {0} /\ d[n + 1] \in Kinds
    BY <1>0
  <2> QED
    BY <1>1, <2>1, PutType
<1>5. Len(p) = n + 1
  BY <1>0, <1>3, <1>4, LenProperties
<1>6. \A i \in 1..(n + 1) : p[i] = SubSeq(d, 1, n + 1)[i]
  BY <1>0, <1>1, <1>2, <1>3
<1> QED
  BY <1>2, <1>4, <1>5, <1>6, SeqEqual

\* What travels is as long as what was read, and of blocks and replacements.
LEMMA WireType ==
    ASSUME NEW d \in Seq(Kinds)
    PROVE  /\ OnTheWire(d) \in Seq(Kinds \cup {"replaced"})
           /\ Len(OnTheWire(d)) = Len(d)
<1>1. CASE Contains(d, "bin")
  BY <1>1, SeqMonotonic DEF OnTheWire
<1>2. CASE ~Contains(d, "bin")
  <2>1. OnTheWire(d) \in [1..Len(d) -> Kinds \cup {"replaced"}]
    BY <1>2, LenProperties, ElementOfSeq DEF OnTheWire
  <2>2. OnTheWire(d) \in Seq(Kinds \cup {"replaced"})
    BY <2>1, SeqDef, LenProperties
  <2> QED
    BY <2>1, <2>2, LenProperties
<1> QED
  BY <1>1, <1>2

\* A download that waits for no block any more has only blocks of files.
LEMMA AllRead ==
    ASSUME NEW d \in Seq(Kinds \cup {Unread}), ~Contains(d, Unread)
    PROVE  d \in Seq(Kinds)
<1>1. d \in [1..Len(d) -> Kinds]
  BY LenProperties, ElementOfSeq DEF Contains
<1> QED
  BY <1>1, SeqDef, LenProperties

--------------------------------------------------------------------------------
(* The steps. *)

\* An agent that does nothing keeps its invariant, if the file is left alone or
\* the agent is told that it was changed.
LEMMA Frame ==
    ASSUME NEW a \in Agents, AgentInv(a),
           pc'[a] = pc[a], data'[a] = data[a], pos'[a] = pos[a], reply'[a] = reply[a],
           file' = file \/ (a \in disturbed' /\ file' # Absent),
           a \notin disturbed' => a \notin disturbed
    PROVE  AgentInv(a)'
<1>1. Uploading(a)'
  BY DEF AgentInv, Uploading
<1>2. Downloading(a)'
  BY DEF AgentInv, Downloading
<1>3. Pending(a)' /\ Stored(a)'
  BY DEF AgentInv, Pending, Stored
<1>4. Returned(a)'
  BY DEF AgentInv, Returned, OnTheWire
<1> QED
  BY <1>1, <1>2, <1>3, <1>4 DEF AgentInv

\* An agent that returns with an error, or a list, has nothing to answer for.
LEMMA NoContent ==
    ASSUME TransferTypes, NEW a \in Agents, NEW what \in {"error", "listed"},
           Return(a, what, <<>>)
    PROVE  AgentInv(a)'
<1>1. pc'[a] = "idle" /\ reply'[a].what = what
  BY DEF Return, Goto, TransferTypes
<1> QED
  BY <1>1 DEF AgentInv, Uploading, Downloading, Pending, Stored, Returned

\* The types of what a return leaves.
LEMMA ReturnType ==
    ASSUME TransferTypes, NEW a \in Agents, NEW what \in Results,
           NEW content \in Seq(Kinds \cup {"replaced"}), Return(a, what, content)
    PROVE  /\ pc' \in [Agents -> Places]
           /\ holding' \subseteq Agents /\ asked' \subseteq Agents
           /\ reply' \in [Agents -> [what : Results, content : Seq(Kinds \cup {"replaced"})]]
           /\ \A b \in Agents \ {a} : pc'[b] = pc[b] /\ reply'[b] = reply[b]
BY DEF TransferTypes, Return, Goto, Places

\* A tool call arrives.
LEMMA BeginStep ==
    ASSUME TransferInv, NEW a \in Agents, NEW first, NEW content, Begin(a, first, content),
           \/ first = "upload" /\ content \in Contents
           \/ first \in {"download", "list_files"} /\ content = <<>>
    PROVE  TransferInv'
<1>1. first \in Places /\ content \in Seq(Kinds)
      /\ (first = "upload" => Len(content) > 0)
  <2>1. CASE first = "upload" /\ content \in Contents
    <3>1. PICK n \in 1..(MaxFile + 1) : content \in [1..n -> Blocks]
      BY <2>1 DEF Contents
    <3>2. n \in Nat /\ content \in Seq(Kinds)
      BY <3>1, BlocksAssumption, FileBoundAssumption, SeqDef
    <3>3. Len(content) = n
      BY <3>1, <3>2, LenProperties
    <3> QED
      BY <2>1, <3>1, <3>2, <3>3 DEF Places
  <2>2. CASE first \in {"download", "list_files"} /\ content = <<>>
    BY <2>2, EmptySeq DEF Places
  <2> QED
    BY <2>1, <2>2
<1>2. content \in Seq(Kinds \cup {Unread})
  BY <1>1, SeqMonotonic
<1>3. /\ pc' = [pc EXCEPT ![a] = first] /\ data' = [data EXCEPT ![a] = content]
      /\ pos' = [pos EXCEPT ![a] = 0] /\ reply' = [reply EXCEPT ![a] = Nothing]
      /\ UNCHANGED <<file, conn, exited, holding, asked, disturbed>>
  BY DEF Begin, Goto
<1>4. TransferTypes'
  <2>1. Nothing \in [what : Results, content : Seq(Kinds \cup {"replaced"})]
    BY EmptySeq DEF Nothing, Results
  <2> QED
    BY <1>1, <1>2, <1>3, <2>1 DEF TransferInv, TransferTypes
<1>5. AgentInv(a)'
  <2>1. pc'[a] = first /\ data'[a] = content /\ pos'[a] = 0 /\ reply'[a] = Nothing
    BY <1>3 DEF TransferInv, TransferTypes
  <2>2. Uploading(a)'
    BY <1>1, <2>1, LenProperties DEF Uploading
  <2> QED
    BY <2>1, <2>2 DEF AgentInv, Downloading, Pending, Stored, Returned, Nothing
<1>6. ASSUME NEW b \in Agents, b # a PROVE AgentInv(b)'
  <2>1. pc'[b] = pc[b] /\ data'[b] = data[b] /\ pos'[b] = pos[b] /\ reply'[b] = reply[b]
    BY <1>3, <1>6 DEF TransferInv, TransferTypes
  <2> QED
    BY <1>3, <2>1, Frame DEF TransferInv
<1> QED
  BY <1>4, <1>5, <1>6 DEF TransferInv

\* A return with an error or a list: nothing but the agent's result changes.
LEMMA PlainReturn ==
    ASSUME TransferInv, NEW a \in Agents, NEW what \in {"error", "listed"},
           Return(a, what, <<>>), UNCHANGED <<file, conn, exited, data, pos>>,
           disturbed' = disturbed \/ disturbed' = disturbed \ {a}
    PROVE  TransferInv'
<1>t. TransferTypes /\ \A b \in Agents : AgentInv(b)
  BY DEF TransferInv
<1>1. <<>> \in Seq(Kinds \cup {"replaced"}) /\ what \in Results
  BY EmptySeq DEF Results
<1>2. /\ pc' \in [Agents -> Places]
      /\ holding' \subseteq Agents /\ asked' \subseteq Agents
      /\ reply' \in [Agents -> [what : Results, content : Seq(Kinds \cup {"replaced"})]]
      /\ \A b \in Agents \ {a} : pc'[b] = pc[b] /\ reply'[b] = reply[b]
  BY <1>t, <1>1, ReturnType
<1>3. TransferTypes'
  BY <1>t, <1>2 DEF TransferTypes
<1>4. AgentInv(a)'
  BY <1>t, NoContent
<1>5. ASSUME NEW b \in Agents, b # a PROVE AgentInv(b)'
  BY <1>t, <1>2, <1>5, Frame
<1> QED
  BY <1>3, <1>4, <1>5 DEF TransferInv

\* The agent gets the connection, or an error, or sends a request.
LEMMA ClientStep ==
    ASSUME TransferInv, NEW a \in Agents, Lock(a) \/ GetClient(a) \/ Send(a)
    PROVE  TransferInv'
<1>t. TransferTypes /\ \A b \in Agents : AgentInv(b)
  BY DEF TransferInv
<1>1. CASE Lock(a) \/ Send(a)
  <2>1. /\ UNCHANGED <<file, conn, exited, pc, data, pos, reply, disturbed>>
        /\ holding' \subseteq holding \cup {a} /\ asked' \subseteq asked \cup {a}
    BY <1>1 DEF Lock, Send
  <2>2. TransferTypes'
    BY <1>t, <2>1 DEF TransferTypes
  <2> QED
    BY <1>t, <2>1, <2>2, Frame DEF TransferInv
<1>2. CASE GetClient(a) /\ Return(a, "error", <<>>)
  BY <1>2, PlainReturn DEF GetClient
<1>3. CASE GetClient(a) /\ ~Return(a, "error", <<>>)
  <2>1. PICK l \in {"mkdir", "stat", "list"} :
           /\ Goto(a, l) /\ (l = "mkdir" => pc[a] = "upload")
           /\ holding' = holding \ {a} /\ pc[a] # "idle"
           /\ UNCHANGED <<file, conn, exited, asked, data, pos, disturbed, reply>>
    <3>1. pc[a] \in {"upload", "download", "list_files"} /\ Goto(a, FirstRequest[pc[a]])
      BY <1>3 DEF GetClient, FirstRequest
    <3>2. /\ holding' = holding \ {a}
          /\ UNCHANGED <<file, conn, exited, asked, data, pos, disturbed, reply>>
      BY <1>3 DEF GetClient, Unlock
    <3>3. FirstRequest[pc[a]] \in {"mkdir", "stat", "list"}
          /\ (FirstRequest[pc[a]] = "mkdir" => pc[a] = "upload")
      BY <3>1 DEF FirstRequest
    <3> QED
      BY <3>1, <3>2, <3>3
  <2>2. TransferTypes'
    BY <1>t, <2>1 DEF TransferTypes, Goto, Places
  <2>3. pc'[a] = l /\ \A b \in Agents \ {a} : pc'[b] = pc[b]
    BY <1>t, <2>1 DEF Goto, TransferTypes
  <2>4. AgentInv(a)'
    BY <1>t, <2>1, <2>3
    DEF AgentInv, Uploading, Downloading, Pending, Stored, Returned
  <2>5. ASSUME NEW b \in Agents, b # a PROVE AgentInv(b)'
    BY <1>t, <2>1, <2>3, <2>5, Frame
  <2> QED
    BY <2>2, <2>4, <2>5 DEF TransferInv
<1> QED
  BY <1>1, <1>2, <1>3

\* The steps of an upload.
LEMMA UploadStep ==
    ASSUME TransferInv, NEW a \in Agents, MkdirAll(a) \/ Create(a) \/ Write(a)
    PROVE  TransferInv'
<1>t. TransferTypes /\ \A b \in Agents : AgentInv(b)
  BY DEF TransferInv
<1>u. Uploading(a) /\ Pending(a) /\ \A b \in Agents : b # a => AgentInv(b)
  BY <1>t DEF AgentInv
<1>1. CASE MkdirAll(a)
  <2>1. /\ pc[a] = "mkdir" /\ pc' = [pc EXCEPT ![a] = "create"]
        /\ asked' = asked \ {a}
        /\ UNCHANGED <<file, conn, exited, holding, data, pos, reply, disturbed>>
    BY <1>1 DEF MkdirAll, Request, Proceed, Goto
  <2>2. TransferTypes' /\ pc'[a] = "create" /\ \A b \in Agents \ {a} : pc'[b] = pc[b]
    BY <1>t, <2>1 DEF TransferTypes, Places
  <2>3. AgentInv(a)'
    BY <1>t, <2>1, <2>2 DEF AgentInv, Uploading, Downloading, Pending, Stored, Returned
  <2>4. ASSUME NEW b \in Agents, b # a PROVE AgentInv(b)'
    BY <1>t, <2>1, <2>2, <2>4, Frame
  <2> QED
    BY <2>2, <2>3, <2>4 DEF TransferInv
<1>2. CASE Create(a)
  <2>1. /\ pc[a] = "create" /\ pc' = [pc EXCEPT ![a] = "write"] /\ file' = <<>>
        /\ disturbed' = Agents \ {a} /\ asked' = asked \ {a}
        /\ UNCHANGED <<conn, exited, holding, data, pos, reply>>
    BY <1>2 DEF Create, Request, Proceed, Goto
  <2>2. file' \in Seq(Kinds) /\ file' # Absent
    BY <2>1, EmptySeq, NotAbsent
  <2>3. TransferTypes' /\ pc'[a] = "write" /\ \A b \in Agents \ {a} : pc'[b] = pc[b]
    BY <1>t, <2>1, <2>2 DEF TransferTypes, Places
  <2>4. data[a] \in Seq(Kinds) /\ pos[a] = 0 /\ pos[a] < Len(data[a])
    BY <1>u, <2>1 DEF Uploading
  <2>5. SubSeq(data[a], 1, 0) = <<>>
    BY SubSeqEmpty
  <2>6. Uploading(a)'
    BY <2>1, <2>2, <2>3, <2>4, <2>5 DEF Uploading
  <2>7. AgentInv(a)'
    BY <1>u, <2>1, <2>3, <2>6 DEF AgentInv, Downloading, Pending, Stored, Returned
  <2>8. ASSUME NEW b \in Agents, b # a PROVE AgentInv(b)'
    BY <1>u, <2>1, <2>2, <2>3, <2>8, Frame
  <2> QED
    BY <2>3, <2>7, <2>8 DEF TransferInv
<1>3. CASE Write(a)
  <2> DEFINE next == pos[a] + 1
  <2>1. /\ pc[a] = "write" /\ file' = Put(file, next, data[a][next])
        /\ pos' = [pos EXCEPT ![a] = next]
        /\ disturbed' = disturbed \cup (Agents \ {a})
        /\ UNCHANGED <<conn, exited, data>>
    BY <1>3 DEF Write, Request
  <2>2. /\ data[a] \in Seq(Kinds) /\ pos[a] \in Nat /\ Len(data[a]) \in Nat
        /\ next \in 1..Len(data[a]) /\ data[a][next] \in Kinds /\ next \in Nat \ {0}
    <3>1. data[a] \in Seq(Kinds) /\ pos[a] < Len(data[a]) /\ pos[a] \in Nat
      BY <1>t, <1>u, <2>1 DEF Uploading, TransferTypes
    <3>2. Len(data[a]) \in Nat
      BY <3>1, LenProperties
    <3>3. next \in 1..Len(data[a])
      BY <3>1, <3>2
    <3> QED
      BY <3>1, <3>2, <3>3, ElementOfSeq
  <2>3. file \in Seq(Kinds)
    BY <1>t, <1>u, <2>1 DEF Uploading, TransferTypes
  <2>4. file' \in Seq(Kinds) /\ file' # Absent
    BY <2>1, <2>2, <2>3, PutType, NotAbsent
  <2>5. a \notin disturbed' => file' = SubSeq(data[a], 1, next)
    <3>1. a \notin disturbed' => file = SubSeq(data[a], 1, pos[a])
      BY <1>u, <2>1 DEF Uploading
    <3>2. pos[a] \in 0..(Len(data[a]) - 1)
      BY <2>2
    <3>3. Put(SubSeq(data[a], 1, pos[a]), pos[a] + 1, data[a][pos[a] + 1])
            = SubSeq(data[a], 1, pos[a] + 1)
      BY <2>2, <3>2, PutNext
    <3> QED
      BY <2>1, <3>1, <3>3
  <2>6. pos' \in [Agents -> Nat] /\ pos'[a] = next
        /\ \A b \in Agents \ {a} : pos'[b] = pos[b]
    BY <1>t, <2>1, <2>2 DEF TransferTypes
  <2>7. CASE next = Len(data[a]) /\ Return(a, "uploaded", <<>>)
    <3>1. <<>> \in Seq(Kinds \cup {"replaced"}) /\ "uploaded" \in Results
      BY EmptySeq DEF Results
    <3>2. /\ pc' \in [Agents -> Places]
          /\ holding' \subseteq Agents /\ asked' \subseteq Agents
          /\ reply' \in [Agents -> [what : Results, content : Seq(Kinds \cup {"replaced"})]]
          /\ \A b \in Agents \ {a} : pc'[b] = pc[b] /\ reply'[b] = reply[b]
      BY <1>t, <2>7, <3>1, ReturnType
    <3>3. TransferTypes'
      BY <1>t, <2>1, <2>4, <2>6, <3>2 DEF TransferTypes
    <3>4. pc'[a] = "idle" /\ reply'[a].what = "uploaded"
      BY <1>t, <2>7 DEF Return, Goto, TransferTypes
    <3>5. Stored(a)'
      BY <2>1, <2>2, <2>5, <2>7, SubSeqFull DEF Stored
    <3>6. AgentInv(a)'
      BY <3>4, <3>5 DEF AgentInv, Uploading, Downloading, Pending, Returned
    <3>7. ASSUME NEW b \in Agents, b # a PROVE AgentInv(b)'
      BY <1>u, <2>1, <2>4, <2>6, <3>2, <3>7, Frame
    <3> QED
      BY <3>3, <3>6, <3>7 DEF TransferInv
  <2>8. CASE next # Len(data[a]) /\ Proceed(a, "write") /\ UNCHANGED <<reply, holding>>
    <3>0. pc' = pc /\ asked' = asked \ {a}
      BY <1>t, <2>1, <2>8 DEF Proceed, Goto, TransferTypes
    <3>1. TransferTypes'
      BY <1>t, <2>1, <2>4, <2>6, <2>8, <3>0 DEF TransferTypes
    <3>2. next < Len(data[a])
      BY <2>2, <2>8
    <3>3. Uploading(a)'
      BY <2>1, <2>2, <2>4, <2>5, <2>6, <2>8, <3>0, <3>2 DEF Uploading
    <3>4. AgentInv(a)'
      BY <1>u, <2>1, <2>8, <3>0, <3>3 DEF AgentInv, Downloading, Pending, Stored, Returned
    <3>5. ASSUME NEW b \in Agents, b # a PROVE AgentInv(b)'
      BY <1>u, <2>1, <2>4, <2>6, <2>8, <3>0, <3>5, Frame
    <3> QED
      BY <3>1, <3>4, <3>5 DEF TransferInv
  <2> QED
    BY <1>3, <2>7, <2>8 DEF Write
<1> QED
  BY <1>1, <1>2, <1>3

\* The size is asked for, and the download may begin.
LEMMA StatStep ==
    ASSUME TransferInv, NEW a \in Agents, Stat(a)
    PROVE  TransferInv'
<1>t. TransferTypes /\ \A b \in Agents : AgentInv(b)
  BY DEF TransferInv
<1>1. /\ pc[a] = "stat" /\ file # Absent /\ disturbed' = disturbed \ {a}
      /\ UNCHANGED <<file, conn, exited, pos>>
  BY DEF Stat, Request
<1>2. CASE TooLarge(Len(file))
  BY <1>1, <1>2, PlainReturn DEF Stat
<1>3. CASE ~TooLarge(Len(file))
  <2>1. /\ data' = [data EXCEPT ![a] = [i \in DOMAIN file |-> Unread]]
        /\ pc' = [pc EXCEPT ![a] = "open"] /\ asked' = asked \ {a}
        /\ UNCHANGED <<reply, holding>>
    BY <1>3 DEF Stat, Proceed, Goto
  <2> DEFINE unread == [i \in DOMAIN file |-> Unread]
  <2>2. file \in Seq(Kinds)
    BY <1>t, <1>1 DEF TransferTypes
  <2>3. unread \in [1..Len(file) -> Kinds \cup {Unread}] /\ DOMAIN unread = DOMAIN file
    BY <2>2, LenProperties
  <2>4. unread \in Seq(Kinds \cup {Unread})
    BY <2>2, <2>3, SeqDef, LenProperties
  <2>5. Len(unread) = Len(file) /\ Len(file) <= MaxFile
    <3>1. Len(unread) = Len(file)
      BY <2>2, <2>3, <2>4, LenProperties
    <3>2. Len(file) <= MaxFile
      BY <1>3, <2>2, LenProperties, FileBoundAssumption DEF TooLarge
    <3> QED
      BY <3>1, <3>2
  <2>6. /\ pc'[a] = "open" /\ data'[a] = unread
        /\ \A b \in Agents \ {a} : pc'[b] = pc[b] /\ data'[b] = data[b]
    BY <1>t, <2>1 DEF TransferTypes
  <2>7. TransferTypes'
    BY <1>t, <1>1, <2>1, <2>4 DEF TransferTypes, Places
  <2>8. Downloading(a)'
    BY <1>1, <2>3, <2>5, <2>6 DEF Downloading
  <2>9. reply'[a].what = "none"
    BY <1>t, <1>1, <2>1 DEF AgentInv, Pending
  <2>10. AgentInv(a)'
    BY <2>6, <2>8, <2>9 DEF AgentInv, Uploading, Pending, Stored, Returned
  <2>11. ASSUME NEW b \in Agents, b # a PROVE AgentInv(b)'
    BY <1>t, <1>1, <2>1, <2>6, <2>11, Frame
  <2> QED
    BY <2>7, <2>10, <2>11 DEF TransferInv
<1> QED
  BY <1>2, <1>3

\* A block of the download arrives, or is gone.
LEMMA ReadStep ==
    ASSUME TransferInv, NEW a \in Agents, Open(a) \/ \E i \in DOMAIN data[a] : Read(a, i)
    PROVE  TransferInv'
<1>t. TransferTypes /\ \A b \in Agents : AgentInv(b)
  BY DEF TransferInv
<1>u. Downloading(a) /\ Pending(a) /\ \A b \in Agents : b # a => AgentInv(b)
  BY <1>t DEF AgentInv
<1>1. CASE Open(a)
  <2>1. /\ pc[a] = "open" /\ pc' = [pc EXCEPT ![a] = "read"]
        /\ asked' = asked \ {a}
        /\ UNCHANGED <<file, conn, exited, holding, data, pos, reply, disturbed>>
    BY <1>1 DEF Open, Request, Proceed, Goto
  <2>2. TransferTypes' /\ pc'[a] = "read" /\ \A b \in Agents \ {a} : pc'[b] = pc[b]
    BY <1>t, <2>1 DEF TransferTypes, Places
  <2>3. AgentInv(a)'
    BY <1>u, <2>1, <2>2 DEF AgentInv, Uploading, Downloading, Pending, Stored, Returned
  <2>4. ASSUME NEW b \in Agents, b # a PROVE AgentInv(b)'
    BY <1>u, <2>1, <2>2, <2>4, Frame
  <2> QED
    BY <2>2, <2>3, <2>4 DEF TransferInv
<1>2. ASSUME NEW i \in DOMAIN data[a], Read(a, i) PROVE TransferInv'
  <2>1. pc[a] = "read" /\ UNCHANGED <<file, conn, exited, pos, disturbed>>
    BY <1>2 DEF Read, Request
  <2>2. CASE i \notin DOMAIN file
    BY <1>2, <2>1, <2>2, PlainReturn DEF Read
  <2>3. CASE i \in DOMAIN file
    <3>1. /\ data' = [data EXCEPT ![a] = [data[a] EXCEPT ![i] = file[i]]]
          /\ UNCHANGED <<pc, reply, holding, asked>>
      BY <1>2, <2>3 DEF Read
    <3>2. file \in Seq(Kinds) /\ file[i] \in Kinds
      <4>1. file \in Seq(Kinds)
        BY <1>t, <1>u, <2>1 DEF Downloading, TransferTypes
      <4> QED
        BY <2>3, <4>1, LenProperties, ElementOfSeq
    <3>3. data[a] \in Seq(Kinds \cup {Unread}) /\ i \in 1..Len(data[a])
      BY <1>t, LenProperties DEF TransferTypes
    <3> DEFINE d == [data[a] EXCEPT ![i] = file[i]]
    <3>4. /\ d \in Seq(Kinds \cup {Unread}) /\ Len(d) = Len(data[a])
          /\ DOMAIN d = DOMAIN data[a] /\ d[i] = file[i]
          /\ \A j \in DOMAIN data[a] : j # i => d[j] = data[a][j]
      BY <3>2, <3>3, ExceptSeq
    <3>5. data'[a] = d /\ \A b \in Agents \ {a} : data'[b] = data[b]
      BY <1>t, <3>1 DEF TransferTypes
    <3>6. TransferTypes'
      BY <1>t, <2>1, <3>1, <3>4 DEF TransferTypes
    <3>7. Downloading(a)'
      BY <1>u, <2>1, <3>1, <3>4, <3>5 DEF Downloading
    <3>8. AgentInv(a)'
      BY <1>u, <2>1, <3>1, <3>7 DEF AgentInv, Uploading, Pending, Stored, Returned
    <3>9. ASSUME NEW b \in Agents, b # a PROVE AgentInv(b)'
      BY <1>u, <2>1, <3>1, <3>5, <3>9, Frame
    <3> QED
      BY <3>6, <3>8, <3>9 DEF TransferInv
  <2> QED
    BY <2>2, <2>3
<1> QED
  BY <1>1, <1>2

\* The last block has arrived.
LEMMA DownloadedStep ==
    ASSUME TransferInv, NEW a \in Agents, Downloaded(a)
    PROVE  TransferInv'
<1>t. TransferTypes /\ \A b \in Agents : AgentInv(b)
  BY DEF TransferInv
<1>1. /\ pc[a] = "read" /\ ~Contains(data[a], Unread)
      /\ Return(a, "downloaded", OnTheWire(data[a]))
      /\ UNCHANGED <<file, conn, exited, data, pos, disturbed>>
  BY DEF Downloaded, ReadFull
<1>2. data[a] \in Seq(Kinds)
  BY <1>t, <1>1, AllRead DEF TransferTypes
<1>3. /\ OnTheWire(data[a]) \in Seq(Kinds \cup {"replaced"})
      /\ Len(OnTheWire(data[a])) = Len(data[a])
  BY <1>2, WireType
<1>4. /\ pc' \in [Agents -> Places]
      /\ holding' \subseteq Agents /\ asked' \subseteq Agents
      /\ reply' \in [Agents -> [what : Results, content : Seq(Kinds \cup {"replaced"})]]
      /\ \A b \in Agents \ {a} : pc'[b] = pc[b] /\ reply'[b] = reply[b]
  <2>1. "downloaded" \in Results
    BY DEF Results
  <2> QED
    BY <1>t, <1>1, <1>3, <2>1, ReturnType
<1>5. TransferTypes'
  BY <1>t, <1>1, <1>4 DEF TransferTypes
<1>6. /\ pc'[a] = "idle" /\ reply'[a].what = "downloaded"
      /\ reply'[a].content = OnTheWire(data[a])
  BY <1>t, <1>1 DEF Return, Goto, TransferTypes
<1>7. Len(data[a]) <= MaxFile /\ file # Absent /\ (a \notin disturbed => data[a] = file)
  <2>1. Downloading(a) /\ file \in Seq(Kinds)
    BY <1>t, <1>1 DEF AgentInv, Downloading, TransferTypes
  <2>2. \A i \in DOMAIN data[a] : data[a][i] # Unread
    BY <1>1, <1>2, LenProperties DEF Contains
  <2>3. ASSUME a \notin disturbed PROVE data[a] = file
    <3>1. DOMAIN data[a] = DOMAIN file /\ \A i \in DOMAIN file : data[a][i] = file[i]
      BY <1>1, <2>1, <2>2, <2>3 DEF Downloading
    <3>2. Len(data[a]) = Len(file)
      BY <1>2, <2>1, <3>1, LenProperties
    <3> QED
      BY <1>2, <2>1, <3>1, <3>2, LenProperties, SeqEqual
  <2> QED
    BY <1>1, <2>1, <2>3 DEF Downloading
<1>8. Returned(a)'
  <2>1. Len(reply'[a].content) <= MaxFile
    BY <1>3, <1>6, <1>7
  <2>2. a \notin disturbed' => file' # Absent /\ reply'[a].content = OnTheWire(file')
    BY <1>1, <1>6, <1>7
  <2>3. OnTheWire(file)' = OnTheWire(file')
    BY DEF OnTheWire
  <2> QED
    BY <2>1, <2>2, <2>3 DEF Returned
<1>9. AgentInv(a)'
  BY <1>6, <1>8 DEF AgentInv, Uploading, Downloading, Pending, Stored
<1>10. ASSUME NEW b \in Agents, b # a PROVE AgentInv(b)'
  BY <1>t, <1>1, <1>4, <1>10, Frame
<1> QED
  BY <1>5, <1>9, <1>10 DEF TransferInv

\* The process writes, the session exits, the connection is closed.
LEMMA EnvironmentStep ==
    ASSUME TransferInv, ProcessWrites \/ Exit \/ Closer \/ ChannelEnds \/ UNCHANGED vars
    PROVE  TransferInv'
<1>t. TransferTypes /\ \A b \in Agents : AgentInv(b)
  BY DEF TransferInv
<1>1. CASE ProcessWrites
  <2>1. PICK f \in Seq(Kinds) : Change(f)
    <3>1. CASE Change(<<>>)
      BY <3>1, EmptySeq
    <3>2. ASSUME file # Absent, NEW b \in Blocks, Change(Append(file, b))
          PROVE  \E f \in Seq(Kinds) : Change(f)
      <4>1. file \in Seq(Kinds) /\ b \in Kinds
        BY <1>t, <3>2, BlocksAssumption DEF TransferTypes
      <4>2. Append(file, b) \in Seq(Kinds)
        BY <4>1, AppendProperties
      <4> QED
        BY <3>2, <4>2
    <3> QED
      BY <1>1, <3>1, <3>2 DEF ProcessWrites
  <2>2. /\ file' = f /\ file' # Absent /\ disturbed' = Agents
        /\ UNCHANGED <<conn, exited, holding, asked, pc, data, pos, reply>>
    BY <2>1, NotAbsent DEF Change, agentVars
  <2>3. TransferTypes'
    BY <1>t, <2>2 DEF TransferTypes
  <2> QED
    BY <1>t, <2>2, <2>3, Frame DEF TransferInv
<1>2. CASE Exit \/ Closer \/ ChannelEnds \/ UNCHANGED vars
  <2>1. /\ UNCHANGED <<file, holding, asked, pc, data, pos, reply, disturbed>>
        /\ conn' \in {"up", "closing", "closed"} /\ exited' \in BOOLEAN
    BY <1>t, <1>2 DEF Exit, Closer, ChannelEnds, vars, agentVars, TransferTypes
  <2>2. TransferTypes'
    BY <1>t, <2>1 DEF TransferTypes
  <2> QED
    BY <1>t, <2>1, <2>2, Frame DEF TransferInv
<1> QED
  BY <1>1, <1>2

\* The invariant of the transfers holds in every reachable state.
LEMMA TransferInvariant == Spec => []TransferInv
<1>1. ASSUME Init PROVE TransferInv
  <2>1. <<>> \in Seq(Kinds \cup {Unread}) /\ <<>> \in Seq(Kinds \cup {"replaced"})
    BY EmptySeq
  <2>2. TransferTypes
    BY <1>1, <2>1 DEF Init, TransferTypes, Nothing, Places, Results
  <2>3. ASSUME NEW a \in Agents PROVE AgentInv(a)
    BY <1>1 DEF Init, Nothing, AgentInv, Uploading, Downloading, Pending, Stored, Returned
  <2> QED
    BY <2>2, <2>3 DEF TransferInv
<1>2. ASSUME TransferInv, [Next]_vars PROVE TransferInv'
  <2>1. ASSUME NEW a \in Agents, Fail(a) \/ ListFiles(a) PROVE TransferInv'
    BY <1>2, <2>1, PlainReturn DEF Fail, Answer, ListFiles
  <2> QED
    BY <1>2, <2>1, BeginStep, ClientStep, UploadStep, StatStep, ReadStep, DownloadedStep,
       EnvironmentStep
    DEF Next, Local
<1> QED
  BY <1>1, <1>2, PTL DEF Spec

\* An upload that is reported done has stored all of its content, unless the file was
\* changed by another upload or by the process (session.go:341-354).
THEOREM UploadsAreStored == Spec => []UploadedIsStored
<1>1. TransferInv => UploadedIsStored
  BY DEF TransferInv, AgentInv, Stored, UploadedIsStored
<1> QED
  BY <1>1, TransferInvariant, PTL

\* A download of a file nobody wrote meanwhile has all its blocks, each as it is but
\* for those that json.Marshal replaces in a text, and none is larger than the limit
\* (session.go:380-401).
THEOREM DownloadsAreTheFile == Spec => []DownloadedIsFile
<1>1. ASSUME TransferTypes, NEW a \in Agents, Returned(a), reply[a].what = "downloaded",
             a \notin disturbed
      PROVE  /\ Len(reply[a].content) = Len(file)
             /\ \A i \in DOMAIN file : reply[a].content[i] # file[i] =>
                   file[i] = "raw" /\ ~Contains(file, "bin")
  <2>1. reply[a].content = OnTheWire(file) /\ file \in Seq(Kinds)
    BY <1>1 DEF Returned, TransferTypes
  <2>2. Len(reply[a].content) = Len(file)
    BY <2>1, WireType
  <2>3. ASSUME NEW i \in DOMAIN file, reply[a].content[i] # file[i]
        PROVE  file[i] = "raw" /\ ~Contains(file, "bin")
    BY <2>1, <2>3 DEF OnTheWire
  <2> QED
    BY <2>2, <2>3
<1>2. TransferInv => DownloadedIsFile
  BY <1>1 DEF TransferInv, AgentInv, Returned, DownloadedIsFile
<1> QED
  BY <1>2, TransferInvariant, PTL
================================================================================
