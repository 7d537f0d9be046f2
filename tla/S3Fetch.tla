------------------------------- MODULE S3Fetch -------------------------------
(***************************************************************************)
(* decompression-speed-s3: the parts of a table are downloaded by the S3   *)
(* client and decompressed by a flow-graph node, through a fixed pool of   *)
(* buffers.  Main sends every request and waits; the client asks for a     *)
(* stream over a free buffer, fills it and calls back; the callback hands  *)
(* the index of the buffer to the node; a task of the node decompresses    *)
(* what the buffer holds, gives the buffer back and counts.                *)
(*                                                                         *)
(* A critical section is one action.  A condition variable is its set of   *)
(* sleepers: notify_one wakes one of them, or nobody.  The client is       *)
(* external: it may call the stream factory for a request on any thread    *)
(* that no callback needs, answers requests in any order, and deletes a    *)
(* stream some time after its callback has returned.                       *)
(***************************************************************************)
EXTENDS Integers, Sequences, FiniteSets

CONSTANTS
    NumParts,        \* the metadata: the number of parts of each column, a sequence
    Columns,         \* --columns: the columns to fetch, a sequence
    Reps,            \* --reps
    NumBuffers,      \* --prealloc
    NodeLimit,       \* --threads: tasks of the node that may run at once
    Addresses        \* where the allocator may put a stream

ASSUME ConfigAssumption ==
    /\ NumParts \in Seq(Nat)
    /\ Columns \in Seq(DOMAIN NumParts)
    /\ Reps \in Nat
    /\ NumBuffers \in Nat \ {0}
    /\ NodeLimit \in Nat \ {0}
    /\ IsFiniteSet(Addresses)

VARIABLES
    main,            \* where main is
    next_index,      \* requests sent so far
    request,         \* [Requests -> where the request is, its buffer, stream and streambuf]
    available,       \* buffers_available
    occupied_map,    \* [Addresses -> the buffer of the stream last made there]
    streambuf,       \* streambufs: [Buffers -> which of its successive objects is current]
    deleted,         \* streambuf objects deleted
    content,         \* [Buffers -> the request whose bytes it holds]
    task,            \* the messages of the node, in the order of try_put
    started,         \* how many of them the node has started
    remaining,       \* remaining_results
    decompressed,    \* [Requests -> how often its bytes were decompressed]
    crashed          \* the callback has thrown

vars == <<main, next_index, request, available, occupied_map, streambuf, deleted,
          content, task, started, remaining, decompressed, crashed>>

None == 0
Buffers == 1..NumBuffers

\* The parts of the first n selected columns; s3_init gets Reps times those of all.
PartsOf(n) ==
    LET sum[i \in 0..n] == IF i = 0 THEN 0 ELSE sum[i - 1] + NumParts[Columns[i]]
    IN  sum[n]
TotalParts == PartsOf(Len(Columns))
Requests == 1..(Reps * TotalParts)

\* The part the r-th request asks for: in every repetition, column by column.
KeyOf(r) ==
    LET j == (r - 1) % TotalParts
        i == CHOOSE i \in 1..Len(Columns) : PartsOf(i - 1) <= j /\ j < PartsOf(i)
    IN  <<Columns[i], j - PartsOf(i - 1)>>

Asleep == {r \in Requests : request[r].pc = "asleep"}
Live(r) == request[r].pc \in {"streaming", "received", "returned"}
FreeAddresses == Addresses \ {request[r].address : r \in {q \in Requests : Live(q)}}
Running == {k \in 1..started : task[k].pc # "done"}

---------------------------------------------------------------------------
(* main: requestColumn and s3_requestFile for every part, then s3_wait_for_end *)

MoreToSend_OneTooMany == next_index <= Cardinality(Requests)
MoreToSend == next_index < Cardinality(Requests)
RequestFile ==
    /\ main = "requesting" /\ MoreToSend
    /\ next_index' = next_index + 1
    /\ request' = [request EXCEPT ![next_index + 1].pc = "asked"]
    /\ UNCHANGED <<main, available, occupied_map, streambuf, deleted, content, task, started,
                   remaining, decompressed>>

AllSent ==
    /\ main = "requesting" /\ ~MoreToSend
    /\ main' = "awake"
    /\ UNCHANGED <<next_index, request, available, occupied_map, streambuf, deleted, content,
                   task, started, remaining, decompressed>>

\* s3_wait_for_end: the predicate of the wait, then the wait for an idle graph.
MayLeaveWait == remaining = 0
WaitForEnd ==
    /\ main = "awake"
    /\ main' = IF MayLeaveWait THEN "draining" ELSE "asleep"
    /\ UNCHANGED <<next_index, request, available, occupied_map, streambuf, deleted, content,
                   task, started, remaining, decompressed>>

GraphIdle == \A k \in 1..Len(task) : task[k].pc = "done"
WaitForAll ==
    /\ main = "draining" /\ GraphIdle
    /\ main' = "freeing"
    /\ UNCHANGED <<next_index, request, available, occupied_map, streambuf, deleted, content,
                   task, started, remaining, decompressed>>

\* s3_free_buffers deletes the streambufs the vector holds, not the replaced ones.
FreeBuffers ==
    /\ main = "freeing"
    /\ main' = "finished"
    /\ deleted' = deleted \cup {<<b, streambuf[b]>> : b \in Buffers}
    /\ UNCHANGED <<next_index, request, available, occupied_map, streambuf, content,
                   task, started, remaining, decompressed>>

Main == RequestFile \/ AllSent \/ WaitForEnd \/ WaitForAll \/ FreeBuffers

---------------------------------------------------------------------------
(* The client, and the two functions it calls *)

\* s3_getStream, first half: wait for a buffer and take it from the queue.
TakeBuffer(r) ==
    /\ request[r].pc = "asked"
    /\ IF available = <<>>
       THEN /\ request' = [request EXCEPT ![r].pc = "asleep"]
            /\ UNCHANGED available
       ELSE /\ request' = [request EXCEPT ![r].pc = "taken", ![r].buffer = Head(available)]
            /\ available' = Tail(available)
    /\ UNCHANGED <<main, next_index, occupied_map, streambuf, deleted, content, task, started,
                   remaining, decompressed>>

\* s3_getStream, second half: a stream over the current streambuf of the buffer.
\* Its address may be that of an earlier stream, so the map entry is overwritten.
Entered_KeepsFirst(map, a, b) == IF map[a] = None THEN [map EXCEPT ![a] = b] ELSE map
Entered(map, a, b) == [map EXCEPT ![a] = b]
MakeStream(r) ==
    /\ request[r].pc = "taken"
    /\ \E a \in FreeAddresses :
         /\ request' = [request EXCEPT ![r].pc = "streaming", ![r].address = a,
                                       ![r].object = streambuf[request[r].buffer]]
         /\ occupied_map' = Entered(occupied_map, a, request[r].buffer)
    /\ UNCHANGED <<main, next_index, available, streambuf, deleted, content, task, started,
                   remaining, decompressed>>

Download(r) ==
    /\ request[r].pc = "streaming"
    /\ request' = [request EXCEPT ![r].pc = "received"]
    /\ content' = [content EXCEPT ![request[r].buffer] = r]
    /\ UNCHANGED <<main, next_index, available, occupied_map, streambuf, deleted, task, started,
                   remaining, decompressed>>

\* s3_GetObjectResponseReceiveHandler of a request that succeeded.
Callback(r) ==
    /\ request[r].pc = "received"
    /\ request' = [request EXCEPT ![r].pc = "returned"]
    /\ task' = Append(task, [pc |-> "queued", buffer |-> occupied_map[request[r].address]])
    /\ UNCHANGED <<main, next_index, available, occupied_map, streambuf, deleted, content, started,
                   remaining, decompressed>>

DeleteStream(r) ==
    /\ request[r].pc = "returned"
    /\ request' = [request EXCEPT ![r].pc = "gone"]
    /\ UNCHANGED <<main, next_index, available, occupied_map, streambuf, deleted, content, task,
                   started, remaining, decompressed>>

Client(r) == TakeBuffer(r) \/ MakeStream(r) \/ Download(r) \/ Callback(r) \/ DeleteStream(r)

\* The handler throws on the client's thread when the request failed: the process ends.
RequestFails(r) ==
    /\ request[r].pc = "streaming"
    /\ crashed' = TRUE
    /\ UNCHANGED <<main, next_index, request, available, occupied_map, streambuf, deleted,
                   content, task, started, remaining, decompressed>>

---------------------------------------------------------------------------
(* The decompressor node and decompressPart *)

\* The steps of decompressPart, s3_decompressPartFinish and, within it, s3_releaseBuffer.
Steps_ReleaseFirst == <<"renewing", "releasing", "reading", "notifying", "counting">>
Steps == <<"reading", "renewing", "releasing", "notifying", "counting">>
After(pc) == Steps[1 + CHOOSE i \in 1..4 : Steps[i] = pc]

StartTask ==
    /\ started < Len(task) /\ Cardinality(Running) < NodeLimit
    /\ started' = started + 1
    /\ task' = [task EXCEPT ![started + 1].pc = Steps[1]]
    /\ UNCHANGED <<main, next_index, request, available, occupied_map, streambuf, deleted,
                   content, remaining, decompressed>>

\* decompressPart reads the buffer until now: what it decompressed is what is there.
ReadPart(k) ==
    /\ task[k].pc = "reading"
    /\ task' = [task EXCEPT ![k].pc = After(@)]
    /\ decompressed' = [decompressed EXCEPT ![content[task[k].buffer]] = @ + 1]
    /\ UNCHANGED <<main, next_index, request, available, occupied_map, streambuf, deleted,
                   content, started, remaining>>

\* s3_releaseBuffer: a new streambuf, the buffer back into the queue, the notification.
Renewed_Reused(b) == streambuf
Renewed(b) == [streambuf EXCEPT ![b] = @ + 1]
RenewStreambuf(k) ==
    /\ task[k].pc = "renewing"
    /\ task' = [task EXCEPT ![k].pc = After(@)]
    /\ streambuf' = Renewed(task[k].buffer)
    /\ UNCHANGED <<main, next_index, request, available, occupied_map, deleted, content,
                   started, remaining, decompressed>>

ReleaseBuffer(k) ==
    /\ task[k].pc = "releasing"
    /\ task' = [task EXCEPT ![k].pc = After(@)]
    /\ available' = Append(available, task[k].buffer)
    /\ UNCHANGED <<main, next_index, request, occupied_map, streambuf, deleted, content,
                   started, remaining, decompressed>>

Woken_Nobody == {request}
Woken ==
    IF Asleep = {} THEN {request}
    ELSE {[request EXCEPT ![r].pc = "asked"] : r \in Asleep}
NotifyBuffer(k) ==
    /\ task[k].pc = "notifying"
    /\ task' = [task EXCEPT ![k].pc = After(@)]
    /\ request' \in Woken
    /\ UNCHANGED <<main, next_index, available, occupied_map, streambuf, deleted, content,
                   started, remaining, decompressed>>

\* s3_decompressPartFinish: count, and wake main after the last.
CountResult(k) ==
    /\ task[k].pc = "counting"
    /\ remaining' = remaining - 1
    /\ task' = [task EXCEPT ![k].pc = IF remaining' = 0 THEN "waking" ELSE "done"]
    /\ UNCHANGED <<main, next_index, request, available, occupied_map, streambuf, deleted,
                   content, started, decompressed>>

WakeMain(k) ==
    /\ task[k].pc = "waking"
    /\ task' = [task EXCEPT ![k].pc = "done"]
    /\ main' = IF main = "asleep" THEN "awake" ELSE main
    /\ UNCHANGED <<next_index, request, available, occupied_map, streambuf, deleted, content,
                   started, remaining, decompressed>>

Task(k) ==
    \/ ReadPart(k) \/ RenewStreambuf(k) \/ ReleaseBuffer(k) \/ NotifyBuffer(k)
    \/ CountResult(k) \/ WakeMain(k)

---------------------------------------------------------------------------

Init ==
    /\ main = "requesting" /\ next_index = 0
    /\ request = [r \in Requests |->
                   [pc |-> "unsent", buffer |-> None, address |-> None, object |-> None]]
    /\ available = [b \in Buffers |-> b]
    /\ occupied_map = [a \in Addresses |-> None]
    /\ streambuf = [b \in Buffers |-> 1] /\ deleted = {}
    /\ content = [b \in Buffers |-> None]
    /\ task = <<>> /\ started = 0
    /\ remaining = Cardinality(Requests)
    /\ decompressed = [r \in Requests |-> 0]
    /\ crashed = FALSE

Step ==
    \/ Main \/ StartTask
    \/ \E r \in Requests : Client(r)
    \/ \E k \in 1..started : Task(k)

Finished == (main = "finished" \/ crashed) /\ UNCHANGED vars

Next ==
    \/ ~crashed /\ Step /\ UNCHANGED crashed
    \/ ~crashed /\ \E r \in Requests : RequestFails(r)
    \/ Finished

Spec == Init /\ [][Next]_vars

\* Threads run, and the client answers every request in the end, with success or not.
FairSpec ==
    /\ Spec
    /\ WF_vars(~crashed /\ Main /\ UNCHANGED crashed)
    /\ WF_vars(~crashed /\ StartTask /\ UNCHANGED crashed)
    /\ \A r \in Requests : WF_vars(~crashed /\ Client(r) /\ UNCHANGED crashed)
    /\ \A k \in Requests : WF_vars(~crashed /\ k <= started /\ Task(k) /\ UNCHANGED crashed)

---------------------------------------------------------------------------
(* Properties *)

\* Every variable has its type.
TypeOK ==
    /\ main \in {"requesting", "awake", "asleep", "draining", "freeing", "finished"}
    /\ next_index \in 0..Cardinality(Requests)
    /\ request \in [Requests ->
         [pc : {"unsent", "asked", "asleep", "taken", "streaming", "received", "returned", "gone"},
          buffer : Buffers \cup {None}, address : Addresses \cup {None}, object : Nat]]
    /\ available \in Seq(Buffers)
    /\ occupied_map \in [Addresses -> Buffers \cup {None}]
    /\ streambuf \in [Buffers -> Nat \ {0}]
    /\ deleted \subseteq Buffers \X (Nat \ {0})
    /\ content \in [Buffers -> Requests \cup {None}]
    /\ task \in Seq([pc : {"queued", "reading", "renewing", "releasing", "notifying", "counting",
                           "waking", "done"}, buffer : Buffers])
    /\ started \in 0..Len(task)
    /\ remaining \in 0..Cardinality(Requests)
    /\ decompressed \in [Requests -> Nat]
    /\ crashed \in BOOLEAN

\* Who has a buffer: the queue, a request that has not called back, or a task that
\* has not given it back.
QueueSlots(b) == {i \in 1..Len(available) : available[i] = b}
Takers(b) ==
    {r \in Requests : request[r].buffer = b /\ request[r].pc \in {"taken", "streaming", "received"}}
Users(b) ==
    {k \in 1..Len(task) : task[k].buffer = b
                         /\ task[k].pc \in {"queued", "reading", "renewing", "releasing"}}

\* A buffer is at exactly one place at any time, whatever the order of answers,
\* callbacks and tasks, and wherever the allocator puts the streams: nothing is
\* downloaded over bytes still being read, and no buffer is lost.
BufferHasOneUser ==
    \A b \in Buffers :
        Cardinality(QueueSlots(b)) + Cardinality(Takers(b)) + Cardinality(Users(b)) = 1

\* No part is decompressed more often than it was asked for, and when main has
\* left its wait, each selected part was decompressed Reps times.
EachPartOnce ==
    /\ \A r \in Requests : decompressed[r] <= 1
    /\ main \in {"draining", "freeing", "finished"} =>
         \A i \in 1..Len(Columns) : \A p \in 0..(NumParts[Columns[i]] - 1) :
             Cardinality({r \in Requests : KeyOf(r) = <<Columns[i], p>> /\ decompressed[r] = 1})
               = Reps * Cardinality({j \in 1..Len(Columns) : Columns[j] = Columns[i]})

\* The client may still delete a stream after its buffer was given back, used again,
\* and all buffers were freed: the streambuf under a stream is never deleted.
StreambufOutlivesStream ==
    \A r \in Requests : Live(r) => <<request[r].buffer, request[r].object>> \notin deleted

\* With fewer buffers than requests everybody waits for somebody, but main always
\* gets to the end unless a request fails: no notification is lost.
Terminates == <>(main = "finished" \/ crashed)
=============================================================================
