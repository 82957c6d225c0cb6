---------------------------- MODULE FileTransfer ----------------------------
(***************************************************************************)
(* File jobs of gse-server: a file is copied chunk by chunk from an agent  *)
(* or from the server's store to an agent or to the store.  The server     *)
(* pumps; the agents only answer file_read and file_write.                 *)
(*                                                                         *)
(* Source: crates/gse-server-core/src/file_transfer.rs, job_file_store.rs, *)
(* the job file handlers of http.rs, and file_io.rs of gse-agent-core.     *)
(*                                                                         *)
(* A file is the sequence of its chunks, and its SHA-256 is the file: two  *)
(* files have the same digest exactly if they are equal.  All transfers    *)
(* from an agent read one path of it, and all to an agent write one path,  *)
(* the case in which transfers meet.                                       *)
(***************************************************************************)
EXTENDS Sequences, Integers, JobLedger

CONSTANTS
    Jobs,        \* file jobs; a job's id also names the stored file it makes
    Uploads,     \* ids of files uploaded over HTTP
    Uploaded,    \* what they hold
    Sources,     \* what the file at the source path may hold
    MaxChunks,   \* job_max_file_bytes, in chunks
    NoFile, Faults,
    MaxFaults    \* how many things go wrong in one behaviour (bound)

Kinds      == {"a2a", "a2t", "t2a"}   \* agent to agent, to store, from store
FaultKinds == {"edit", "slow", "linkdrop", "srvcrash", "delete", "disk"}

ASSUME UploadsAssumption == Uploads \cap Jobs = {}
ASSUME MaxChunksAssumption == MaxChunks \in Nat
ASSUME FaultsAssumption == Faults \subseteq FaultKinds /\ MaxFaults \in Nat

VARIABLES
    \* the server
    status,   \* ledger: jobs.status
    meta,     \* ledger: the file columns of the job
    pc,       \* the task that runs the transfer
    verdict,  \* the status it is going to record
    off, cur, eof, want, \* chunks done; the chunk in hand; is it the last; the digest
    size,     \* what the first file_read said
    kind,     \* which endpoints the job connects
    from,     \* t2a: the stored file it reads
    got,      \* what the writer of a stored file has written
    stage,    \* the directory of a stored file
    \* the connections and what is under way on them
    up, rpc,
    \* the agents
    src,      \* the file at the source path
    dest,     \* the file at the destination path, and who put it there
    live,     \* jobs with a WriteSession in the connection's FileIo
    side,     \* their sidecar files, which outlive it
    faults    \* how many things went wrong

ledgerVars == <<status, meta>>
dataVars   == <<kind, off, cur, eof, want, size, from>>
storeVars  == <<got, stage>>
agentVars  == <<src, dest, live, side>>
vars == <<ledgerVars, pc, verdict, dataVars, storeVars, up, rpc, agentVars, faults>>

Ends   == {"src", "dst"}
Files  == Jobs \cup Uploads
Chunks == UNION {{s[i] : i \in DOMAIN s} : s \in Sources \cup {Uploaded}}
Metas  == [sha : Seq(Chunks), size : Nat]
Placed == [by : Jobs, data : Seq(Chunks)]
Steps  == {"none", "queued", "start", "read", "reading", "mark", "have", "writing",
           "commit", "writemeta", "verify", "meta", "finish", "over"}
Rpcs   == {"none", "read", "hash", "write", "ok", "failed", "broken"}
\* tmp: content.tmp only.  content: renamed, without meta.json.
Stages == {"absent", "tmp", "content", "listed"}

ASSUME SourcesAssumption ==
    Sources # {} /\ Uploaded # <<>> /\ Sources \cup {Uploaded} \subseteq Seq(Chunks)
ASSUME NoFileAssumption == NoFile \notin Seq(Chunks) \cup Metas \cup Placed

\* The endpoints that are agents.
AgentsOf(k) == {e \in Ends : (e = "src" /\ k \in {"a2a", "a2t"}) \/ (e = "dst" /\ k \in {"a2a", "t2a"})}
EndsOf(j) == AgentsOf(kind[j])

TransferTypeOK ==
    /\ status \in [Jobs -> JobStatuses \cup {"none"}]
    /\ meta \in [Jobs -> {NoFile} \cup Metas]
    /\ pc \in [Jobs -> Steps]
    /\ verdict \in [Jobs -> Outcomes \cup {"none", "lost"}]
    /\ off \in [Jobs -> Nat]
    /\ cur \in [Jobs -> Seq(Chunks)]
    /\ eof \in [Jobs -> BOOLEAN]
    /\ want \in [Jobs -> Seq(Chunks)]
    /\ size \in [Jobs -> Nat]
    /\ kind \in [Jobs -> Kinds \cup {"none"}]
    /\ from \in [Jobs -> Files \cup {NoFile}]
    /\ got \in [Files -> Seq(Chunks)]
    /\ stage \in [Files -> Stages]
    /\ up \in [Ends -> BOOLEAN]
    /\ rpc \in [Jobs -> Rpcs]
    /\ src \in Sources
    /\ dest \in {NoFile} \cup Placed
    /\ live \subseteq Jobs
    /\ side \in [Jobs -> {NoFile} \cup Seq(Chunks)]
    /\ faults \in 0 .. MaxFaults

Init ==
    /\ status = [j \in Jobs |-> "none"] /\ meta = [j \in Jobs |-> NoFile]
    /\ pc = [j \in Jobs |-> "none"] /\ verdict = [j \in Jobs |-> "none"]
    /\ off = [j \in Jobs |-> 0] /\ cur = [j \in Jobs |-> <<>>]
    /\ eof = [j \in Jobs |-> FALSE] /\ want = [j \in Jobs |-> <<>>]
    /\ size = [j \in Jobs |-> 0] /\ kind = [j \in Jobs |-> "none"] /\ from = [j \in Jobs |-> NoFile]
    /\ got = [f \in Files |-> <<>>] /\ stage = [f \in Files |-> "absent"]
    /\ up = [e \in Ends |-> TRUE] /\ rpc = [j \in Jobs |-> "none"]
    /\ src \in Sources
    /\ dest = NoFile /\ live = {} /\ side = [j \in Jobs |-> NoFile]
    /\ faults = 0

\* The chunk after the first n, empty at the end.
ChunkAt(file, n) == IF n < Len(file) THEN <<file[n + 1]>> ELSE <<>>

\* Something goes wrong.
Fault(f) == f \in Faults /\ faults < MaxFaults /\ faults' = faults + 1

Goto(j, step) == pc' = [pc EXCEPT ![j] = step]

\* The transfer ends: run_file_transfer goes on to record `v`.
Conclude(j, v) == Goto(j, "finish") /\ verdict' = [verdict EXCEPT ![j] = v]

\* JobFileWriter::abort, for a transfer that has a writer.
Abort(j) == stage' = IF kind[j] = "a2t" THEN [stage EXCEPT ![j] = "absent"] ELSE stage

-----------------------------------------------------------------------------
(* The server: submit_file_job and run_file_transfer                       *)

\* The agents are Online, the stored file is there.
Accept(j, k, f) ==
    /\ pc[j] = "none"
    /\ \A e \in AgentsOf(k) : up[e]
    /\ k = "t2a" => stage[f] = "listed"
    /\ kind' = [kind EXCEPT ![j] = k]
    /\ from' = [from EXCEPT ![j] = f]
    /\ status' = InsertJob(status, j)
    /\ Goto(j, "queued")
    /\ UNCHANGED <<meta, verdict, off, cur, eof, want, size, storeVars, up, rpc, agentVars, faults>>

\* submit_file_job.
Submit(j) ==
    \E k \in Kinds : \E f \in IF k = "t2a" THEN Files ELSE {NoFile} : Accept(j, k, f)

\* submit_file_rerun: the endpoints of an earlier job, by default.
Rerun(j, earlier) == pc[earlier] # "none" /\ Accept(j, kind[earlier], from[earlier])

\* run_file_transfer: mark_dispatched.
Dispatch(j) ==
    /\ pc[j] = "queued"
    /\ status' = SetUnlessFinal(status, j, "dispatched")
    /\ Goto(j, "start")
    /\ UNCHANGED <<meta, verdict, dataVars, storeVars, up, rpc, agentVars, faults>>

\* pump_agent_to_temp opens its writer first, pump_temp_to_agent its file.  An
\* open file can be read after it was deleted.
Start(j) ==
    /\ pc[j] = "start"
    /\ \/ /\ kind[j] = "a2a"
          /\ Goto(j, "read") /\ UNCHANGED <<verdict, want, stage>>
       \/ /\ kind[j] = "a2t"
          /\ Goto(j, "read") /\ stage' = [stage EXCEPT ![j] = "tmp"] /\ UNCHANGED <<verdict, want>>
       \/ /\ kind[j] = "t2a" /\ stage[from[j]] = "listed" /\ Len(got[from[j]]) <= MaxChunks
          /\ Goto(j, "mark") /\ want' = [want EXCEPT ![j] = got[from[j]]] /\ UNCHANGED <<verdict, stage>>
       \/ /\ kind[j] = "t2a" /\ ~(stage[from[j]] = "listed" /\ Len(got[from[j]]) <= MaxChunks)
          /\ Conclude(j, "failed") /\ UNCHANGED <<want, stage>>
    /\ UNCHANGED <<ledgerVars, kind, off, cur, eof, size, from, got, up, rpc, agentVars, faults>>

\* file_read: ask the registry, then call.
SendRead(j) ==
    /\ pc[j] = "read" /\ kind[j] # "t2a"
    /\ IF up["src"]
         THEN /\ Goto(j, "reading") /\ rpc' = [rpc EXCEPT ![j] = "read"]
              /\ UNCHANGED <<verdict, stage>>
         ELSE Conclude(j, "lost") /\ Abort(j) /\ UNCHANGED rpc
    /\ UNCHANGED <<ledgerVars, dataVars, got, up, agentVars, faults>>

ReadReply(j) ==
    /\ pc[j] = "reading" /\ rpc[j] = "ok"
    /\ Goto(j, IF off[j] = 0 THEN "mark" ELSE "have")
    /\ rpc' = [rpc EXCEPT ![j] = "none"]
    /\ UNCHANGED <<ledgerVars, verdict, dataVars, storeVars, up, agentVars, faults>>

MarkTransferRunning(j) ==
    /\ pc[j] = "mark"
    /\ status' = MarkRunning(status, j)
    /\ Goto(j, IF kind[j] = "t2a" THEN "read" ELSE "have")
    /\ UNCHANGED <<meta, verdict, dataVars, storeVars, up, rpc, agentVars, faults>>

\* pump_temp_to_agent reads its open file.
ReadStored(j) ==
    /\ pc[j] = "read" /\ kind[j] = "t2a"
    /\ cur' = [cur EXCEPT ![j] = ChunkAt(want[j], off[j])]
    /\ eof' = [eof EXCEPT ![j] = off[j] + 1 >= Len(want[j])]
    /\ Goto(j, "have")
    /\ UNCHANGED <<ledgerVars, verdict, kind, off, want, size, from, storeVars, up, rpc, agentVars, faults>>

\* pump_agent_to_temp writes the chunk to content.tmp.
StoreChunk(j) ==
    /\ pc[j] = "have" /\ kind[j] = "a2t"
    /\ got' = [got EXCEPT ![j] = @ \o cur[j]]
    /\ IF eof[j] THEN Goto(j, "commit") /\ UNCHANGED off
                 ELSE Goto(j, "read") /\ off' = [off EXCEPT ![j] = @ + 1]
    /\ UNCHANGED <<ledgerVars, verdict, kind, cur, eof, want, size, from, stage, up, rpc, agentVars, faults>>

SendWrite(j) ==
    /\ pc[j] = "have" /\ kind[j] # "a2t"
    /\ IF up["dst"]
         THEN Goto(j, "writing") /\ rpc' = [rpc EXCEPT ![j] = "write"] /\ UNCHANGED verdict
         ELSE Conclude(j, "lost") /\ UNCHANGED rpc
    /\ UNCHANGED <<ledgerVars, dataVars, storeVars, up, agentVars, faults>>

WriteReply(j) ==
    /\ pc[j] = "writing" /\ rpc[j] = "ok"
    /\ rpc' = [rpc EXCEPT ![j] = "none"]
    /\ IF eof[j] THEN Goto(j, "meta") /\ UNCHANGED off
                 ELSE Goto(j, "read") /\ off' = [off EXCEPT ![j] = @ + 1]
    /\ UNCHANGED <<ledgerVars, verdict, kind, cur, eof, want, size, from, storeVars, up, agentVars, faults>>

RpcFails_AnswersOnly(j) ==
    /\ pc[j] \in {"reading", "writing"} /\ rpc[j] = "failed"
    /\ Conclude(j, "failed")
    /\ Abort(j)
    /\ rpc' = [rpc EXCEPT ![j] = "none"]
    /\ UNCHANGED <<ledgerVars, dataVars, got, up, agentVars, faults>>

\* The agent answered with an error, or the connection died under the call.
RpcFails(j) ==
    /\ pc[j] \in {"reading", "writing"} /\ rpc[j] \in {"failed", "broken"}
    /\ Conclude(j, IF rpc[j] = "failed" THEN "failed" ELSE "lost")
    /\ Abort(j)
    /\ rpc' = [rpc EXCEPT ![j] = "none"]
    /\ UNCHANGED <<ledgerVars, dataVars, got, up, agentVars, faults>>

\* The call outlives chunk_timeout: the server gives up, the agent may still
\* get to the request.
RpcTimesOut(j) ==
    /\ Fault("slow") /\ pc[j] \in {"reading", "writing"}
    /\ Conclude(j, "failed") /\ Abort(j)
    /\ UNCHANGED <<ledgerVars, dataVars, got, up, rpc, agentVars>>

\* tokio::time::timeout drops transfer_job at one of its awaits, with its
\* writer: nothing is aborted.
OuterTimeout(j) ==
    /\ Fault("slow") /\ pc[j] \in {"read", "reading", "mark", "have", "writing"}
    /\ kind[j] = "a2t" => pc[j] # "have"
    /\ Conclude(j, "timeout")
    /\ UNCHANGED <<ledgerVars, dataVars, storeVars, up, rpc, agentVars>>

-----------------------------------------------------------------------------
(* The server: JobFileWriter::finish and the end of a transfer             *)

\* rename content.tmp to content; it fails if the directory was deleted.
CommitContent(f) == stage' = [stage EXCEPT ![f] = IF @ = "tmp" THEN "content" ELSE @]
CommitMeta(f)    == stage' = [stage EXCEPT ![f] = IF @ = "content" THEN "listed" ELSE @]

Commit(j) ==
    /\ pc[j] = "commit"
    /\ CommitContent(j)
    /\ IF stage[j] = "tmp" THEN Goto(j, "writemeta") /\ UNCHANGED verdict
                           ELSE Conclude(j, "failed")
    /\ UNCHANGED <<ledgerVars, dataVars, got, up, rpc, agentVars, faults>>

WriteMeta(j) ==
    /\ pc[j] = "writemeta"
    /\ CommitMeta(j)
    /\ IF stage[j] = "content" THEN Goto(j, "verify") /\ UNCHANGED verdict
                               ELSE Conclude(j, "failed")
    /\ UNCHANGED <<ledgerVars, dataVars, got, up, rpc, agentVars, faults>>

DigestAgrees_Ignored(data, digest) == TRUE

DigestAgrees(data, digest) == data = digest

\* pump_agent_to_temp compares its own digest with the agent's.
Verify(j) ==
    /\ pc[j] = "verify"
    /\ IF DigestAgrees(got[j], want[j])
         THEN Goto(j, "meta") /\ UNCHANGED <<verdict, stage>>
         ELSE Conclude(j, "failed") /\ Abort(j)
    /\ UNCHANGED <<ledgerVars, dataVars, got, up, rpc, agentVars, faults>>

\* set_job_file_meta, whatever the status of the row is by now.
RecordMeta(j) ==
    /\ pc[j] = "meta"
    /\ meta' = [meta EXCEPT ![j] = [
           sha  |-> want[j],
           size |-> IF kind[j] = "a2a" THEN size[j] ELSE Len(want[j])]]
    /\ Conclude(j, "succeeded")
    /\ UNCHANGED <<status, dataVars, storeVars, up, rpc, agentVars, faults>>

Finish_Always(j) ==
    /\ pc[j] = "finish"
    /\ status' = SetUnlessFinal_NoGuard(status, j, verdict[j])
    /\ Goto(j, "over")
    /\ UNCHANGED <<meta, verdict, dataVars, storeVars, up, rpc, agentVars, faults>>

\* The task's locals go with it, unless a request that carries them is still
\* under way.
Forget(j) ==
    IF rpc[j] # "none" THEN UNCHANGED <<off, cur, eof, size>>
    ELSE /\ off' = [off EXCEPT ![j] = 0] /\ cur' = [cur EXCEPT ![j] = <<>>]
         /\ eof' = [eof EXCEPT ![j] = FALSE] /\ size' = [size EXCEPT ![j] = 0]

\* finish_job.
Finish(j) ==
    /\ pc[j] = "finish"
    /\ status' = FinishJob(status, j, verdict[j])
    /\ Goto(j, "over") /\ Forget(j)
    /\ UNCHANGED <<meta, verdict, kind, want, from, storeVars, up, rpc, agentVars, faults>>

-----------------------------------------------------------------------------
(* The server: the other handlers that touch jobs and stored files         *)

\* A liveness scan, or a script job, gives up the jobs of an agent.
GiveUpJobsOf(e) ==
    /\ ~up[e]
    /\ status' = MarkLostAmong(status, {j \in Jobs : e \in EndsOf(j)})
    /\ UNCHANGED <<meta, pc, verdict, dataVars, storeVars, up, rpc, agentVars, faults>>

\* upload_job_file.  Its client may go away in the middle of it.
BeginUpload(f) ==
    /\ stage[f] = "absent" /\ got[f] = <<>>
    /\ stage' = [stage EXCEPT ![f] = "tmp"]
    /\ got' = [got EXCEPT ![f] = Uploaded]
    /\ UNCHANGED <<ledgerVars, pc, verdict, dataVars, up, rpc, agentVars, faults>>

AbortUpload(f) ==
    /\ stage[f] = "tmp"
    /\ stage' = [stage EXCEPT ![f] = "absent"]
    /\ UNCHANGED <<ledgerVars, pc, verdict, dataVars, got, up, rpc, agentVars, faults>>

FinishUpload(f) ==
    /\ \/ stage[f] = "tmp" /\ Len(got[f]) <= MaxChunks
       \/ stage[f] = "content"
    /\ IF stage[f] = "tmp" THEN CommitContent(f) ELSE CommitMeta(f)
    /\ UNCHANGED <<ledgerVars, pc, verdict, dataVars, got, up, rpc, agentVars, faults>>

\* delete_job_file, or run_job_file_cleanup, which sees listed files only.
RemoveStored(f) ==
    /\ \/ stage[f] = "listed" /\ UNCHANGED faults
       \/ stage[f] # "absent" /\ Fault("delete")
    /\ stage' = [stage EXCEPT ![f] = "absent"]
    /\ UNCHANGED <<ledgerVars, pc, verdict, dataVars, got, up, rpc, agentVars>>

-----------------------------------------------------------------------------
(* The agents                                                              *)

Replies(j, r) == rpc' = [rpc EXCEPT ![j] = r]

\* read_file: metadata, then the chunk, then the digest if it was the last.
HandleRead(j) ==
    /\ rpc[j] = "read" /\ up["src"]
    /\ IF (off[j] = 0 /\ Len(src) > MaxChunks) \/ off[j] > Len(src)
         THEN Replies(j, "failed") /\ UNCHANGED <<cur, eof, size>>
         ELSE /\ cur'  = [cur EXCEPT ![j] = ChunkAt(src, off[j])]
              /\ eof'  = [eof EXCEPT ![j] = off[j] + 1 >= Len(src)]
              /\ size' = IF off[j] = 0 THEN [size EXCEPT ![j] = Len(src)] ELSE size
              /\ Replies(j, IF eof'[j] THEN "hash" ELSE "ok")
    /\ UNCHANGED <<ledgerVars, pc, verdict, kind, off, want, from, storeVars, up, agentVars, faults>>

\* hash_file reads the whole file again.
HandleHash(j) ==
    /\ rpc[j] = "hash" /\ up["src"]
    /\ want' = [want EXCEPT ![j] = src]
    /\ Replies(j, "ok")
    /\ UNCHANGED <<ledgerVars, pc, verdict, kind, off, cur, eof, size, from, storeVars, up, agentVars, faults>>

\* No transfer in progress is idle for STALE_SECS: purge_stale only meets
\* sessions whose transfer is over.
Stale(j) == {k \in live \ {j} : pc[k] \in {"finish", "over"}}

SpotFree_Assumed == TRUE

SpotFree == dest = NoFile

\* The sidecar of j after the chunk in hand.
Appended(j) == (IF off[j] = 0 THEN <<>> ELSE side[j]) \o cur[j]

InOrder(j) == off[j] = 0 \/ (j \in live /\ Len(side[j]) = off[j])

\* write_file, under the lock of `writes`.
HandleWrite(j) ==
    /\ rpc[j] = "write" /\ up["dst"]
    /\ \E stale \in SUBSET Stale(j) :
        LET kept(k, file) == IF k \in stale THEN NoFile
                             ELSE IF k = j THEN file ELSE side[k]
            now(file, lives, reply) ==
                /\ side' = [k \in Jobs |-> kept(k, file)]
                /\ live' = (live \ (stale \cup {j})) \cup lives
                /\ Replies(j, reply)
        IN \/ /\ off[j] = 0 /\ dest # NoFile
              /\ now(side[j], live \cap {j}, "failed") /\ UNCHANGED <<dest, faults>>
           \/ /\ off[j] # 0 /\ ~InOrder(j)
              /\ now(side[j], live \cap {j}, "failed") /\ UNCHANGED <<dest, faults>>
           \/ /\ off[j] = 0 => dest = NoFile
              /\ InOrder(j) /\ ~eof[j]
              /\ now(Appended(j), {j}, "ok") /\ UNCHANGED <<dest, faults>>
           \/ /\ off[j] = 0 => dest = NoFile
              /\ InOrder(j) /\ eof[j]
              /\ IF DigestAgrees(Appended(j), want[j]) /\ SpotFree
                   THEN /\ UNCHANGED faults
                        /\ dest' = [by |-> j, data |-> Appended(j)]
                        /\ now(NoFile, {}, "ok")
                   ELSE now(NoFile, {}, "failed") /\ UNCHANGED <<dest, faults>>
           \/ /\ Fault("disk") /\ InOrder(j) /\ cur[j] # <<>>
              /\ off[j] = 0 => dest = NoFile
              /\ now(NoFile, {}, "failed") /\ UNCHANGED dest
    /\ UNCHANGED <<ledgerVars, pc, verdict, dataVars, storeVars, up, src>>

-----------------------------------------------------------------------------
(* The surroundings                                                        *)

\* Somebody writes to the file that is being read.
EditSource ==
    /\ Fault("edit")
    /\ src' \in Sources
    /\ UNCHANGED <<ledgerVars, pc, verdict, dataVars, storeVars, up, rpc, dest, live, side>>

\* Calls under way on a connection end with it, and so does its FileIo.
Broken(S) == [j \in Jobs |-> IF rpc[j] # "none" /\ S \cap EndsOf(j) # {}
                               THEN "broken" ELSE rpc[j]]

LinkDrop(e) ==
    /\ Fault("linkdrop") /\ up[e]
    /\ up' = [up EXCEPT ![e] = FALSE]
    /\ rpc' = Broken({e})
    /\ live' = IF e = "dst" THEN {} ELSE live
    /\ UNCHANGED <<ledgerVars, pc, verdict, dataVars, storeVars, src, dest, side>>

Reconnect(e) ==
    /\ ~up[e]
    /\ up' = [up EXCEPT ![e] = TRUE]
    /\ UNCHANGED <<ledgerVars, pc, verdict, dataVars, storeVars, rpc, agentVars, faults>>

\* bind gives up what was in flight; nothing resumes a transfer.
RestartServer ==
    /\ Fault("srvcrash")
    /\ status' = MarkLostAmong(status, Jobs)
    /\ pc' = [j \in Jobs |-> IF pc[j] = "none" THEN "none" ELSE "over"]
    /\ rpc' = Broken(Ends) /\ up' = [e \in Ends |-> FALSE] /\ live' = {}
    /\ UNCHANGED <<meta, verdict, dataVars, storeVars, src, dest, side>>

Task(j) ==
    \/ Dispatch(j) \/ Start(j) \/ SendRead(j) \/ ReadReply(j) \/ MarkTransferRunning(j)
    \/ ReadStored(j) \/ StoreChunk(j) \/ SendWrite(j) \/ WriteReply(j) \/ RpcFails(j)
    \/ Commit(j) \/ WriteMeta(j) \/ Verify(j) \/ RecordMeta(j) \/ Finish(j)

Handle(j) == HandleRead(j) \/ HandleHash(j) \/ HandleWrite(j)

Next ==
    \/ \E j, k \in Jobs : Rerun(j, k)
    \/ \E j \in Jobs : Submit(j) \/ Task(j) \/ Handle(j) \/ RpcTimesOut(j) \/ OuterTimeout(j)
    \/ \E f \in Uploads : BeginUpload(f) \/ AbortUpload(f) \/ FinishUpload(f)
    \/ \E f \in Files : RemoveStored(f)
    \/ \E e \in Ends : GiveUpJobsOf(e) \/ LinkDrop(e) \/ Reconnect(e)
    \/ EditSource \/ RestartServer

Spec == Init /\ [][Next]_vars

\* A ready task runs on, and a request on a live connection is handled.
Fairness == \A j \in Jobs : WF_vars(Task(j)) /\ WF_vars(Handle(j))

FairSpec == Spec /\ Fairness

-----------------------------------------------------------------------------
(* Properties                                                              *)

\* A job recorded as succeeded has put a complete file in place: what the
\* source held when its last chunk was read (or the stored file), nothing torn
\* by an edit, a lost chunk or another transfer; its row says so, and no sidecar
\* is left.  (run_file_transfer, write_file, pump_agent_to_temp)
SucceededIsWhole ==
    \A j \in Jobs : status[j] = "succeeded" =>
        /\ meta[j] # NoFile /\ meta[j].sha = want[j]
        /\ IF kind[j] = "a2t"
             THEN got[j] = want[j]
             ELSE dest # NoFile /\ dest.by = j /\ dest.data = want[j] /\ side[j] = NoFile
        /\ kind[j] # "a2a" => meta[j].size = Len(want[j])

\* Whatever becomes of its job, a file at a destination path is complete.
PlacedIsWhole == dest # NoFile => dest.data = want[dest.by]

\* Two transfers to one path: the file that is there first is never replaced or
\* removed, by a late chunk, an abort or a retry either (the two dest.exists
\* checks of write_file, and the rename after the second).
PlacedStays == [][dest # NoFile => dest' = dest]_vars

\* The rows of file jobs live by the lifecycle of script jobs: the first final
\* status stays, and an outcome is the transfer's own.
Lifecycle == INSTANCE JobLifecycle WITH
    job     <- [j \in Jobs |-> IF status[j] = "dispatched" THEN "pending" ELSE status[j]],
    outcome <- [j \in Jobs |-> IF verdict[j] \in Outcomes THEN verdict[j] ELSE "none"]

TransferLifecycle == Lifecycle!Spec

\* Every submitted transfer is decided: the pump either ends or is ended.
TransfersEnd ==
    \A j \in Jobs : status[j] \in InFlight ~> status[j] \in Final

\* The state is well formed, and what was reported as done or put at its place
\* is a whole file.
FilesAreWhole == TransferTypeOK /\ SucceededIsWhole /\ PlacedIsWhole
=============================================================================
