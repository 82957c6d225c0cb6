------------------------- MODULE FileTransferProofs -------------------------
(***************************************************************************)
(* For any jobs, any files and any faults: what gse-server records as a    *)
(* succeeded transfer, and what an agent puts at a destination path, is a  *)
(* whole file that stays there, and the rows of file jobs live by the      *)
(* lifecycle of script jobs.                                               *)
(***************************************************************************)
EXTENDS FileTransfer, TLAPS

USE DEF vars, ledgerVars, dataVars, storeVars, agentVars

-----------------------------------------------------------------------------
(* The inductive invariant                                                 *)

\* Which request can be under way where the pump is.  A pump that is over may
\* have left one behind.
CallFollowsPump(j) ==
    /\ pc[j] = "reading" => rpc[j] \in {"read", "hash", "ok", "failed", "broken"}
    /\ pc[j] = "writing" => rpc[j] \in {"write", "ok", "failed", "broken"}
    /\ pc[j] \notin {"reading", "writing", "finish", "over"} => rpc[j] = "none"

\* The pump's steps belong to the kind of its job.
KindFollowsPump(j) ==
    /\ pc[j] # "none" => kind[j] # "none"
    /\ kind[j] = "t2a" => from[j] \in Files
    /\ pc[j] = "writing" => kind[j] # "a2t"
    /\ pc[j] \in {"commit", "writemeta", "verify"} => kind[j] = "a2t"
    /\ j \in live => side[j] # NoFile

\* The verdict comes with the end, and a row changes only once the pump runs.
RowFollowsPump(j) ==
    /\ pc[j] \notin {"finish", "over"} => verdict[j] = "none"
    /\ pc[j] = "finish" => verdict[j] # "none"
    /\ pc[j] = "none" => status[j] = "none"
    /\ pc[j] # "none" => status[j] \notin {"none", "rejected"}
    /\ pc[j] = "queued" => status[j] # "running"
    /\ status[j] \in Outcomes => verdict[j] = status[j]

\* The file of j is in place.
InPlace(j) ==
    IF kind[j] = "a2t" THEN got[j] = want[j]
                       ELSE dest # NoFile /\ dest.by = j /\ dest.data = want[j] /\ side[j] = NoFile

\* Before set_job_file_meta the file is in place, and the row that says
\* "succeeded" describes it; no answer is outstanding that could change it.
WholeBeforeDone(j) ==
    /\ pc[j] = "writing" /\ rpc[j] = "ok" /\ eof[j] => dest # NoFile /\ dest.by = j
    /\ pc[j] = "meta" => InPlace(j)
    /\ verdict[j] = "succeeded" =>
         /\ InPlace(j) /\ rpc[j] = "none"
         /\ meta[j] # NoFile /\ meta[j].sha = want[j]
         /\ kind[j] # "a2a" => meta[j].size = Len(want[j])

\* Who has put its file at the destination path has no request under way that
\* could read another digest.
OwnerIsPast(j) ==
    dest # NoFile /\ dest.by = j =>
        /\ dest.data = want[j] /\ side[j] = NoFile
        /\ \/ pc[j] = "writing" /\ eof[j] /\ rpc[j] \in {"ok", "broken"}
           \/ pc[j] \in {"meta", "finish", "over"} /\ rpc[j] \in {"none", "ok", "broken"}

JobFacts(j) ==
    CallFollowsPump(j) /\ KindFollowsPump(j) /\ RowFollowsPump(j) /\ WholeBeforeDone(j) /\ OwnerIsPast(j)

TransferInv == TransferTypeOK /\ \A j \in Jobs : JobFacts(j)

-----------------------------------------------------------------------------
(* What the steps share                                                    *)

\* Nothing about job k changes.
Same(k) ==
    /\ status'[k] = status[k] /\ meta'[k] = meta[k] /\ pc'[k] = pc[k] /\ verdict'[k] = verdict[k]
    /\ eof'[k] = eof[k] /\ want'[k] = want[k] /\ kind'[k] = kind[k] /\ from'[k] = from[k]
    /\ got'[k] = got[k] /\ rpc'[k] = rpc[k]

\* A step of one job that places nothing.
Moves(j) ==
    /\ TransferTypeOK' /\ JobFacts(j)'
    /\ \A k \in Jobs \ {j} : Same(k)
    /\ UNCHANGED <<dest, live, side>>

LEMMA SameKeeps ==
    ASSUME NEW k \in Jobs, JobFacts(k), Same(k), UNCHANGED <<dest, live, side>>
    PROVE  JobFacts(k)'
  BY DEF JobFacts, Same, CallFollowsPump, KindFollowsPump, RowFollowsPump, WholeBeforeDone, OwnerIsPast, InPlace

LEMMA MovesKeeps ==
    ASSUME TransferInv, NEW j \in Jobs, Moves(j)
    PROVE  TransferInv'
<1>1. TransferTypeOK' /\ JobFacts(j)'
  BY DEF Moves
<1>2. ASSUME NEW k \in Jobs, k # j
      PROVE  JobFacts(k)'
  BY <1>2, SameKeeps DEF Moves, TransferInv
<1> QED
  BY <1>1, <1>2 DEF TransferInv

LEMMA ChunksAreSeqs == Sources \subseteq Seq(Chunks) /\ Uploaded \in Seq(Chunks)
  BY SourcesAssumption

LEMMA GotoIsTyped ==
    ASSUME TransferInv, NEW j \in Jobs, \E step \in Steps : Goto(j, step)
    PROVE  pc' \in [Jobs -> Steps]
  BY DEF TransferInv, TransferTypeOK, Goto

LEMMA ChunkIsTyped ==
    ASSUME NEW file \in Seq(Chunks), NEW n \in Nat
    PROVE  ChunkAt(file, n) \in Seq(Chunks)
  BY DEF ChunkAt

\* A guarded UPDATE changes one row, and only while it is in flight.
LEMMA UpdateChanges ==
    ASSUME NEW f \in [Jobs -> JobStatuses \cup {"none"}], NEW j \in Jobs, NEW value \in JobStatuses
    PROVE  /\ SetUnlessFinal(f, j, value) \in [Jobs -> JobStatuses \cup {"none"}]
           /\ \A k \in Jobs : SetUnlessFinal(f, j, value)[k] =
                IF k = j /\ f[j] \in InFlight THEN value ELSE f[k]
  BY DEF SetUnlessFinal

\* Giving up jobs changes those in flight, to "lost".
LEMMA GiveUpChanges ==
    ASSUME NEW f \in [Jobs -> JobStatuses \cup {"none"}], NEW S
    PROVE  /\ MarkLostAmong(f, S) \in [Jobs -> JobStatuses \cup {"none"}]
           /\ \A k \in Jobs : MarkLostAmong(f, S)[k] = IF k \in S /\ f[k] \in InFlight THEN "lost" ELSE f[k]
  BY DEF MarkLostAmong, JobStatuses, Final

-----------------------------------------------------------------------------
(* The initial state and the server's own steps                            *)

LEMMA TransferInitially == Init => TransferInv
<1> SUFFICES ASSUME Init
             PROVE  TransferInv
  OBVIOUS
<1>1. TransferTypeOK
  BY FaultsAssumption, ChunksAreSeqs DEF Init, TransferTypeOK, Steps, Stages, Rpcs, Files, Ends
<1>2. ASSUME NEW j \in Jobs
      PROVE  JobFacts(j)
  BY DEF Init, JobFacts, CallFollowsPump, KindFollowsPump, RowFollowsPump, WholeBeforeDone, OwnerIsPast, Outcomes
<1> QED
  BY <1>1, <1>2 DEF TransferInv

LEMMA AcceptKeeps ==
    ASSUME TransferInv, NEW j \in Jobs, NEW k \in Kinds, NEW f \in Files \cup {NoFile}, Accept(j, k, f),
           k = "t2a" => f \in Files
    PROVE  TransferInv'
<1>1. TransferTypeOK'
  BY DEF TransferInv, TransferTypeOK, Accept, Goto, InsertJob, Steps, JobStatuses, InFlight
<1>2. JobFacts(j)'
  <2>1. /\ pc[j] = "none" /\ rpc[j] = "none" /\ verdict[j] = "none" /\ ~(dest # NoFile /\ dest.by = j)
        /\ j \in live => side[j] # NoFile
    BY DEF TransferInv, JobFacts, CallFollowsPump, KindFollowsPump, RowFollowsPump, OwnerIsPast, Accept
  <2>2. /\ pc'[j] = "queued" /\ status'[j] = "pending" /\ kind'[j] = k /\ from'[j] = f
        /\ UNCHANGED <<rpc, verdict, dest, live, side>>
    BY DEF TransferInv, TransferTypeOK, Accept, Goto, InsertJob
  <2> QED
    BY <2>1, <2>2 DEF Kinds, Outcomes,
       JobFacts, CallFollowsPump, KindFollowsPump, RowFollowsPump, WholeBeforeDone, OwnerIsPast
<1>3. \A i \in Jobs \ {j} : Same(i)
  BY DEF TransferInv, TransferTypeOK, Accept, Goto, InsertJob, Same
<1> QED
  BY <1>1, <1>2, <1>3, MovesKeeps DEF Moves, Accept

LEMMA SubmissionKeeps ==
    ASSUME TransferInv, NEW j \in Jobs, Submit(j) \/ \E earlier \in Jobs : Rerun(j, earlier)
    PROVE  TransferInv'
<1>1. CASE Submit(j)
  BY <1>1, AcceptKeeps DEF Submit
<1>2. ASSUME NEW earlier \in Jobs, Rerun(j, earlier)
      PROVE  TransferInv'
  <2>1. kind[earlier] \in Kinds /\ from[earlier] \in Files \cup {NoFile}
        /\ (kind[earlier] = "t2a" => from[earlier] \in Files)
    BY <1>2 DEF Rerun, TransferInv, TransferTypeOK, JobFacts, KindFollowsPump
  <2> QED
    BY <1>2, <2>1, AcceptKeeps DEF Rerun
<1> QED
  BY <1>1, <1>2

\* A pump gives its transfer up: it leaves the row and the files to others.
GivesUp(j) ==
    /\ pc[j] \notin {"none", "finish", "over"} /\ pc'[j] = "finish"
    /\ verdict'[j] \in {"failed", "lost", "timeout"} /\ rpc'[j] \in {rpc[j], "none"}
    /\ status'[j] = status[j] /\ kind'[j] = kind[j] /\ from'[j] = from[j] /\ want'[j] = want[j]
    /\ eof'[j] = eof[j] /\ UNCHANGED <<dest, live, side>>

LEMMA GivesUpKeeps ==
    ASSUME NEW j \in Jobs, JobFacts(j), GivesUp(j)
    PROVE  JobFacts(j)'
  BY DEF GivesUp, Outcomes, JobFacts, CallFollowsPump, KindFollowsPump, RowFollowsPump, WholeBeforeDone, OwnerIsPast

LEMMA DispatchKeeps ==
    ASSUME TransferInv, NEW j \in Jobs, Dispatch(j)
    PROVE  TransferInv'
<1>0. /\ status \in [Jobs -> JobStatuses \cup {"none"}]
      /\ status' \in [Jobs -> JobStatuses \cup {"none"}]
      /\ \A k \in Jobs : status'[k] = IF k = j /\ status[j] \in InFlight THEN "dispatched" ELSE status[k]
  <2>1. "dispatched" \in JobStatuses /\ status \in [Jobs -> JobStatuses \cup {"none"}]
    BY DEF JobStatuses, InFlight, TransferInv, TransferTypeOK
  <2> QED
    BY <2>1, UpdateChanges DEF Dispatch
<1>1. TransferTypeOK'
  BY <1>0 DEF TransferInv, TransferTypeOK, Dispatch, Goto, Steps
<1>2. JobFacts(j)'
  <2>1. JobFacts(j) /\ UNCHANGED <<meta, verdict, dataVars, storeVars, up, rpc, agentVars>>
    BY DEF TransferInv, Dispatch
  <2>2. /\ pc[j] = "queued"
        /\ pc'[j] \in {"start"}
    BY DEF TransferInv, TransferTypeOK, Dispatch, Goto
  <2> QED
    BY <1>0, <2>1, <2>2 DEF Outcomes, InFlight,
       JobFacts, CallFollowsPump, KindFollowsPump, RowFollowsPump, WholeBeforeDone, OwnerIsPast, InPlace
<1>3. \A k \in Jobs \ {j} : Same(k)
  BY <1>0 DEF TransferInv, TransferTypeOK, Dispatch, Goto, Same
<1> QED
  BY <1>1, <1>2, <1>3, MovesKeeps DEF Moves, Dispatch

LEMMA StartKeeps ==
    ASSUME TransferInv, NEW j \in Jobs, Start(j)
    PROVE  TransferInv'
<1>1. TransferTypeOK'
  <2>1. pc' \in [Jobs -> Steps]
    <3>1. \E step \in Steps : Goto(j, step)
      BY DEF Start, Conclude, Steps
    <3> QED
      BY <3>1, GotoIsTyped
  <2>2. verdict' \in [Jobs -> Outcomes \cup {"none", "lost"}]
    BY DEF TransferInv, TransferTypeOK, Start, Conclude, Outcomes
  <2>3. stage' \in [Files -> Stages]
    BY DEF TransferInv, TransferTypeOK, Start, Stages, Files
  <2>4. want' \in [Jobs -> Seq(Chunks)]
    BY DEF TransferInv, TransferTypeOK, JobFacts, KindFollowsPump, Start
  <2> QED
    BY <2>1, <2>2, <2>3, <2>4 DEF TransferInv, TransferTypeOK, Start
<1>2. JobFacts(j)'
  BY DEF TransferInv, TransferTypeOK, Start, Goto, Conclude, Outcomes,
     JobFacts, CallFollowsPump, KindFollowsPump, RowFollowsPump, WholeBeforeDone, OwnerIsPast, InPlace
<1>3. \A k \in Jobs \ {j} : Same(k)
  BY DEF TransferInv, TransferTypeOK, Start, Goto, Conclude, Outcomes, Files, Same
<1> QED
  BY <1>1, <1>2, <1>3, MovesKeeps DEF Moves, Start

LEMMA SendReadKeeps ==
    ASSUME TransferInv, NEW j \in Jobs, SendRead(j)
    PROVE  TransferInv'
<1>1. TransferTypeOK'
  <2>1. pc' \in [Jobs -> Steps]
    <3>1. \E step \in Steps : Goto(j, step)
      BY DEF SendRead, Conclude, Steps
    <3> QED
      BY <3>1, GotoIsTyped
  <2>2. verdict' \in [Jobs -> Outcomes \cup {"none", "lost"}]
    BY DEF TransferInv, TransferTypeOK, SendRead, Conclude, Outcomes
  <2>3. rpc' \in [Jobs -> Rpcs]
    BY DEF TransferInv, TransferTypeOK, SendRead, Rpcs
  <2>4. stage' \in [Files -> Stages]
    BY DEF TransferInv, TransferTypeOK, SendRead, Abort, Stages, Files
  <2> QED
    BY <2>1, <2>2, <2>3, <2>4 DEF TransferInv, TransferTypeOK, SendRead
<1>2. JobFacts(j)'
  <2>1. JobFacts(j)
    BY DEF TransferInv
  <2>2. CASE GivesUp(j)
    BY <2>1, <2>2, GivesUpKeeps
  <2>3. CASE pc'[j] = "reading" /\ rpc'[j] = "read" /\ UNCHANGED verdict
    <3>1. /\ pc[j] = "read" /\ UNCHANGED <<ledgerVars, dataVars, got, agentVars>>
          /\ kind[j] # "t2a"
      BY DEF SendRead
    <3> QED
      BY <2>1, <2>3, <3>1 DEF Outcomes,
         JobFacts, CallFollowsPump, KindFollowsPump, RowFollowsPump, WholeBeforeDone, OwnerIsPast, InPlace
  <2>4. GivesUp(j) \/ (pc'[j] = "reading" /\ rpc'[j] = "read" /\ UNCHANGED verdict)
    BY DEF TransferInv, TransferTypeOK, SendRead, Goto, Conclude, Abort, GivesUp
  <2> QED
    BY <2>2, <2>3, <2>4
<1>3. \A k \in Jobs \ {j} : Same(k)
  BY DEF TransferInv, TransferTypeOK, SendRead, Goto, Conclude, Abort, Outcomes, Files, Same
<1> QED
  BY <1>1, <1>2, <1>3, MovesKeeps DEF Moves, SendRead

LEMMA ReadReplyKeeps ==
    ASSUME TransferInv, NEW j \in Jobs, ReadReply(j)
    PROVE  TransferInv'
<1>1. TransferTypeOK'
  BY DEF TransferInv, TransferTypeOK, JobFacts, KindFollowsPump, ReadReply, Goto, Outcomes, Steps, Rpcs, Stages, Files
<1>2. JobFacts(j)'
  BY DEF TransferInv, TransferTypeOK, ReadReply, Goto, Outcomes,
     JobFacts, CallFollowsPump, KindFollowsPump, RowFollowsPump, WholeBeforeDone, OwnerIsPast, InPlace
<1>3. \A k \in Jobs \ {j} : Same(k)
  BY DEF TransferInv, TransferTypeOK, ReadReply, Goto, Outcomes, Files, Same
<1> QED
  BY <1>1, <1>2, <1>3, MovesKeeps DEF Moves, ReadReply

LEMMA MarkTransferRunningKeeps ==
    ASSUME TransferInv, NEW j \in Jobs, MarkTransferRunning(j)
    PROVE  TransferInv'
<1>0. /\ status \in [Jobs -> JobStatuses \cup {"none"}]
      /\ status' \in [Jobs -> JobStatuses \cup {"none"}]
      /\ \A k \in Jobs : status'[k] = IF k = j /\ status[j] \in InFlight THEN "running" ELSE status[k]
  <2>1. "running" \in JobStatuses /\ status \in [Jobs -> JobStatuses \cup {"none"}]
    BY DEF JobStatuses, InFlight, TransferInv, TransferTypeOK
  <2> QED
    BY <2>1, UpdateChanges DEF MarkTransferRunning, MarkRunning
<1>1. TransferTypeOK'
  BY <1>0 DEF TransferInv, TransferTypeOK, MarkTransferRunning, Goto, Steps
<1>2. JobFacts(j)'
  <2>1. JobFacts(j) /\ UNCHANGED <<meta, verdict, dataVars, storeVars, up, rpc, agentVars>>
    BY DEF TransferInv, MarkTransferRunning
  <2>2. /\ pc[j] = "mark"
        /\ pc'[j] \in {"read", "have"}
    BY DEF TransferInv, TransferTypeOK, MarkTransferRunning, Goto
  <2> QED
    BY <1>0, <2>1, <2>2 DEF Outcomes, InFlight,
       JobFacts, CallFollowsPump, KindFollowsPump, RowFollowsPump, WholeBeforeDone, OwnerIsPast, InPlace
<1>3. \A k \in Jobs \ {j} : Same(k)
  BY <1>0 DEF TransferInv, TransferTypeOK, MarkTransferRunning, Goto, Same
<1> QED
  BY <1>1, <1>2, <1>3, MovesKeeps DEF Moves, MarkTransferRunning

LEMMA ReadStoredKeeps ==
    ASSUME TransferInv, NEW j \in Jobs, ReadStored(j)
    PROVE  TransferInv'
<1>1. TransferTypeOK'
  <2>1. pc' \in [Jobs -> Steps]
    BY DEF TransferInv, TransferTypeOK, ReadStored, Goto, Steps
  <2>2. cur' \in [Jobs -> Seq(Chunks)]
    BY ChunkIsTyped DEF TransferInv, TransferTypeOK, ReadStored
  <2>3. eof' \in [Jobs -> BOOLEAN]
    BY DEF TransferInv, TransferTypeOK, ReadStored
  <2> QED
    BY <2>1, <2>2, <2>3 DEF TransferInv, TransferTypeOK, ReadStored
<1>2. JobFacts(j)'
  BY ChunkIsTyped DEF TransferInv, TransferTypeOK, ReadStored, Goto, Outcomes,
     JobFacts, CallFollowsPump, KindFollowsPump, RowFollowsPump, WholeBeforeDone, OwnerIsPast, InPlace
<1>3. \A k \in Jobs \ {j} : Same(k)
  BY ChunkIsTyped DEF TransferInv, TransferTypeOK, ReadStored, Goto, Outcomes, Files, Same
<1> QED
  BY <1>1, <1>2, <1>3, MovesKeeps DEF Moves, ReadStored

LEMMA StoreChunkKeeps ==
    ASSUME TransferInv, NEW j \in Jobs, StoreChunk(j)
    PROVE  TransferInv'
<1>1. TransferTypeOK'
  <2>1. pc' \in [Jobs -> Steps]
    <3>1. \E step \in Steps : Goto(j, step)
      BY DEF StoreChunk, Steps
    <3> QED
      BY <3>1, GotoIsTyped
  <2>2. got' \in [Files -> Seq(Chunks)]
    BY DEF TransferInv, TransferTypeOK, StoreChunk, Files
  <2>3. off' \in [Jobs -> Nat]
    <3>1. off \in [Jobs -> Nat] /\ off[j] + 1 \in Nat
      BY DEF TransferInv, TransferTypeOK
    <3>2. UNCHANGED off \/ off' = [off EXCEPT ![j] = off[j] + 1]
      BY DEF StoreChunk
    <3> QED
      BY <3>1, <3>2
  <2> QED
    BY <2>1, <2>2, <2>3 DEF TransferInv, TransferTypeOK, StoreChunk
<1>2. JobFacts(j)'
  <2>1. /\ JobFacts(j) /\ pc[j] = "have" /\ kind[j] = "a2t" /\ pc'[j] \in {"commit", "read"}
        /\ UNCHANGED <<ledgerVars, verdict, kind, eof, want, from, rpc, agentVars>>
    BY DEF TransferInv, TransferTypeOK, StoreChunk, Goto
  <2> QED
    BY <2>1 DEF Outcomes, JobFacts, CallFollowsPump, KindFollowsPump, RowFollowsPump, WholeBeforeDone, OwnerIsPast
<1>3. \A k \in Jobs \ {j} : Same(k)
  BY DEF TransferInv, TransferTypeOK, StoreChunk, Goto, Outcomes, Files, Files, Same
<1> QED
  BY <1>1, <1>2, <1>3, MovesKeeps DEF Moves, StoreChunk

LEMMA SendWriteKeeps ==
    ASSUME TransferInv, NEW j \in Jobs, SendWrite(j)
    PROVE  TransferInv'
<1>1. TransferTypeOK'
  <2>1. pc' \in [Jobs -> Steps]
    <3>1. \E step \in Steps : Goto(j, step)
      BY DEF SendWrite, Conclude, Steps
    <3> QED
      BY <3>1, GotoIsTyped
  <2>2. verdict' \in [Jobs -> Outcomes \cup {"none", "lost"}]
    BY DEF TransferInv, TransferTypeOK, SendWrite, Conclude, Outcomes
  <2>3. rpc' \in [Jobs -> Rpcs]
    BY DEF TransferInv, TransferTypeOK, SendWrite, Rpcs
  <2> QED
    BY <2>1, <2>2, <2>3 DEF TransferInv, TransferTypeOK, SendWrite
<1>2. JobFacts(j)'
  <2>1. JobFacts(j)
    BY DEF TransferInv
  <2>2. CASE GivesUp(j)
    BY <2>1, <2>2, GivesUpKeeps
  <2>3. CASE pc'[j] = "writing" /\ rpc'[j] = "write" /\ UNCHANGED verdict
    <3>1. /\ pc[j] = "have" /\ UNCHANGED <<ledgerVars, dataVars, got, agentVars>>
          /\ kind[j] # "a2t"
      BY DEF SendWrite
    <3> QED
      BY <2>1, <2>3, <3>1 DEF Outcomes,
         JobFacts, CallFollowsPump, KindFollowsPump, RowFollowsPump, WholeBeforeDone, OwnerIsPast, InPlace
  <2>4. GivesUp(j) \/ (pc'[j] = "writing" /\ rpc'[j] = "write" /\ UNCHANGED verdict)
    BY DEF TransferInv, TransferTypeOK, SendWrite, Goto, Conclude, GivesUp
  <2> QED
    BY <2>2, <2>3, <2>4
<1>3. \A k \in Jobs \ {j} : Same(k)
  BY DEF TransferInv, TransferTypeOK, SendWrite, Goto, Conclude, Outcomes, Files, Same
<1> QED
  BY <1>1, <1>2, <1>3, MovesKeeps DEF Moves, SendWrite

LEMMA WriteReplyKeeps ==
    ASSUME TransferInv, NEW j \in Jobs, WriteReply(j)
    PROVE  TransferInv'
<1>1. TransferTypeOK'
  <2>1. pc' \in [Jobs -> Steps]
    <3>1. \E step \in Steps : Goto(j, step)
      BY DEF WriteReply, Steps
    <3> QED
      BY <3>1, GotoIsTyped
  <2>2. rpc' \in [Jobs -> Rpcs]
    BY DEF TransferInv, TransferTypeOK, WriteReply, Rpcs
  <2>3. off' \in [Jobs -> Nat]
    <3>1. off \in [Jobs -> Nat] /\ off[j] + 1 \in Nat
      BY DEF TransferInv, TransferTypeOK
    <3>2. UNCHANGED off \/ off' = [off EXCEPT ![j] = off[j] + 1]
      BY DEF WriteReply
    <3> QED
      BY <3>1, <3>2
  <2> QED
    BY <2>1, <2>2, <2>3 DEF TransferInv, TransferTypeOK, WriteReply
<1>2. JobFacts(j)'
  BY DEF TransferInv, TransferTypeOK, WriteReply, Goto, Outcomes,
     JobFacts, CallFollowsPump, KindFollowsPump, RowFollowsPump, WholeBeforeDone, OwnerIsPast, InPlace
<1>3. \A k \in Jobs \ {j} : Same(k)
  BY DEF TransferInv, TransferTypeOK, WriteReply, Goto, Outcomes, Files, Same
<1> QED
  BY <1>1, <1>2, <1>3, MovesKeeps DEF Moves, WriteReply

LEMMA RpcFailsKeeps ==
    ASSUME TransferInv, NEW j \in Jobs, RpcFails(j)
    PROVE  TransferInv'
<1>1. TransferTypeOK'
  BY DEF TransferInv, TransferTypeOK, JobFacts, KindFollowsPump, RpcFails, Goto, Conclude, Abort, Outcomes, Steps, Rpcs, Stages, Files
<1>2. JobFacts(j)'
  <2>1. JobFacts(j)
    BY DEF TransferInv
  <2>2. GivesUp(j)
    BY DEF TransferInv, TransferTypeOK, RpcFails, Goto, Conclude, Abort, GivesUp
  <2> QED
    BY <2>1, <2>2, GivesUpKeeps
<1>3. \A k \in Jobs \ {j} : Same(k)
  BY DEF TransferInv, TransferTypeOK, RpcFails, Goto, Conclude, Abort, Outcomes, Files, Same
<1> QED
  BY <1>1, <1>2, <1>3, MovesKeeps DEF Moves, RpcFails

LEMMA CommitKeeps ==
    ASSUME TransferInv, NEW j \in Jobs, Commit(j)
    PROVE  TransferInv'
<1>1. TransferTypeOK'
  BY ZenonT(60) DEF TransferInv, TransferTypeOK, JobFacts, KindFollowsPump, Commit, Goto, Conclude, CommitContent, Outcomes, Steps, Rpcs, Stages, Files
<1>2. JobFacts(j)'
  <2>1. JobFacts(j)
    BY DEF TransferInv
  <2>2. CASE GivesUp(j)
    BY <2>1, <2>2, GivesUpKeeps
  <2>3. CASE pc'[j] = "writemeta" /\ rpc'[j] = rpc[j] /\ UNCHANGED verdict
    <3>1. /\ pc[j] = "commit" /\ UNCHANGED <<ledgerVars, dataVars, got, agentVars>>
      BY DEF Commit
    <3> QED
      BY <2>1, <2>3, <3>1 DEF Outcomes,
         JobFacts, CallFollowsPump, KindFollowsPump, RowFollowsPump, WholeBeforeDone, OwnerIsPast, InPlace
  <2>4. GivesUp(j) \/ (pc'[j] = "writemeta" /\ rpc'[j] = rpc[j] /\ UNCHANGED verdict)
    BY DEF TransferInv, TransferTypeOK, Commit, Goto, Conclude, CommitContent, GivesUp
  <2> QED
    BY <2>2, <2>3, <2>4
<1>3. \A k \in Jobs \ {j} : Same(k)
  BY DEF TransferInv, TransferTypeOK, Commit, Goto, Conclude, CommitContent, Outcomes, Files, Same
<1> QED
  BY <1>1, <1>2, <1>3, MovesKeeps DEF Moves, Commit

LEMMA WriteMetaKeeps ==
    ASSUME TransferInv, NEW j \in Jobs, WriteMeta(j)
    PROVE  TransferInv'
<1>1. TransferTypeOK'
  BY ZenonT(60) DEF TransferInv, TransferTypeOK, JobFacts, KindFollowsPump, WriteMeta, Goto, Conclude, CommitMeta, Outcomes, Steps, Rpcs, Stages, Files
<1>2. JobFacts(j)'
  <2>1. JobFacts(j)
    BY DEF TransferInv
  <2>2. CASE GivesUp(j)
    BY <2>1, <2>2, GivesUpKeeps
  <2>3. CASE pc'[j] = "verify" /\ rpc'[j] = rpc[j] /\ UNCHANGED verdict
    <3>1. /\ pc[j] = "writemeta" /\ UNCHANGED <<ledgerVars, dataVars, got, agentVars>>
      BY DEF WriteMeta
    <3> QED
      BY <2>1, <2>3, <3>1 DEF Outcomes,
         JobFacts, CallFollowsPump, KindFollowsPump, RowFollowsPump, WholeBeforeDone, OwnerIsPast, InPlace
  <2>4. GivesUp(j) \/ (pc'[j] = "verify" /\ rpc'[j] = rpc[j] /\ UNCHANGED verdict)
    BY DEF TransferInv, TransferTypeOK, WriteMeta, Goto, Conclude, CommitMeta, GivesUp
  <2> QED
    BY <2>2, <2>3, <2>4
<1>3. \A k \in Jobs \ {j} : Same(k)
  BY DEF TransferInv, TransferTypeOK, WriteMeta, Goto, Conclude, CommitMeta, Outcomes, Files, Same
<1> QED
  BY <1>1, <1>2, <1>3, MovesKeeps DEF Moves, WriteMeta

LEMMA VerifyKeeps ==
    ASSUME TransferInv, NEW j \in Jobs, Verify(j)
    PROVE  TransferInv'
<1>1. TransferTypeOK'
  BY ZenonT(60) DEF TransferInv, TransferTypeOK, JobFacts, KindFollowsPump, Verify, Goto, Conclude, Abort, DigestAgrees, Outcomes, Steps, Rpcs, Stages, Files
<1>2. JobFacts(j)'
  <2>1. /\ JobFacts(j) /\ pc[j] = "verify" /\ kind[j] = "a2t"
        /\ UNCHANGED <<ledgerVars, dataVars, got, rpc, agentVars>>
    BY DEF TransferInv, JobFacts, KindFollowsPump, Verify
  <2>2. CASE GivesUp(j)
    BY <2>1, <2>2, GivesUpKeeps
  <2>3. CASE pc'[j] = "meta" /\ got[j] = want[j] /\ UNCHANGED verdict
    BY <2>1, <2>3 DEF Outcomes, JobFacts, CallFollowsPump, KindFollowsPump, RowFollowsPump, WholeBeforeDone,
       OwnerIsPast, InPlace
  <2>4. GivesUp(j) \/ (pc'[j] = "meta" /\ got[j] = want[j] /\ UNCHANGED verdict)
    BY <2>1 DEF TransferInv, TransferTypeOK, Verify, DigestAgrees, Goto, Conclude, Abort, GivesUp
  <2> QED
    BY <2>2, <2>3, <2>4
<1>3. \A k \in Jobs \ {j} : Same(k)
  BY DEF TransferInv, TransferTypeOK, Verify, Goto, Conclude, Abort, DigestAgrees, Outcomes, Files, Same
<1> QED
  BY <1>1, <1>2, <1>3, MovesKeeps DEF Moves, Verify

LEMMA RecordMetaKeeps ==
    ASSUME TransferInv, NEW j \in Jobs, RecordMeta(j)
    PROVE  TransferInv'
<1>1. TransferTypeOK'
  BY NoFileAssumption, SMTT(60) DEF TransferInv, TransferTypeOK, JobFacts, KindFollowsPump, RecordMeta, Goto, Conclude, Outcomes, Metas, Steps, Rpcs, Stages, Files
<1>2. JobFacts(j)'
  <2>1. JobFacts(j) /\ pc[j] = "meta" /\ pc'[j] = "finish" /\ verdict'[j] = "succeeded"
        /\ UNCHANGED <<status, dataVars, storeVars, rpc, agentVars>>
    BY DEF TransferInv, TransferTypeOK, RecordMeta, Goto, Conclude
  <2>2. meta'[j] = [sha |-> want[j], size |-> IF kind[j] = "a2a" THEN size[j] ELSE Len(want[j])]
    BY DEF TransferInv, TransferTypeOK, RecordMeta
  <2>3. meta'[j] # NoFile
    <3>1. want[j] \in Seq(Chunks) /\ size[j] \in Nat /\ Len(want[j]) \in Nat
      BY DEF TransferInv, TransferTypeOK
    <3>2. meta'[j] \in Metas
      BY <2>2, <3>1 DEF Metas
    <3> QED
      BY <3>2, NoFileAssumption
  <2> QED
    BY <2>1, <2>2, <2>3 DEF Outcomes,
       JobFacts, CallFollowsPump, KindFollowsPump, RowFollowsPump, WholeBeforeDone, OwnerIsPast, InPlace
<1>3. \A k \in Jobs \ {j} : Same(k)
  BY NoFileAssumption DEF TransferInv, TransferTypeOK, RecordMeta, Goto, Conclude, Outcomes, Metas, Files, Same
<1> QED
  BY <1>1, <1>2, <1>3, MovesKeeps DEF Moves, RecordMeta

LEMMA FinishKeeps ==
    ASSUME TransferInv, NEW j \in Jobs, Finish(j)
    PROVE  TransferInv'
<1>0. /\ pc[j] = "finish" /\ verdict[j] \in Outcomes \cup {"lost"} /\ JobFacts(j)
      /\ UNCHANGED <<meta, verdict, kind, want, from, storeVars, up, rpc, agentVars, faults>>
  BY DEF TransferInv, TransferTypeOK, JobFacts, RowFollowsPump, Finish
<1>1. /\ status' \in [Jobs -> JobStatuses \cup {"none"}]
      /\ \A k \in Jobs : status'[k] = IF k = j /\ status[j] \in InFlight THEN verdict[j] ELSE status[k]
  <2>1. verdict[j] \in JobStatuses /\ status \in [Jobs -> JobStatuses \cup {"none"}]
    BY <1>0 DEF JobStatuses, Final, TransferInv, TransferTypeOK
  <2> QED
    BY <2>1, UpdateChanges DEF Finish, FinishJob
<1>2. /\ pc' = [pc EXCEPT ![j] = "over"] /\ pc'[j] = "over"
      /\ \A k \in Jobs \ {j} : pc'[k] = pc[k]
  BY DEF Finish, Goto, TransferInv, TransferTypeOK
<1>3. /\ off' \in [Jobs -> Nat] /\ cur' \in [Jobs -> Seq(Chunks)] /\ eof' \in [Jobs -> BOOLEAN]
      /\ size' \in [Jobs -> Nat] /\ \A k \in Jobs \ {j} : eof'[k] = eof[k]
  <2>1. <<>> \in Seq(Chunks)
    OBVIOUS
  <2>2. /\ off \in [Jobs -> Nat] /\ cur \in [Jobs -> Seq(Chunks)] /\ eof \in [Jobs -> BOOLEAN]
        /\ size \in [Jobs -> Nat]
    BY DEF TransferInv, TransferTypeOK
  <2>3. CASE UNCHANGED <<off, cur, eof, size>>
    BY <2>2, <2>3
  <2>4. CASE /\ off' = [off EXCEPT ![j] = 0] /\ cur' = [cur EXCEPT ![j] = <<>>]
             /\ eof' = [eof EXCEPT ![j] = FALSE] /\ size' = [size EXCEPT ![j] = 0]
    BY <2>1, <2>2, <2>4
  <2> QED
    BY <2>3, <2>4 DEF Finish, Forget
<1>4. TransferTypeOK'
  <2>1. pc' \in [Jobs -> Steps]
    BY <1>2 DEF TransferInv, TransferTypeOK, Steps
  <2> QED
    BY <1>0, <1>1, <1>3, <2>1 DEF TransferInv, TransferTypeOK, Finish
<1>5. JobFacts(j)'
  BY <1>0, <1>1, <1>2 DEF Outcomes, InFlight,
     JobFacts, CallFollowsPump, KindFollowsPump, RowFollowsPump, WholeBeforeDone, OwnerIsPast, InPlace
<1>6. \A k \in Jobs \ {j} : Same(k)
  BY <1>0, <1>1, <1>2, <1>3 DEF Same
<1> QED
  BY <1>0, <1>4, <1>5, <1>6, MovesKeeps DEF Moves

LEMMA RpcTimesOutKeeps ==
    ASSUME TransferInv, NEW j \in Jobs, RpcTimesOut(j)
    PROVE  TransferInv'
<1>1. TransferTypeOK'
  BY FaultsAssumption DEF TransferInv, TransferTypeOK, JobFacts, KindFollowsPump, RpcTimesOut, Goto, Conclude, Abort, Fault, Outcomes, Steps, Rpcs, Stages, Files
<1>2. JobFacts(j)'
  BY FaultsAssumption, ZenonT(60) DEF TransferInv, TransferTypeOK, RpcTimesOut, Goto, Conclude, Abort, Fault, Outcomes,
     JobFacts, CallFollowsPump, KindFollowsPump, RowFollowsPump, WholeBeforeDone, OwnerIsPast, InPlace
<1>3. \A k \in Jobs \ {j} : Same(k)
  BY FaultsAssumption DEF TransferInv, TransferTypeOK, RpcTimesOut, Goto, Conclude, Abort, Fault, Outcomes, Files, Same
<1> QED
  BY <1>1, <1>2, <1>3, MovesKeeps DEF Moves, RpcTimesOut

LEMMA OuterTimeoutKeeps ==
    ASSUME TransferInv, NEW j \in Jobs, OuterTimeout(j)
    PROVE  TransferInv'
<1>1. TransferTypeOK'
  BY FaultsAssumption DEF TransferInv, TransferTypeOK, JobFacts, KindFollowsPump, OuterTimeout, Goto, Conclude, Fault, Outcomes, Steps, Rpcs, Stages, Files
<1>2. JobFacts(j)'
  BY FaultsAssumption, ZenonT(60) DEF TransferInv, TransferTypeOK, OuterTimeout, Goto, Conclude, Fault, Outcomes,
     JobFacts, CallFollowsPump, KindFollowsPump, RowFollowsPump, WholeBeforeDone, OwnerIsPast, InPlace
<1>3. \A k \in Jobs \ {j} : Same(k)
  BY FaultsAssumption DEF TransferInv, TransferTypeOK, OuterTimeout, Goto, Conclude, Fault, Outcomes, Files, Same
<1> QED
  BY <1>1, <1>2, <1>3, MovesKeeps DEF Moves, OuterTimeout

-----------------------------------------------------------------------------
(* The server's other handlers, and the surroundings                       *)

\* A step that touches no file job.
Rests == TransferTypeOK' /\ (\A k \in Jobs : Same(k)) /\ UNCHANGED <<dest, live, side>>

LEMMA RestsKeeps == TransferInv /\ Rests => TransferInv'
  BY SameKeeps DEF TransferInv, Rests

LEMMA StoreKeeps ==
    ASSUME TransferInv, NEW f \in Files,
           RemoveStored(f) \/ (f \in Uploads /\ (BeginUpload(f) \/ AbortUpload(f) \/ FinishUpload(f)))
    PROVE  TransferInv'
<1>1. UNCHANGED <<ledgerVars, pc, verdict, dataVars, up, rpc, agentVars>> /\ f \in Files
  BY DEF RemoveStored, BeginUpload, AbortUpload, FinishUpload
<1>2. stage' \in [Files -> Stages]
  BY ZenonT(60) DEF TransferInv, TransferTypeOK, RemoveStored, BeginUpload, AbortUpload, FinishUpload,
     CommitContent, CommitMeta, Stages
<1>3. faults' \in 0 .. MaxFaults
  BY FaultsAssumption DEF TransferInv, TransferTypeOK, RemoveStored, BeginUpload, AbortUpload, FinishUpload, Fault
<1>4. got' \in [Files -> Seq(Chunks)] /\ \A k \in Jobs : got'[k] = got[k]
  <2>1. UNCHANGED got \/ (f \in Uploads /\ got' = [got EXCEPT ![f] = Uploaded])
    <3>1. CASE f \in Uploads /\ BeginUpload(f)
      BY <3>1 DEF BeginUpload
    <3>2. CASE RemoveStored(f) \/ AbortUpload(f) \/ FinishUpload(f)
      BY <3>2 DEF RemoveStored, AbortUpload, FinishUpload
    <3> QED
      BY <3>1, <3>2
  <2> QED
    <3>1. got \in [Files -> Seq(Chunks)] /\ Uploaded \in Seq(Chunks) /\ Jobs \subseteq Files
      BY ChunksAreSeqs DEF TransferInv, TransferTypeOK, Files
    <3>2. CASE UNCHANGED got
      BY <3>1, <3>2
    <3>3. CASE f \in Uploads /\ got' = [got EXCEPT ![f] = Uploaded]
      BY <3>1, <3>3, UploadsAssumption
    <3> QED
      BY <2>1, <3>2, <3>3
<1>5. TransferTypeOK'
  BY <1>1, <1>2, <1>3, <1>4 DEF TransferInv, TransferTypeOK
<1> QED
  BY <1>1, <1>4, <1>5, RestsKeeps DEF Rests, Same

\* A job is given up, its pump ended or its calls cut off from outside.
Disturbs(k) ==
    /\ pc'[k] = pc[k] \/ (pc[k] # "none" /\ pc'[k] = "over")
    /\ status'[k] = status[k] \/ (status[k] \in InFlight /\ status'[k] = "lost")
    /\ rpc'[k] = rpc[k] \/ (rpc[k] # "none" /\ rpc'[k] = "broken")
    /\ live' \subseteq live

LEMMA DisturbsKeeps ==
    ASSUME TransferInv, TransferTypeOK', \A k \in Jobs : Disturbs(k),
           UNCHANGED <<meta, verdict, dataVars, got, dest, side>>
    PROVE  TransferInv'
<1>1. ASSUME NEW k \in Jobs
      PROVE  JobFacts(k)'
  <2>1. JobFacts(k) /\ Disturbs(k)
    BY DEF TransferInv
  <2>2. CallFollowsPump(k)'
    BY <2>1 DEF JobFacts, Disturbs, CallFollowsPump
  <2>3. KindFollowsPump(k)'
    BY <2>1 DEF JobFacts, Disturbs, KindFollowsPump
  <2>4. RowFollowsPump(k)'
    BY <2>1 DEF JobFacts, Disturbs, RowFollowsPump, InFlight, Outcomes
  <2>5. WholeBeforeDone(k)'
    BY <2>1 DEF JobFacts, Disturbs, WholeBeforeDone, InPlace
  <2>6. OwnerIsPast(k)'
    BY <2>1 DEF JobFacts, Disturbs, OwnerIsPast
  <2> QED
    BY <2>2, <2>3, <2>4, <2>5, <2>6 DEF JobFacts
<1> QED
  BY <1>1 DEF TransferInv

\* A connection that ends takes the calls on it along.
LEMMA BrokenChanges ==
    ASSUME TransferInv, NEW S
    PROVE  /\ Broken(S) \in [Jobs -> Rpcs]
           /\ \A k \in Jobs : Broken(S)[k] = rpc[k] \/ (rpc[k] # "none" /\ Broken(S)[k] = "broken")
  BY DEF Broken, TransferInv, TransferTypeOK, Rpcs

LEMMA SurroundingsKeep ==
    ASSUME TransferInv,
           EditSource \/ RestartServer \/ \E e \in Ends : GiveUpJobsOf(e) \/ LinkDrop(e) \/ Reconnect(e)
    PROVE  TransferInv'
<1>1. CASE EditSource
  <2>1. UNCHANGED <<ledgerVars, pc, verdict, dataVars, storeVars, up, rpc, dest, live, side>>
        /\ src' \in Sources /\ faults' \in 0 .. MaxFaults
    BY <1>1, FaultsAssumption DEF EditSource, Fault, TransferInv, TransferTypeOK
  <2>2. TransferTypeOK'
    BY <2>1 DEF TransferInv, TransferTypeOK
  <2> QED
    BY <2>1, <2>2, RestsKeeps DEF Rests, Same
<1>2. CASE RestartServer
  <2>1. /\ status' \in [Jobs -> JobStatuses \cup {"none"}]
        /\ \A k \in Jobs : status'[k] = status[k] \/ (status[k] \in InFlight /\ status'[k] = "lost")
    <3>1. status' = MarkLostAmong(status, Jobs) /\ status \in [Jobs -> JobStatuses \cup {"none"}]
      BY <1>2 DEF RestartServer, TransferInv, TransferTypeOK
    <3>2. /\ MarkLostAmong(status, Jobs) \in [Jobs -> JobStatuses \cup {"none"}]
          /\ \A k \in Jobs : MarkLostAmong(status, Jobs)[k] =
                IF k \in Jobs /\ status[k] \in InFlight THEN "lost" ELSE status[k]
      BY <3>1, GiveUpChanges
    <3> QED BY <3>1, <3>2
  <2>2. /\ rpc' \in [Jobs -> Rpcs]
        /\ \A k \in Jobs : rpc'[k] = rpc[k] \/ (rpc[k] # "none" /\ rpc'[k] = "broken")
    BY <1>2, BrokenChanges DEF RestartServer
  <2>3. /\ pc' \in [Jobs -> Steps]
        /\ \A k \in Jobs : pc'[k] = pc[k] \/ (pc[k] # "none" /\ pc'[k] = "over")
    BY <1>2 DEF RestartServer, Steps
  <2>4. /\ UNCHANGED <<meta, verdict, dataVars, storeVars, src, dest, side>> /\ live' = {}
        /\ up' \in [Ends -> BOOLEAN] /\ faults' \in 0 .. MaxFaults
    BY <1>2, FaultsAssumption DEF RestartServer, Fault, TransferInv, TransferTypeOK
  <2>5. TransferTypeOK'
    BY <2>1, <2>2, <2>3, <2>4 DEF TransferInv, TransferTypeOK
  <2> QED
    BY <2>1, <2>2, <2>3, <2>4, <2>5, DisturbsKeeps DEF Disturbs
<1>3. ASSUME NEW e \in Ends, GiveUpJobsOf(e)
      PROVE  TransferInv'
  <2>1. /\ status' \in [Jobs -> JobStatuses \cup {"none"}]
        /\ \A k \in Jobs : status'[k] = status[k] \/ (status[k] \in InFlight /\ status'[k] = "lost")
    <3>1. PICK S : status' = MarkLostAmong(status, S)
      BY <1>3 DEF GiveUpJobsOf
    <3> QED
      BY <3>1, GiveUpChanges, ZenonT(60) DEF TransferInv, TransferTypeOK
  <2>2. UNCHANGED <<meta, pc, verdict, dataVars, storeVars, up, rpc, agentVars, faults>>
    BY <1>3 DEF GiveUpJobsOf
  <2>3. TransferTypeOK'
    BY <2>1, <2>2 DEF TransferInv, TransferTypeOK
  <2> QED
    BY <2>1, <2>2, <2>3, DisturbsKeeps DEF Disturbs
<1>4. ASSUME NEW e \in Ends, LinkDrop(e)
      PROVE  TransferInv'
  <2>1. /\ rpc' \in [Jobs -> Rpcs]
        /\ \A k \in Jobs : rpc'[k] = rpc[k] \/ (rpc[k] # "none" /\ rpc'[k] = "broken")
    BY <1>4, BrokenChanges DEF LinkDrop
  <2>2. /\ UNCHANGED <<ledgerVars, pc, verdict, dataVars, storeVars, src, dest, side>>
        /\ up' \in [Ends -> BOOLEAN] /\ faults' \in 0 .. MaxFaults /\ live' \subseteq live
    BY <1>4, FaultsAssumption DEF LinkDrop, Fault, TransferInv, TransferTypeOK
  <2>3. TransferTypeOK'
    BY <2>1, <2>2 DEF TransferInv, TransferTypeOK
  <2> QED
    BY <2>1, <2>2, <2>3, DisturbsKeeps DEF Disturbs
<1>5. ASSUME NEW e \in Ends, Reconnect(e)
      PROVE  TransferInv'
  <2>1. /\ UNCHANGED <<ledgerVars, pc, verdict, dataVars, storeVars, rpc, agentVars, faults>>
        /\ up' \in [Ends -> BOOLEAN]
    BY <1>5 DEF Reconnect, TransferInv, TransferTypeOK
  <2>2. TransferTypeOK'
    BY <2>1 DEF TransferInv, TransferTypeOK
  <2> QED
    BY <2>1, <2>2, RestsKeeps DEF Rests, Same
<1> QED
  BY <1>1, <1>2, <1>3, <1>4, <1>5

-----------------------------------------------------------------------------
(* The agents' handlers                                                    *)

LEMMA HandleReadKeeps ==
    ASSUME TransferInv, NEW j \in Jobs, HandleRead(j)
    PROVE  TransferInv'
<1>1. /\ JobFacts(j) /\ rpc[j] = "read" /\ rpc'[j] \in {"failed", "hash", "ok"}
      /\ \A k \in Jobs \ {j} : rpc'[k] = rpc[k]
      /\ UNCHANGED <<ledgerVars, pc, verdict, kind, off, want, from, storeVars, up, agentVars, faults>>
  BY DEF TransferInv, TransferTypeOK, HandleRead, Replies
<1>2. /\ cur' \in [Jobs -> Seq(Chunks)] /\ eof' \in [Jobs -> BOOLEAN] /\ size' \in [Jobs -> Nat]
      /\ \A k \in Jobs \ {j} : eof'[k] = eof[k]
  <2>1. src \in Seq(Chunks) /\ off[j] \in Nat /\ Len(src) \in Nat
    BY ChunksAreSeqs DEF TransferInv, TransferTypeOK
  <2>2. ChunkAt(src, off[j]) \in Seq(Chunks) /\ (off[j] + 1 >= Len(src)) \in BOOLEAN
    <3>1. ChunkAt(src, off[j]) \in Seq(Chunks)
      BY <2>1, ChunkIsTyped
    <3>2. (off[j] + 1 >= Len(src)) \in BOOLEAN
      OBVIOUS
    <3> QED
      BY <3>1, <3>2
  <2>3. cur \in [Jobs -> Seq(Chunks)] /\ eof \in [Jobs -> BOOLEAN] /\ size \in [Jobs -> Nat]
    BY DEF TransferInv, TransferTypeOK
  <2>4. CASE UNCHANGED <<cur, eof, size>>
    BY <2>3, <2>4
  <2>5. CASE /\ cur' = [cur EXCEPT ![j] = ChunkAt(src, off[j])]
             /\ eof' = [eof EXCEPT ![j] = off[j] + 1 >= Len(src)]
             /\ size' = [size EXCEPT ![j] = Len(src)] \/ UNCHANGED size
    BY <2>1, <2>2, <2>3, <2>5
  <2> QED
    BY <2>4, <2>5 DEF HandleRead
<1>3. rpc' \in [Jobs -> Rpcs]
  <2>1. \E r \in Rpcs : rpc' = [rpc EXCEPT ![j] = r]
    BY DEF HandleRead, Replies, Rpcs
  <2> QED
    BY <2>1 DEF TransferInv, TransferTypeOK
<1>4. TransferTypeOK'
  BY <1>1, <1>2, <1>3 DEF TransferInv, TransferTypeOK
<1>5. JobFacts(j)'
  <2>1. pc[j] \in {"reading", "finish", "over"}
    BY <1>1 DEF JobFacts, CallFollowsPump
  <2> QED
    BY <1>1, <2>1 DEF JobFacts, CallFollowsPump, KindFollowsPump, RowFollowsPump, WholeBeforeDone, OwnerIsPast
<1>6. \A k \in Jobs \ {j} : Same(k)
  BY <1>1, <1>2 DEF Same
<1> QED
  BY <1>1, <1>4, <1>5, <1>6, MovesKeeps DEF Moves

LEMMA HandleHashKeeps ==
    ASSUME TransferInv, NEW j \in Jobs, HandleHash(j)
    PROVE  TransferInv'
<1>1. /\ JobFacts(j) /\ rpc[j] = "hash" /\ rpc' = [rpc EXCEPT ![j] = "ok"] /\ want' = [want EXCEPT ![j] = src]
      /\ UNCHANGED <<ledgerVars, pc, verdict, kind, off, cur, eof, size, from, storeVars, up, agentVars, faults>>
  BY DEF TransferInv, HandleHash, Replies
<1>2. /\ want' \in [Jobs -> Seq(Chunks)] /\ rpc' \in [Jobs -> Rpcs] /\ rpc'[j] = "ok"
      /\ \A k \in Jobs \ {j} : rpc'[k] = rpc[k] /\ want'[k] = want[k]
  BY <1>1, ChunksAreSeqs DEF TransferInv, TransferTypeOK, Rpcs
<1>3. TransferTypeOK'
  BY <1>1, <1>2 DEF TransferInv, TransferTypeOK
<1>4. JobFacts(j)'
  <2>1. pc[j] \in {"reading", "finish", "over"}
    BY <1>1 DEF JobFacts, CallFollowsPump
  <2> QED
    BY <1>1, <1>2, <2>1 DEF JobFacts, CallFollowsPump, KindFollowsPump, RowFollowsPump, WholeBeforeDone, OwnerIsPast
<1>5. \A k \in Jobs \ {j} : Same(k)
  BY <1>1, <1>2 DEF Same
<1> QED
  BY <1>1, <1>3, <1>4, <1>5, MovesKeeps DEF Moves

\* What write_file does: it purges some sessions of transfers that are over
\* and, for its own, keeps the session with the chunk in its sidecar or drops
\* both; the last chunk puts a file that agrees with its digest at a free path.
Written(j, stale, file, lives) ==
    /\ side' = [k \in Jobs |-> IF k \in stale THEN NoFile ELSE IF k = j THEN file ELSE side[k]]
    /\ live' = (live \ (stale \cup {j})) \cup lives
    /\ UNCHANGED <<ledgerVars, pc, verdict, dataVars, storeVars, up, src>>
    /\ faults' \in 0 .. MaxFaults
    /\ file \in {NoFile} \cup Seq(Chunks) /\ lives \subseteq {j} /\ (lives # {} => file # NoFile)
    /\ \/ rpc' = [rpc EXCEPT ![j] = "failed"] /\ UNCHANGED dest
       \/ rpc' = [rpc EXCEPT ![j] = "ok"] /\ ~eof[j] /\ UNCHANGED dest
       \/ /\ rpc' = [rpc EXCEPT ![j] = "ok"] /\ eof[j] /\ file = NoFile
          /\ dest = NoFile /\ dest' = [by |-> j, data |-> want[j]]

LEMMA WriteDoes ==
    ASSUME TransferInv, NEW j \in Jobs, HandleWrite(j)
    PROVE  \E stale \in SUBSET Stale(j) : \E file, lives : Written(j, stale, file, lives)
<1>1. /\ JobFacts(j) /\ cur[j] \in Seq(Chunks) /\ side[j] \in {NoFile} \cup Seq(Chunks)
      /\ faults \in 0 .. MaxFaults /\ (j \in live => side[j] # NoFile) /\ NoFile \notin Seq(Chunks)
  BY NoFileAssumption DEF TransferInv, TransferTypeOK, JobFacts, KindFollowsPump
<1>2. InOrder(j) => Appended(j) \in Seq(Chunks)
  <2>1. CASE off[j] = 0
    BY <1>1, <2>1 DEF Appended
  <2>2. CASE off[j] # 0 /\ InOrder(j)
    <3>1. side[j] \in Seq(Chunks)
      BY <1>1, <2>2 DEF InOrder
    <3> QED
      BY <1>1, <2>2, <3>1 DEF Appended
  <2> QED
    BY <2>1, <2>2
<1>3. UNCHANGED <<ledgerVars, pc, verdict, dataVars, storeVars, up, src>>
  BY DEF HandleWrite
<1>4. faults' \in 0 .. MaxFaults
  BY <1>1, FaultsAssumption DEF HandleWrite, Fault
<1>5. PICK stale \in SUBSET Stale(j) :
        \E file, lives :
          /\ side' = [k \in Jobs |-> IF k \in stale THEN NoFile ELSE IF k = j THEN file ELSE side[k]]
          /\ live' = (live \ (stale \cup {j})) \cup lives
          /\ \/ /\ file = side[j] /\ lives = live \cap {j}
                /\ rpc' = [rpc EXCEPT ![j] = "failed"] /\ UNCHANGED dest
             \/ /\ InOrder(j) /\ ~eof[j] /\ file = Appended(j) /\ lives = {j}
                /\ rpc' = [rpc EXCEPT ![j] = "ok"] /\ UNCHANGED dest
             \/ /\ file = NoFile /\ lives = {}
                /\ rpc' = [rpc EXCEPT ![j] = "failed"] /\ UNCHANGED dest
             \/ /\ file = NoFile /\ lives = {} /\ eof[j]
                /\ rpc' = [rpc EXCEPT ![j] = "ok"]
                /\ dest = NoFile /\ dest' = [by |-> j, data |-> Appended(j)] /\ Appended(j) = want[j]
  BY DEF HandleWrite, Replies, SpotFree, DigestAgrees
<1>6. PICK file, lives :
          /\ side' = [k \in Jobs |-> IF k \in stale THEN NoFile ELSE IF k = j THEN file ELSE side[k]]
          /\ live' = (live \ (stale \cup {j})) \cup lives
          /\ \/ /\ file = side[j] /\ lives = live \cap {j}
                /\ rpc' = [rpc EXCEPT ![j] = "failed"] /\ UNCHANGED dest
             \/ /\ InOrder(j) /\ ~eof[j] /\ file = Appended(j) /\ lives = {j}
                /\ rpc' = [rpc EXCEPT ![j] = "ok"] /\ UNCHANGED dest
             \/ /\ file = NoFile /\ lives = {}
                /\ rpc' = [rpc EXCEPT ![j] = "failed"] /\ UNCHANGED dest
             \/ /\ file = NoFile /\ lives = {} /\ eof[j]
                /\ rpc' = [rpc EXCEPT ![j] = "ok"]
                /\ dest = NoFile /\ dest' = [by |-> j, data |-> Appended(j)] /\ Appended(j) = want[j]
  BY <1>5
<1>7. file \in {NoFile} \cup Seq(Chunks) /\ lives \subseteq {j} /\ (lives # {} => file # NoFile)
  BY <1>1, <1>2, <1>6
<1>8. Written(j, stale, file, lives)
  BY <1>3, <1>4, <1>6, <1>7 DEF Written
<1> QED
  BY <1>5, <1>8

LEMMA HandleWriteKeeps ==
    ASSUME TransferInv, NEW j \in Jobs, HandleWrite(j)
    PROVE  TransferInv'
<1>0. PICK stale \in SUBSET Stale(j) : \E file, lives : Written(j, stale, file, lives)
  BY WriteDoes
<1>1. PICK file, lives : Written(j, stale, file, lives)
  BY <1>0
<1>2. /\ JobFacts(j) /\ rpc[j] = "write" /\ pc[j] \in {"writing", "finish", "over"}
      /\ j \notin stale
  BY DEF TransferInv, HandleWrite, JobFacts, CallFollowsPump, Stale
<1>3. /\ UNCHANGED <<ledgerVars, pc, verdict, dataVars, storeVars, up, src>>
      /\ rpc' \in [Jobs -> Rpcs] /\ rpc'[j] \in {"ok", "failed"}
      /\ \A k \in Jobs \ {j} : rpc'[k] = rpc[k]
  BY <1>1, ZenonT(60) DEF Written, TransferInv, TransferTypeOK, Rpcs
<1>4. /\ side' \in [Jobs -> {NoFile} \cup Seq(Chunks)] /\ side'[j] = file
      /\ \A k \in Jobs \ {j} : side'[k] = NoFile \/ side'[k] = side[k]
      /\ live' \subseteq Jobs /\ (j \in live' => side'[j] # NoFile)
      /\ \A k \in Jobs \ {j} : k \in live' => k \in live /\ side'[k] = side[k]
  BY <1>1, <1>2 DEF Written, TransferInv, TransferTypeOK
<1>5. \/ UNCHANGED dest /\ (rpc'[j] = "ok" => ~eof[j])
      \/ /\ dest = NoFile /\ dest' = [by |-> j, data |-> want[j]] /\ dest' \in Placed /\ dest' # NoFile
         /\ rpc'[j] = "ok" /\ eof[j] /\ side'[j] = NoFile
  <2>1. want[j] \in Seq(Chunks) /\ rpc \in [Jobs -> Rpcs]
    BY DEF TransferInv, TransferTypeOK
  <2>2. [by |-> j, data |-> want[j]] \in Placed
    BY <2>1 DEF Placed
  <2> QED
    BY <1>1, <1>4, <2>1, <2>2, NoFileAssumption DEF Written
<1>6. TransferTypeOK'
  BY <1>1, <1>3, <1>4, <1>5 DEF Written, TransferInv, TransferTypeOK
<1>7. JobFacts(j)'
  BY <1>2, <1>3, <1>4, <1>5 DEF JobFacts, CallFollowsPump, KindFollowsPump, RowFollowsPump, WholeBeforeDone, OwnerIsPast
<1>8. ASSUME NEW k \in Jobs \ {j}
      PROVE  JobFacts(k)'
  <2>1. JobFacts(k) /\ rpc'[k] = rpc[k] /\ (side'[k] = NoFile \/ side'[k] = side[k])
        /\ (k \in live' => k \in live /\ side'[k] = side[k])
    BY <1>3, <1>4 DEF TransferInv
  <2>2. CallFollowsPump(k)' /\ KindFollowsPump(k)' /\ RowFollowsPump(k)'
    BY <1>3, <2>1 DEF JobFacts, CallFollowsPump, KindFollowsPump, RowFollowsPump
  <2>3. WholeBeforeDone(k)' /\ OwnerIsPast(k)'
    <3>1. UNCHANGED dest \/ (dest = NoFile /\ dest'.by # k)
      BY <1>5
    <3> QED
      BY <1>3, <2>1, <3>1 DEF JobFacts, WholeBeforeDone, OwnerIsPast, InPlace
  <2> QED
    BY <2>2, <2>3 DEF JobFacts
<1> QED
  BY <1>6, <1>7, <1>8 DEF TransferInv

-----------------------------------------------------------------------------
(* The theorems                                                            *)

LEMMA TransferStep == TransferInv /\ [Next]_vars => TransferInv'
<1> SUFFICES ASSUME TransferInv, [Next]_vars
             PROVE  TransferInv'
  OBVIOUS
<1>1. ASSUME NEW j \in Jobs, Submit(j) \/ \E earlier \in Jobs : Rerun(j, earlier)
      PROVE  TransferInv'
  BY <1>1, SubmissionKeeps
<1>2. ASSUME NEW j \in Jobs, Task(j)
      PROVE  TransferInv'
  BY <1>2, DispatchKeeps, StartKeeps, SendReadKeeps, ReadReplyKeeps, MarkTransferRunningKeeps, ReadStoredKeeps,
     StoreChunkKeeps, SendWriteKeeps, WriteReplyKeeps, RpcFailsKeeps, CommitKeeps, WriteMetaKeeps, VerifyKeeps,
     RecordMetaKeeps, FinishKeeps DEF Task
<1>3. ASSUME NEW j \in Jobs, Handle(j)
      PROVE  TransferInv'
  BY <1>3, HandleReadKeeps, HandleHashKeeps, HandleWriteKeeps DEF Handle
<1>4. ASSUME NEW j \in Jobs, RpcTimesOut(j) \/ OuterTimeout(j)
      PROVE  TransferInv'
  BY <1>4, RpcTimesOutKeeps, OuterTimeoutKeeps
<1>5. ASSUME NEW f \in Files, RemoveStored(f)
      PROVE  TransferInv'
  BY <1>5, StoreKeeps
<1>8. ASSUME NEW f \in Uploads, BeginUpload(f) \/ AbortUpload(f) \/ FinishUpload(f)
      PROVE  TransferInv'
  BY <1>8, StoreKeeps DEF Files
<1>6. CASE EditSource \/ RestartServer \/ \E e \in Ends : GiveUpJobsOf(e) \/ LinkDrop(e) \/ Reconnect(e)
  BY <1>6, SurroundingsKeep
<1>7. CASE UNCHANGED vars
  <2>1. TransferTypeOK'
    BY <1>7 DEF TransferInv, TransferTypeOK
  <2> QED
    BY <1>7, <2>1, RestsKeeps DEF Rests, Same
<1> QED
  BY <1>1, <1>2, <1>3, <1>4, <1>5, <1>6, <1>7, <1>8 DEF Next

\* The tasks of the server, the calls they wait for, the rows and what lies on
\* disks and agents fit together in every reachable state: TransferInv holds.
THEOREM TransferInvariant == Spec => []TransferInv
<1> QED
  BY TransferInitially, TransferStep, PTL DEF Spec

\* Whatever is edited, lost, timed out, retried or deleted while transfers
\* meet: what a row calls succeeded and what lies at a destination path is a
\* whole file with the digest its reader reported.
THEOREM FilesStayWhole == Spec => []FilesAreWhole
<1>1. TransferInv => FilesAreWhole
  <2> SUFFICES ASSUME TransferInv
               PROVE  FilesAreWhole
    OBVIOUS
  <2>1. SucceededIsWhole
    <3> SUFFICES ASSUME NEW j \in Jobs, status[j] = "succeeded"
                 PROVE  /\ meta[j] # NoFile /\ meta[j].sha = want[j]
                        /\ InPlace(j)
                        /\ kind[j] # "a2a" => meta[j].size = Len(want[j])
      BY DEF SucceededIsWhole, InPlace
    <3> QED
      BY DEF TransferInv, JobFacts, RowFollowsPump, WholeBeforeDone, Outcomes
  <2>2. PlacedIsWhole
    <3>1. dest # NoFile => dest.by \in Jobs
      BY DEF TransferInv, TransferTypeOK, Placed
    <3> QED
      BY <3>1 DEF TransferInv, JobFacts, OwnerIsPast, PlacedIsWhole
  <2> QED
    BY <2>1, <2>2 DEF FilesAreWhole, TransferInv
<1> QED
  BY <1>1, TransferInvariant, PTL

LEMMA PlacedStaysStep == TransferInv /\ [Next]_vars => [dest # NoFile => dest' = dest]_vars
<1> SUFFICES ASSUME TransferInv, Next, dest # NoFile
             PROVE  dest' = dest
  OBVIOUS
<1>1. ASSUME NEW j \in Jobs, HandleWrite(j)
      PROVE  dest' = dest
  <2>1. PICK stale \in SUBSET Stale(j) : \E file, lives : Written(j, stale, file, lives)
    BY <1>1, WriteDoes
  <2> QED
    BY <2>1 DEF Written
<1>2. ASSUME NEW j \in Jobs, Submit(j) \/ (\E earlier \in Jobs : Rerun(j, earlier)) \/ RpcTimesOut(j) \/ OuterTimeout(j)
      PROVE  dest' = dest
  BY <1>2 DEF Submit, Rerun, Accept, RpcTimesOut, OuterTimeout
<1>3. ASSUME NEW j \in Jobs, Task(j) \/ HandleRead(j) \/ HandleHash(j)
      PROVE  dest' = dest
  BY <1>3 DEF Task, Dispatch, Start, SendRead, ReadReply, MarkTransferRunning, ReadStored, StoreChunk, SendWrite,
     WriteReply, RpcFails, Commit, WriteMeta, Verify, RecordMeta, Finish, HandleRead, HandleHash
<1>4. ASSUME NEW f, RemoveStored(f) \/ BeginUpload(f) \/ AbortUpload(f) \/ FinishUpload(f)
      PROVE  dest' = dest
  BY <1>4 DEF RemoveStored, BeginUpload, AbortUpload, FinishUpload
<1>5. CASE EditSource \/ RestartServer \/ \E e \in Ends : GiveUpJobsOf(e) \/ LinkDrop(e) \/ Reconnect(e)
  BY <1>5 DEF EditSource, RestartServer, GiveUpJobsOf, LinkDrop, Reconnect
<1> QED
  BY <1>1, <1>2, <1>3, <1>4, <1>5 DEF Next, Handle

\* No late chunk, abort, retry or second transfer replaces or removes the file
\* that lies at a destination path.
THEOREM PlacedFilesStay == Spec => PlacedStays
<1> QED
  BY TransferInvariant, PlacedStaysStep, PTL DEF Spec, PlacedStays

-----------------------------------------------------------------------------
(* FileTransfer implements JobLifecycle                                    *)

\* What a reader of the ledger sees of the rows, and how the pumps ended.
Row == [j \in Jobs |-> IF status[j] = "dispatched" THEN "pending" ELSE status[j]]
Own == [j \in Jobs |-> IF verdict[j] \in Outcomes THEN verdict[j] ELSE "none"]

\* The life cycle instantiates JobLedger again.
LEMMA SameLedger ==
    /\ Lifecycle!InFlight = InFlight /\ Lifecycle!Outcomes = Outcomes
    /\ \A f, S : Lifecycle!MarkLostAmong(f, S) = MarkLostAmong(f, S)
  BY DEF Lifecycle!InFlight, InFlight, Lifecycle!Outcomes, Outcomes, Lifecycle!MarkLostAmong, MarkLostAmong

\* The steps of the life cycle, over the mapped rows.
LEMMA LifecycleSteps ==
    ASSUME NEW j \in Jobs
    PROVE  /\ Row[j] = "none" /\ Row' = [Row EXCEPT ![j] = "pending"] /\ Own' = Own => Lifecycle!Next
           /\ Row[j] \in InFlight /\ Row' = [Row EXCEPT ![j] = "running"] /\ Own' = Own => Lifecycle!Next
           /\ /\ Row[j] \notin {"none", "rejected"} /\ Own[j] = "none" /\ Row' = Row
              /\ \E o \in Outcomes : Own' = [Own EXCEPT ![j] = o]
              => Lifecycle!Next
           /\ /\ Row[j] \in InFlight /\ Own[j] # "none" /\ Row' = [Row EXCEPT ![j] = Own[j]] /\ Own' = Own
              => Lifecycle!Next
<1>1. Row[j] = "none" /\ Row' = [Row EXCEPT ![j] = "pending"] /\ Own' = Own => Lifecycle!Submit(j)
  BY DEF Lifecycle!Submit, Row, Own
<1>2. Row[j] \in InFlight /\ Row' = [Row EXCEPT ![j] = "running"] /\ Own' = Own => Lifecycle!Start(j)
  BY SameLedger DEF Lifecycle!Start, Row, Own
<1>3. /\ Row[j] \notin {"none", "rejected"} /\ Own[j] = "none" /\ Row' = Row
      /\ \E o \in Outcomes : Own' = [Own EXCEPT ![j] = o]
      => Lifecycle!Run(j)
  BY SameLedger DEF Lifecycle!Run, Row, Own
<1>4. Row[j] \in InFlight /\ Own[j] # "none" /\ Row' = [Row EXCEPT ![j] = Own[j]] /\ Own' = Own => Lifecycle!Record(j)
  BY SameLedger DEF Lifecycle!Record, Row, Own
<1> QED
  BY <1>1, <1>2, <1>3, <1>4 DEF Lifecycle!Next

LEMMA GiveUpRefines ==
    ASSUME NEW S \in SUBSET Jobs, TransferInv, status' = MarkLostAmong(status, S), UNCHANGED verdict
    PROVE  Lifecycle!Next
<1>1. Row' = MarkLostAmong(Row, S) /\ Own' = Own
  <2>1. /\ status \in [Jobs -> JobStatuses \cup {"none"}] /\ DOMAIN Row = Jobs
        /\ status' = [k \in Jobs |-> IF k \in S /\ status[k] \in InFlight THEN "lost" ELSE status[k]]
    BY DEF TransferInv, TransferTypeOK, MarkLostAmong, Row
  <2>2. \A k \in Jobs : Row'[k] = IF k \in S /\ Row[k] \in InFlight THEN "lost" ELSE Row[k]
    BY <2>1 DEF Row, InFlight
  <2>3. Row' = [k \in Jobs |-> Row'[k]]
    BY DEF Row
  <2> QED
    BY <2>1, <2>2, <2>3 DEF MarkLostAmong, Own
<1>2. Lifecycle!GiveUp(S)
  BY <1>1, SameLedger DEF Lifecycle!GiveUp, Row, Own
<1> QED
  BY <1>2 DEF Lifecycle!Next

\* A pump that comes to an end of its own has run; one that is lost has not.
LEMMA ConcludeRefines ==
    ASSUME TransferInv, NEW j \in Jobs, NEW v \in Outcomes \cup {"lost"},
           pc[j] \notin {"none", "finish", "over"}, Conclude(j, v), UNCHANGED status
    PROVE  [Lifecycle!Next]_<<Row, Own>>
<1>1. /\ verdict \in [Jobs -> Outcomes \cup {"none", "lost"}] /\ verdict[j] = "none"
      /\ status[j] \notin {"none", "rejected"} /\ verdict' = [verdict EXCEPT ![j] = v]
  BY DEF TransferInv, TransferTypeOK, JobFacts, RowFollowsPump, Conclude
<1>2. Row' = Row /\ Row[j] \notin {"none", "rejected"} /\ Own[j] = "none"
  BY <1>1 DEF Row, Own, Outcomes
<1>3. CASE v \in Outcomes
  <2>1. Own' = [Own EXCEPT ![j] = v]
    BY <1>1, <1>3 DEF Own
  <2> QED
    BY <1>2, <1>3, <2>1, LifecycleSteps
<1>4. CASE v = "lost"
  <2>1. Own' = Own
    BY <1>1, <1>4 DEF Own, Outcomes
  <2> QED
    BY <1>2, <2>1
<1> QED
  BY <1>3, <1>4

LEMMA TaskRefines ==
    ASSUME TransferInv, NEW j \in Jobs, Task(j)
    PROVE  [Lifecycle!Next]_<<Row, Own>>
<1>0. /\ JobFacts(j) /\ status \in [Jobs -> JobStatuses \cup {"none"}]
      /\ verdict \in [Jobs -> Outcomes \cup {"none", "lost"}]
  BY DEF TransferInv, TransferTypeOK
<1>1. CASE UNCHANGED <<status, verdict>>
  BY <1>1 DEF Row, Own
<1>2. CASE Dispatch(j)
  <2>1. "dispatched" \in JobStatuses /\ pc[j] = "queued" /\ status[j] # "running"
    BY <1>0, <1>2 DEF JobStatuses, InFlight, JobFacts, RowFollowsPump, Dispatch
  <2>2. /\ status' \in [Jobs -> JobStatuses \cup {"none"}]
        /\ \A k \in Jobs : status'[k] = IF k = j /\ status[j] \in InFlight THEN "dispatched" ELSE status[k]
    BY <1>0, <1>2, <2>1, UpdateChanges DEF Dispatch
  <2>3. Row' = Row /\ Own' = Own
    BY <1>2, <2>1, <2>2 DEF Dispatch, Row, Own, InFlight
  <2> QED
    BY <2>3
<1>3. CASE MarkTransferRunning(j)
  <2>1. "running" \in JobStatuses
    BY DEF JobStatuses, InFlight
  <2>2. /\ status' \in [Jobs -> JobStatuses \cup {"none"}]
        /\ \A k \in Jobs : status'[k] = IF k = j /\ status[j] \in InFlight THEN "running" ELSE status[k]
    BY <1>0, <1>3, <2>1, UpdateChanges DEF MarkTransferRunning, MarkRunning
  <2>3. Own' = Own
    BY <1>3 DEF MarkTransferRunning, Own
  <2>4. CASE status[j] \in InFlight
    <3>1. Row[j] \in InFlight /\ Row' = [Row EXCEPT ![j] = "running"]
      BY <2>2, <2>4 DEF Row, InFlight
    <3> QED
      BY <2>3, <3>1, LifecycleSteps
  <2>5. CASE status[j] \notin InFlight
    <3>1. Row' = Row
      BY <2>2, <2>5 DEF Row
    <3> QED
      BY <2>3, <3>1
  <2> QED
    BY <2>4, <2>5
<1>4. CASE Finish(j)
  <2>1. verdict[j] \in Outcomes \cup {"lost"} /\ verdict[j] \in JobStatuses
    BY <1>0, <1>4 DEF JobFacts, RowFollowsPump, Finish, JobStatuses, Final
  <2>2. /\ status' \in [Jobs -> JobStatuses \cup {"none"}]
        /\ \A k \in Jobs : status'[k] = IF k = j /\ status[j] \in InFlight THEN verdict[j] ELSE status[k]
    BY <1>0, <1>4, <2>1, UpdateChanges DEF Finish, FinishJob
  <2>3. UNCHANGED verdict /\ Own' = Own
    BY <1>4 DEF Finish, Own
  <2>4. CASE status[j] \notin InFlight
    <3>1. Row' = Row
      BY <2>2, <2>4 DEF Row
    <3> QED
      BY <2>3, <3>1
  <2>5. CASE status[j] \in InFlight /\ verdict[j] = "lost"
    <3>1. status' = MarkLostAmong(status, {j})
      BY <1>0, <2>2, <2>5 DEF MarkLostAmong
    <3> QED
      BY <2>3, <3>1, GiveUpRefines
  <2>6. CASE status[j] \in InFlight /\ verdict[j] \in Outcomes
    <3>1. Own[j] = verdict[j] /\ Own[j] # "none"
      BY <2>6 DEF Own, Outcomes
    <3>2. Row[j] \in InFlight /\ Row' = [Row EXCEPT ![j] = Own[j]]
      BY <2>2, <2>6, <3>1 DEF Row, InFlight, Outcomes
    <3> QED
      BY <2>3, <3>1, <3>2, LifecycleSteps
  <2> QED
    BY <2>1, <2>4, <2>5, <2>6
<1>5. ASSUME NEW v \in Outcomes \cup {"lost"},
             pc[j] \notin {"none", "finish", "over"}, Conclude(j, v), UNCHANGED status
      PROVE  [Lifecycle!Next]_<<Row, Own>>
  BY <1>5, ConcludeRefines
<1>6. \/ UNCHANGED <<status, verdict>> \/ Dispatch(j) \/ MarkTransferRunning(j) \/ Finish(j)
      \/ /\ pc[j] \notin {"none", "finish", "over"} /\ UNCHANGED status
         /\ \E v \in {"failed", "lost", "succeeded"} : Conclude(j, v)
  BY DEF Task, Start, SendRead, ReadReply, ReadStored, StoreChunk, SendWrite, WriteReply, RpcFails, Commit,
     WriteMeta, Verify, RecordMeta
<1> QED
  BY <1>1, <1>2, <1>3, <1>4, <1>5, <1>6 DEF Outcomes

LEMMA LifecycleStep == TransferInv /\ [Next]_vars => [Lifecycle!Next]_<<Row, Own>>
<1> SUFFICES ASSUME TransferInv, [Next]_vars
             PROVE  [Lifecycle!Next]_<<Row, Own>>
  OBVIOUS
<1>1. CASE UNCHANGED <<status, verdict>>
  BY <1>1 DEF Row, Own
<1>2. ASSUME NEW j \in Jobs, NEW k, NEW f, Accept(j, k, f)
      PROVE  [Lifecycle!Next]_<<Row, Own>>
  <2>1. /\ status \in [Jobs -> JobStatuses \cup {"none"}] /\ status[j] = "none"
        /\ status' = [status EXCEPT ![j] = "pending"] /\ UNCHANGED verdict
    BY <1>2 DEF TransferInv, TransferTypeOK, JobFacts, RowFollowsPump, Accept, InsertJob
  <2>2. Row[j] = "none" /\ Row' = [Row EXCEPT ![j] = "pending"] /\ Own' = Own
    BY <2>1 DEF Row, Own
  <2> QED
    BY <2>2, LifecycleSteps
<1>3. ASSUME NEW j \in Jobs, Task(j)
      PROVE  [Lifecycle!Next]_<<Row, Own>>
  BY <1>3, TaskRefines
<1>4. ASSUME NEW j \in Jobs, RpcTimesOut(j) \/ OuterTimeout(j)
      PROVE  [Lifecycle!Next]_<<Row, Own>>
  <2>1. \E v \in {"failed", "timeout"} : Conclude(j, v)
    BY <1>4 DEF RpcTimesOut, OuterTimeout
  <2>2. pc[j] \notin {"none", "finish", "over"} /\ UNCHANGED status
    BY <1>4 DEF RpcTimesOut, OuterTimeout
  <2> QED
    BY <2>1, <2>2, ConcludeRefines DEF Outcomes
<1>5. ASSUME NEW e \in Ends, GiveUpJobsOf(e)
      PROVE  [Lifecycle!Next]_<<Row, Own>>
  <2>1. PICK S \in SUBSET Jobs : status' = MarkLostAmong(status, S)
    BY <1>5 DEF GiveUpJobsOf
  <2> QED
    BY <1>5, <2>1, GiveUpRefines DEF GiveUpJobsOf
<1>6. CASE RestartServer
  <2>1. status' = MarkLostAmong(status, Jobs) /\ UNCHANGED verdict
    BY <1>6 DEF RestartServer
  <2> QED
    BY <2>1, GiveUpRefines
<1>7. ASSUME NEW j \in Jobs, Handle(j)
      PROVE  UNCHANGED <<status, verdict>>
  BY <1>7 DEF Handle, HandleRead, HandleHash, HandleWrite
<1>8. ASSUME NEW f, RemoveStored(f) \/ BeginUpload(f) \/ AbortUpload(f) \/ FinishUpload(f)
      PROVE  UNCHANGED <<status, verdict>>
  BY <1>8 DEF RemoveStored, BeginUpload, AbortUpload, FinishUpload
<1>9. ASSUME NEW e \in Ends, EditSource \/ LinkDrop(e) \/ Reconnect(e)
      PROVE  UNCHANGED <<status, verdict>>
  BY <1>9 DEF EditSource, LinkDrop, Reconnect
<1>10. ASSUME NEW j \in Jobs, Submit(j) \/ \E earlier \in Jobs : Rerun(j, earlier)
       PROVE  [Lifecycle!Next]_<<Row, Own>>
  BY <1>2, <1>10 DEF Submit, Rerun
<1>11. CASE EditSource
  BY <1>11 DEF EditSource, Row, Own
<1>12. CASE UNCHANGED vars
  BY <1>12 DEF Row, Own
<1> QED
  BY <1>1, <1>3, <1>4, <1>5, <1>6, <1>7, <1>8, <1>9, <1>10, <1>11, <1>12 DEF Next

\* A reader of the ledger sees file jobs live by the lifecycle of script jobs.
THEOREM TransfersImplementLifecycle == Spec => TransferLifecycle
<1>1. Init => Lifecycle!Init
  BY DEF Init, Lifecycle!Init, Outcomes
<1>2. TransferInv /\ [Next]_vars => [Lifecycle!Next]_(Lifecycle!lifecycleVars)
  BY LifecycleStep DEF Lifecycle!lifecycleVars, Row, Own
<1> QED
  BY <1>1, <1>2, TransferInvariant, PTL DEF Spec, TransferLifecycle, Lifecycle!Spec
=============================================================================
