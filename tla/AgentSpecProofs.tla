-------------------------- MODULE AgentSpecProofs --------------------------
(***************************************************************************)
(* For any agents' parameters, PUTs and pushes: the configuration centre   *)
(* is well typed, and what it shows as "synced" is applied, provided one   *)
(* spec is applied at a time.                                              *)
(*                                                                         *)
(* The inductive invariant follows the acknowledgement: whoever holds one  *)
(* (the agent, a heartbeat, a push, the ledger) holds one that shows what  *)
(* its revision names, because a revision is set only after its spec was   *)
(* applied and nobody else applies one meanwhile.                          *)
(***************************************************************************)
EXTENDS AgentSpec, TLAPS

Body(s) == [params |-> s.params, items |-> s.items]

\* An acknowledgement shows the spec its revision names.
Honest(ack) ==
    ack \in Acks /\ ack.rev # NoSpec => ack.applied = Body(ack.rev)

AcksAreHonest ==
    /\ Honest(stored) /\ Honest(rt.lastAck)
    /\ \A c \in Conns : Honest(carried[c])
    /\ \A q \in Pushes : Honest(reply[q])

OneAtATime == \A t, u \in Tasks : Busy(t) /\ Busy(u) => t = u

\* A push starts its application once, after its own reading.
CallsOnce == \A q \in Pushes : push[q] \in {"none", "read"} => task[q] = "none"

Committing == \E t \in Tasks : task[t] = "commit"

\* What is applied is what the revision names, but for the moment between
\* the last statement of apply_spec and the write of the revision.
AppliedIsNamed ==
    /\ ~ Committing /\ rt.rev # NoSpec => rt.applied = Body(rt.rev)
    /\ \A t \in Tasks :
        /\ task[t] \in {"enforce", "snapshot", "commit"} => arg[t] # NoSpec
        /\ task[t] = "commit" => rt.applied = Body(arg[t])
        /\ task[t] = "remember" /\ RevisionOf(t) # NoSpec => rt.applied = Body(arg[t])

\* What a PUT saves is a spec, and it rotates only to a token it has.
DraftsAreMerged ==
    \A p \in Puts :
        /\ put[p] \in {"read", "saved", "rotating"} => draft[p] \in Specs
        /\ put[p] \in {"saved", "rotating"} => draft[p].token # NoToken

SpecInv ==
    /\ SpecTypeOK /\ AcksAreHonest /\ OneAtATime
    /\ CallsOnce /\ AppliedIsNamed /\ DraftsAreMerged

-----------------------------------------------------------------------------
(* Types                                                                   *)

\* What the agent starts with (RuntimeConfig::new) is well typed.
LEMMA FreshRuntimeType == FreshRuntime \in Runtimes
  BY FileAssumption, MaxReportsAssumption DEF FreshRuntime, Runtimes, Bodies

\* A merged spec has a token of its own or none, never the placeholder.
LEMMA MergedSpecType ==
    ASSUME SpecTypeOK, NEW p \in Puts
    PROVE  [PutInput[p] EXCEPT !.token = MergeToken(p)] \in Specs
  BY PutAssumption DEF MergeToken, Specs, SpecTypeOK

\* A PUT (put_agent_spec, rotate_agent_token) keeps the types.
LEMMA PutStepType ==
    ASSUME SpecInv, NEW p \in Puts, PutStep(p)
    PROVE  SpecTypeOK'
  <1> USE DEF SpecInv, SpecTypeOK, DraftsAreMerged, PutSteps,
          ledgerVars, httpVars, connVars, agentVars, taskVars
  <1>1. CASE PutRead(p)  BY <1>1, MergedSpecType DEF PutRead
  <1>2. CASE PutSave(p)  BY <1>2 DEF PutSave
  <1>3. CASE PutCompare(p)  BY <1>3 DEF PutCompare
  <1>4. CASE PutRotate(p)  BY <1>4 DEF PutRotate, Specs
  <1>5. CASE PutHangsUp(p)  BY <1>5 DEF PutHangsUp
  <1> QED  BY <1>1, <1>2, <1>3, <1>4, <1>5 DEF PutStep

\* An apply request (push_agent_spec) keeps the types.
LEMMA PushStepType ==
    ASSUME SpecInv, NEW q \in Pushes, PushStep(q)
    PROVE  SpecTypeOK'
  <1> USE DEF SpecInv, SpecTypeOK, PushSteps, Tasks, TaskSteps,
          ledgerVars, httpVars, connVars, agentVars, taskVars
  <1>1. CASE PushRead(q)  BY <1>1 DEF PushRead
  <1>2. CASE PushCall(q)  BY <1>2 DEF PushCall
  <1>3. CASE PushAcked(q)  BY <1>3 DEF PushAcked
  <1>4. CASE PushFails(q)  BY <1>4 DEF PushFails
  <1>5. CASE PushRecord(q)  BY <1>5 DEF PushRecord
  <1>6. CASE PushHangsUp(q)  BY <1>6 DEF PushHangsUp
  <1> QED  BY <1>1, <1>2, <1>3, <1>4, <1>5, <1>6 DEF PushStep

\* Authentication, clean-up, a heartbeat's handler and a lost link keep the types.
LEMMA ConnStepType ==
    ASSUME SpecInv, NEW c \in Conns, AuthStep(c) \/ Cleanup(c) \/ BeatStep(c) \/ LinkDrop(c)
    PROVE  SpecTypeOK'
  <1> USE DEF SpecInv, SpecTypeOK, AuthSteps, BeatSteps,
          ledgerVars, httpVars, connVars, agentVars, taskVars
  <1>1. CASE AuthVerify(c)  BY <1>1 DEF AuthVerify
  <1>2. CASE AuthClear(c)  BY <1>2 DEF AuthClear
  <1>3. CASE AuthAccept(c)  BY <1>3 DEF AuthAccept
  <1>4. CASE Cleanup(c)  BY <1>4 DEF Cleanup
  <1>5. CASE BeatCheck(c)  BY <1>5 DEF BeatCheck
  <1>6. CASE BeatStore(c)  BY <1>6 DEF BeatStore
  <1>7. CASE BeatStoreFails(c)  BY <1>7 DEF BeatStoreFails
  <1>8. CASE BeatLost(c)  BY <1>8 DEF BeatLost
  <1>9. CASE LinkDrop(c)  BY <1>9 DEF LinkDrop
  <1> QED  BY <1>1, <1>2, <1>3, <1>4, <1>5, <1>6, <1>7, <1>8, <1>9 DEF AuthStep, BeatStep

\* The agent's connecting and pulling (connect_once, pull_spec) keeps the types.
LEMMA ConnectStepType ==
    ASSUME SpecInv, ConnectStep
    PROVE  SpecTypeOK'
  <1> USE DEF SpecInv, SpecTypeOK, Phases, AuthSteps, Tasks, TaskSteps, Runtimes,
          ledgerVars, httpVars, connVars, agentVars, taskVars
  <1>1. ASSUME NEW c \in Conns, Dial(c)
        PROVE  SpecTypeOK'
    BY <1>1, FileAssumption DEF Dial
  <1>2. CASE Accepted        BY <1>2 DEF Accepted
  <1>3. CASE Refused         BY <1>3, FreshRuntimeType DEF Refused, ProcessEnds
  <1>4. CASE NoticeDeadLink  BY <1>4 DEF NoticeDeadLink
  <1>5. CASE Reauth          BY <1>5 DEF Reauth
  <1>6. CASE PullRead        BY <1>6 DEF PullRead
  <1>7. CASE PullDone        BY <1>7 DEF PullDone
  <1>8. CASE PullFails       BY <1>8 DEF PullFails
  <1> QED  BY <1>1, <1>2, <1>3, <1>4, <1>5, <1>6, <1>7, <1>8 DEF ConnectStep

\* Applying a spec (apply_push, apply_local_file) keeps the types.
LEMMA ApplyStepType ==
    ASSUME SpecInv, NEW t \in Tasks, ApplyStep(t) \/ (t = Reload /\ ReloadFile)
    PROVE  SpecTypeOK'
  <1>0. MaxReports \in 0..MaxReports  BY MaxReportsAssumption
  <1> USE DEF SpecInv, SpecTypeOK, AppliedIsNamed, Tasks, TaskSteps, Runtimes, Bodies,
          Specs, ledgerVars, httpVars, connVars, agentVars, taskVars
  <1>1. CASE ApplyNothing(t)  BY <1>0, <1>1 DEF ApplyNothing
  <1>2. CASE ApplyAgain(t)    BY <1>2 DEF ApplyAgain
  <1>3. CASE ApplyNew(t)      BY <1>3 DEF ApplyNew
  <1>4. CASE Enforce(t)       BY <1>4, ZenonT(60) DEF Enforce
  <1>5. CASE Snapshot(t)      BY <1>5, SMTT(60) DEF Snapshot
  <1>6. CASE Commit(t)        BY <1>0, <1>6, ZenonT(60) DEF Commit, RevisionOf
  <1>7. CASE Remember(t)      BY <1>7 DEF Remember, RevisionOf, Acks
  <1>8. CASE ReloadFile       BY <1>8, FileAssumption DEF ReloadFile
  <1> QED  BY <1>1, <1>2, <1>3, <1>4, <1>5, <1>6, <1>7, <1>8 DEF ApplyStep

\* Heartbeats and restarts keep the types.
LEMMA OtherStepType ==
    ASSUME SpecInv, BeatSend \/ BeatAnswered \/ AgentRestart \/ ServerRestart
    PROVE  SpecTypeOK'
  <1> USE DEF SpecInv, SpecTypeOK, Phases, AuthSteps, BeatSteps, PutSteps, PushSteps,
          Tasks, TaskSteps, Runtimes, ledgerVars, httpVars, connVars, agentVars, taskVars
  <1>1. CASE BeatSend       BY <1>1 DEF BeatSend
  <1>2. CASE BeatAnswered
    <2>1. rt.pending \in 0..MaxReports  OBVIOUS
    <2>2. ReportsLeft(conn) \in 0..MaxReports
      BY <2>1, MaxReportsAssumption DEF ReportsLeft
    <2> QED  BY <1>2, <2>2 DEF BeatAnswered
  <1>3. CASE AgentRestart   BY <1>3, FreshRuntimeType DEF AgentRestart, ProcessEnds
  <1>4. CASE ServerRestart  BY <1>4 DEF ServerRestart
  <1> QED  BY <1>1, <1>2, <1>3, <1>4

-----------------------------------------------------------------------------
(* SpecInv is inductive                                                    *)

\* What the invariant says beyond the types.
Meaning == AcksAreHonest /\ OneAtATime /\ CallsOnce /\ AppliedIsNamed /\ DraftsAreMerged

\* The absent acknowledgement claims nothing.
LEMMA NoAckIsHonest == Honest(NoAck)
  BY AbsentAssumption DEF Honest

\* The configuration centre starts empty, the agent with its file.
LEMMA SpecInitially == Init => SpecInv
  <1> SUFFICES ASSUME Init
               PROVE  SpecInv
    OBVIOUS
  <1>1. SpecTypeOK
    BY FreshRuntimeType, FileAssumption
    DEF Init, SpecTypeOK, PutSteps, PushSteps, AuthSteps, BeatSteps, Phases, TaskSteps
  <1>2. AcksAreHonest
    BY NoAckIsHonest DEF Init, AcksAreHonest, FreshRuntime
  <1>3. OneAtATime /\ CallsOnce /\ DraftsAreMerged
    BY DEF Init, OneAtATime, CallsOnce, DraftsAreMerged, Busy, Tasks
  <1>4. AppliedIsNamed
    BY DEF Init, AppliedIsNamed, FreshRuntime
  <1> QED  BY <1>1, <1>2, <1>3, <1>4 DEF SpecInv

\* A PUT keeps the rest: what it saves is a spec whose token is known.
LEMMA PutStepMeaning ==
    ASSUME SpecInv, NEW p \in Puts, PutStep(p)
    PROVE  Meaning'
  <1> USE DEF ledgerVars, httpVars, connVars, agentVars, taskVars
  <1>1. UNCHANGED <<stored, rt, carried, reply, task, arg, push>>
    BY DEF PutStep, PutRead, PutSave, PutCompare, PutRotate, PutHangsUp
  <1>2. (AcksAreHonest /\ OneAtATime /\ CallsOnce /\ AppliedIsNamed)'
    BY <1>1 DEF SpecInv, AcksAreHonest, Honest, OneAtATime, Busy, CallsOnce,
                AppliedIsNamed, Committing, RevisionOf
  <1>3. DraftsAreMerged'
    <2> USE DEF SpecInv, SpecTypeOK, DraftsAreMerged, PutSteps
    <2>1. CASE PutRead(p)     BY <2>1, MergedSpecType DEF PutRead
    <2>2. CASE PutSave(p)     BY <2>2 DEF PutSave
    <2>3. CASE PutCompare(p)  BY <2>3 DEF PutCompare
    <2>4. CASE PutRotate(p)   BY <2>4 DEF PutRotate
    <2>5. CASE PutHangsUp(p)  BY <2>5 DEF PutHangsUp
    <2> QED  BY <2>1, <2>2, <2>3, <2>4, <2>5 DEF PutStep
  <1> QED  BY <1>2, <1>3 DEF Meaning

\* An apply request keeps the rest: it calls once, and stores the answer.
LEMMA PushStepMeaning ==
    ASSUME SpecInv, NEW q \in Pushes, PushStep(q)
    PROVE  Meaning'
  <1> USE DEF SpecInv, SpecTypeOK, Tasks, ledgerVars, httpVars, connVars, agentVars, taskVars
  <1>1. UNCHANGED <<rt, carried, put, draft>>
    BY DEF PushStep, PushRead, PushCall, PushAcked, PushFails, PushRecord, PushHangsUp
  <1>2. AcksAreHonest'
    <2>1. CASE PushRecord(q)
      BY <2>1, <1>1, NoAckIsHonest DEF PushRecord, AcksAreHonest, Honest
    <2>2. CASE ~ PushRecord(q)
      <3>1. UNCHANGED <<stored, reply>>
        BY <2>2 DEF PushStep, PushRead, PushCall, PushAcked, PushFails, PushHangsUp
      <3> QED  BY <1>1, <3>1 DEF AcksAreHonest, Honest
    <2> QED  BY <2>1, <2>2
  <1>3. \A t \in Tasks :
            task'[t] = task[t] \/ (task[t] = "none" /\ task'[t] = "sent")
    BY DEF PushStep, PushRead, PushCall, PushAcked, PushFails, PushRecord, PushHangsUp,
           CallsOnce
  <1>4. \A t \in Tasks : task'[t] \notin {"none", "sent"} => arg'[t] = arg[t]
    BY DEF PushStep, PushRead, PushCall, PushAcked, PushFails, PushRecord, PushHangsUp,
           CallsOnce
  <1>5. OneAtATime'  BY <1>3 DEF OneAtATime, Busy
  <1>6. CallsOnce'
    BY DEF CallsOnce, PushSteps, PushStep, PushRead, PushCall, PushAcked, PushFails,
           PushRecord, PushHangsUp
  <1>7. AppliedIsNamed'
    BY <1>1, <1>3, <1>4 DEF AppliedIsNamed, Committing, RevisionOf
  <1>8. DraftsAreMerged'  BY <1>1 DEF DraftsAreMerged
  <1> QED  BY <1>2, <1>5, <1>6, <1>7, <1>8 DEF Meaning

\* Authentication, clean-up, heartbeats and lost links keep the rest: they
\* hand acknowledgements on as they are.
LEMMA ConnStepMeaning ==
    ASSUME SpecInv,
           \/ \E c \in Conns : AuthStep(c) \/ Cleanup(c) \/ BeatStep(c) \/ LinkDrop(c)
           \/ BeatSend \/ BeatAnswered
    PROVE  Meaning'
  <1> USE DEF SpecInv, SpecTypeOK, Runtimes, ledgerVars, httpVars, connVars, agentVars, taskVars,
          AuthStep, AuthVerify, AuthClear, AuthAccept, Cleanup, LinkDrop,
          BeatStep, BeatCheck, BeatStore, BeatStoreFails, BeatLost, BeatSend, BeatAnswered
  <1>1. UNCHANGED <<put, draft, push, task, arg, reply>>  OBVIOUS
  <1>2. /\ rt'.rev = rt.rev /\ rt'.applied = rt.applied /\ rt'.lastAck = rt.lastAck
    OBVIOUS
  <1>3. AcksAreHonest'
    <2>1. \A c \in Conns : carried'[c] \in {carried[c], rt.lastAck, NoAck}  OBVIOUS
    <2>2. stored' = stored \/ \E c \in Conns : stored' = carried[c]  OBVIOUS
    <2> QED  BY <1>1, <1>2, <2>1, <2>2, NoAckIsHonest DEF AcksAreHonest, Honest
  <1>4. (OneAtATime /\ CallsOnce /\ DraftsAreMerged)'
    BY <1>1 DEF OneAtATime, Busy, CallsOnce, DraftsAreMerged
  <1>5. AppliedIsNamed'
    BY <1>1, <1>2 DEF AppliedIsNamed, Committing, RevisionOf
  <1> QED  BY <1>3, <1>4, <1>5 DEF Meaning

\* A process that ends takes its tasks and what it applied with it.
LEMMA ProcessEndsMeaning ==
    ASSUME SpecInv, ProcessEnds
    PROVE  Meaning'
  <1> USE DEF SpecInv, SpecTypeOK, ProcessEnds, ledgerVars, httpVars, connVars, agentVars, taskVars
  <1>1. rt' = FreshRuntime /\ \A t \in Tasks : task'[t] = "none"
    OBVIOUS
  <1>2. AcksAreHonest'
    BY <1>1, NoAckIsHonest DEF AcksAreHonest, Honest, FreshRuntime
  <1>3. (OneAtATime /\ CallsOnce /\ DraftsAreMerged)'
    BY <1>1 DEF OneAtATime, CallsOnce, DraftsAreMerged, Busy, Tasks
  <1>4. AppliedIsNamed'
    BY <1>1 DEF AppliedIsNamed, FreshRuntime
  <1> QED  BY <1>2, <1>3, <1>4 DEF Meaning

\* Connecting and pulling (connect_once, pull_spec) keep the rest: a pull
\* reads the spec it will apply before its application starts.
LEMMA ConnectStepMeaning ==
    ASSUME SpecInv, ConnectStep
    PROVE  Meaning'
  <1>1. CASE Refused  BY <1>1, ProcessEndsMeaning DEF Refused
  <1>2. CASE ~ Refused
    <2> USE <1>2 DEF SpecInv, SpecTypeOK, Runtimes, Tasks, ledgerVars, httpVars, connVars, agentVars, taskVars,
            ConnectStep, Dial, Accepted, NoticeDeadLink, Reauth, PullRead, PullDone, PullFails
    <2>1. UNCHANGED <<stored, carried, reply, put, draft, push>>  OBVIOUS
    <2>2. /\ rt'.rev = rt.rev /\ rt'.applied = rt.applied /\ rt'.lastAck = rt.lastAck
      OBVIOUS
    <2>3. \A t \in Tasks : task'[t] = task[t]
                          \/ (~ Busy(t) /\ task'[t] \in {"none", "sent"})
      BY TaskAssumption DEF Busy
    <2>4. \A t \in Tasks : Busy(t) => arg'[t] = arg[t]
      BY TaskAssumption DEF Busy
    <2>5. \A q \in Pushes : task'[q] = task[q] \/ task'[q] = "none"
      BY TaskAssumption
    <2>6. AcksAreHonest'  BY <2>1, <2>2 DEF AcksAreHonest, Honest
    <2>7. OneAtATime'  BY <2>3 DEF OneAtATime, Busy
    <2>8. (CallsOnce /\ DraftsAreMerged)'
      BY <2>1, <2>5 DEF CallsOnce, DraftsAreMerged
    <2>9. AppliedIsNamed'
      BY <2>2, <2>3, <2>4 DEF AppliedIsNamed, Committing, RevisionOf, Busy
    <2> QED  BY <2>6, <2>7, <2>8, <2>9 DEF Meaning
  <1> QED  BY <1>1, <1>2

\* A server restart keeps the rest: nobody waits for an answer any more.
LEMMA ServerRestartMeaning ==
    ASSUME SpecInv, ServerRestart
    PROVE  Meaning'
  <1> USE DEF SpecInv, SpecTypeOK, ServerRestart, ledgerVars, httpVars, connVars, agentVars, taskVars
  <1>1. UNCHANGED <<stored, carried, reply, rt, draft, task, arg>>  OBVIOUS
  <1>2. \A q \in Pushes : push'[q] \in {"none", "read"} => push[q] = "none"
    OBVIOUS
  <1>3. \A p \in Puts : put'[p] \notin {"read", "saved", "rotating"}  OBVIOUS
  <1>4. AcksAreHonest'  BY <1>1 DEF AcksAreHonest, Honest
  <1>5. (OneAtATime /\ CallsOnce /\ DraftsAreMerged)'
    BY <1>1, <1>2, <1>3 DEF OneAtATime, Busy, CallsOnce, DraftsAreMerged
  <1>6. AppliedIsNamed'
    BY <1>1 DEF AppliedIsNamed, Committing, RevisionOf
  <1> QED  BY <1>4, <1>5, <1>6 DEF Meaning

\* Applying a spec (apply_push, apply_local_file) keeps the rest, if nobody
\* applies another one meanwhile: the revision is written after its spec is
\* applied, and the acknowledgement is built after both.
LEMMA ApplyStepMeaning ==
    ASSUME SpecInv, "overlap" \notin Faults,
           NEW t \in Tasks, ApplyStep(t) \/ (t = Reload /\ ReloadFile)
    PROVE  Meaning'
  <1> USE DEF SpecInv, SpecTypeOK, Runtimes, ledgerVars, httpVars, connVars, agentVars, taskVars
  <1>1. UNCHANGED <<stored, carried, put, draft, push>>
    BY DEF ApplyStep, ApplyNothing, ApplyAgain, ApplyNew, Enforce, Snapshot, Commit,
           Remember, ReloadFile
  <1>2. \A u \in Tasks : u # t => task'[u] = task[u] /\ arg'[u] = arg[u]
    BY DEF ApplyStep, ApplyNothing, ApplyAgain, ApplyNew, Enforce, Snapshot, Commit,
           Remember, ReloadFile
  <1>3. \A u \in Tasks : u # t => ~ Busy(u)
    <2>1. CASE Calm /\ \A u \in Tasks : ~ Busy(u)  BY <2>1
    <2>2. CASE Busy(t)  BY <2>2 DEF OneAtATime
    <2> QED
      BY <2>1, <2>2 DEF ApplyStep, ApplyNothing, ApplyAgain, ApplyNew, Enforce, Snapshot,
         Commit, Remember, ReloadFile, Arrives, Calm, Busy
  <1>4. OneAtATime'  BY <1>2, <1>3 DEF OneAtATime, Busy
  <1>5. CallsOnce'
    <2>1. \A q \in Pushes : task[q] = "none" => task'[q] = "none"
      BY TaskAssumption DEF ApplyStep, ApplyNothing, ApplyAgain, ApplyNew, Enforce,
         Snapshot, Commit, Remember, ReloadFile, Arrives, Tasks
    <2> QED  BY <1>1, <2>1 DEF CallsOnce
  <1>6. DraftsAreMerged'  BY <1>1 DEF DraftsAreMerged
  <1>7. AcksAreHonest'
    <2>1. CASE Remember(t)
      <3>1. Honest([rev |-> RevisionOf(t), applied |-> rt.applied])
        BY <2>1 DEF Remember, Honest, AppliedIsNamed, RevisionOf
      <3> QED  BY <2>1, <3>1, <1>1 DEF Remember, AcksAreHonest, Honest
    <2>2. CASE ~ Remember(t)
      <3>1. UNCHANGED reply /\ rt'.lastAck = rt.lastAck
        BY <2>2 DEF ApplyStep, ApplyNothing, ApplyAgain, ApplyNew, Enforce, Snapshot,
           Commit, ReloadFile
      <3> QED  BY <1>1, <3>1 DEF AcksAreHonest, Honest
    <2> QED  BY <2>1, <2>2
  <1>8. AppliedIsNamed'
    <2> USE <1>2, <1>3 DEF AppliedIsNamed, Committing, RevisionOf, Busy, Body
    <2>1. CASE ApplyNothing(t)  BY <2>1 DEF ApplyNothing
    <2>2. CASE ApplyAgain(t)    BY <2>2 DEF ApplyAgain
    <2>3. CASE ApplyNew(t)      BY <2>3 DEF ApplyNew, Arrives
    <2>4. CASE Enforce(t)       BY <2>4 DEF Enforce
    <2>5. CASE Snapshot(t)      BY <2>5 DEF Snapshot
    <2>6. CASE Commit(t)        BY <2>6 DEF Commit
    <2>7. CASE Remember(t)      BY <2>7 DEF Remember
    <2>8. CASE t = Reload /\ ReloadFile
      BY <2>8, AbsentAssumption, FileAssumption DEF ReloadFile, Specs, Bodies
    <2> QED
      BY <2>1, <2>2, <2>3, <2>4, <2>5, <2>6, <2>7, <2>8 DEF ApplyStep
  <1> QED  BY <1>4, <1>5, <1>6, <1>7, <1>8 DEF Meaning

\* Every step keeps SpecInv, if specs are applied one at a time.
LEMMA SpecInductive ==
    ASSUME SpecInv, "overlap" \notin Faults, [Next]_vars
    PROVE  SpecInv'
  <1> SUFFICES SpecTypeOK' /\ Meaning'
    BY DEF SpecInv, Meaning
  <1>1. ASSUME NEW p \in Puts, PutStep(p)
        PROVE  SpecTypeOK' /\ Meaning'
    BY <1>1, PutStepType, PutStepMeaning
  <1>2. ASSUME NEW q \in Pushes, PushStep(q)
        PROVE  SpecTypeOK' /\ Meaning'
    BY <1>2, PushStepType, PushStepMeaning
  <1>3. ASSUME NEW c \in Conns, AuthStep(c) \/ Cleanup(c) \/ BeatStep(c) \/ LinkDrop(c)
        PROVE  SpecTypeOK' /\ Meaning'
    BY <1>3, ConnStepType, ConnStepMeaning
  <1>4. CASE ConnectStep  BY <1>4, ConnectStepType, ConnectStepMeaning
  <1>5. ASSUME NEW t \in Tasks, ApplyStep(t) \/ (t = Reload /\ ReloadFile)
        PROVE  SpecTypeOK' /\ Meaning'
    BY <1>5, ApplyStepType, ApplyStepMeaning
  <1>6. CASE BeatSend \/ BeatAnswered  BY <1>6, OtherStepType, ConnStepMeaning
  <1>7. CASE AgentRestart
    <2>1. ProcessEnds  BY <1>7 DEF AgentRestart
    <2> QED  BY <1>7, <2>1, OtherStepType, ProcessEndsMeaning
  <1>8. CASE ServerRestart  BY <1>8, OtherStepType, ServerRestartMeaning
  <1>9. CASE UNCHANGED vars
    BY <1>9 DEF vars, ledgerVars, httpVars, connVars, agentVars, taskVars, SpecInv,
       SpecTypeOK, Meaning, AcksAreHonest, Honest, OneAtATime, Busy, CallsOnce,
       AppliedIsNamed, Committing, RevisionOf, DraftsAreMerged
  <1>10. Reload \in Tasks  BY DEF Tasks
  <1> QED
    BY <1>1, <1>2, <1>3, <1>4, <1>5, <1>6, <1>7, <1>8, <1>9, <1>10 DEF Next

-----------------------------------------------------------------------------
(* The collectors run what is applied                                      *)

\* A spec on its way shows in what runs before it shows in what is applied.
Switching == \E t \in Tasks : task[t] = "snapshot"

\* The agent that pulled on a connection that lives: its collectors were set
\* after its supervisor was new.
Replayed == (phase = "up" /\ link[conn] = "up") \/ task[Pull] = "acked"

RunInv ==
    /\ phase # "pull" => task[Pull] = "none"
    /\ phase \in {"auth", "pull", "up"} => conn \in Conns
    /\ \A t \in Tasks :
        /\ task[t] = "snapshot" => rt.running = arg[t].items
        /\ task[t] \in {"commit", "remember"} => rt.running = rt.applied.items
    /\ Replayed => rt.running = rt.applied.items \/ Switching

\* Nothing runs and nothing is applied at first.
LEMMA RunInitially == Init => RunInv
  BY TaskAssumption DEF Init, RunInv, Replayed, Tasks

\* A step that leaves the agent's runtime and the busy applications as they
\* are, and connects nobody.
LEMMA RunKept ==
    ASSUME SpecInv, RunInv,
           rt'.running = rt.running, rt'.applied = rt.applied,
           UNCHANGED <<phase, conn>>,
           \A c \in Conns : link'[c] = "up" => link[c] = "up",
           task'[Pull] = task[Pull],
           \A t \in Tasks :
              \/ task'[t] = task[t] /\ (Busy(t) => arg'[t] = arg[t])
              \/ ~ Busy(t) /\ task'[t] \in {"none", "sent", "enforce"}
    PROVE  RunInv'
  <1>1. (phase # "pull" => task[Pull] = "none")'
    BY DEF RunInv
  <1>2. (phase \in {"auth", "pull", "up"} => conn \in Conns)'
    BY DEF RunInv
  <1>3. \A t \in Tasks :
            /\ task'[t] = "snapshot" => rt'.running = arg'[t].items
            /\ task'[t] \in {"commit", "remember"} => rt'.running = rt'.applied.items
    BY DEF RunInv, Busy
  <1>4. Switching => Switching'
    BY DEF Switching, Busy
  <1>5. Replayed' => Replayed
    BY DEF RunInv, Replayed
  <1> QED  BY <1>1, <1>2, <1>3, <1>4, <1>5 DEF RunInv

\* Requests and connections leave the runtime alone.
LEMMA ServerStepRuns ==
    ASSUME SpecInv, RunInv,
           \/ \E p \in Puts : PutStep(p)
           \/ \E q \in Pushes : PushStep(q)
           \/ \E c \in Conns : AuthStep(c) \/ Cleanup(c) \/ BeatStep(c) \/ LinkDrop(c)
           \/ BeatSend \/ BeatAnswered \/ ServerRestart
    PROVE  RunInv'
  <1> USE DEF SpecInv, SpecTypeOK, Runtimes, ledgerVars, httpVars, connVars, agentVars, taskVars
  <1>1. CASE \E p \in Puts : PutStep(p)
    <2>1. UNCHANGED <<rt, phase, conn, link, task, arg>>
      BY <1>1 DEF PutStep, PutRead, PutSave, PutCompare, PutRotate, PutHangsUp
    <2> QED  BY <2>1, RunKept
  <1>2. ASSUME NEW q \in Pushes, PushStep(q)
        PROVE  RunInv'
    <2>1. UNCHANGED <<rt, phase, conn, link>>
      BY <1>2 DEF PushStep, PushRead, PushCall, PushAcked, PushFails, PushRecord, PushHangsUp
    <2>2. \A t \in Tasks :
            \/ task'[t] = task[t] /\ (Busy(t) => arg'[t] = arg[t])
            \/ ~ Busy(t) /\ task'[t] \in {"none", "sent", "enforce"}
      BY <1>2 DEF PushStep, PushRead, PushCall, PushAcked, PushFails, PushRecord,
         PushHangsUp, CallsOnce, Busy, Tasks
    <2>3. task'[Pull] = task[Pull]
      BY <1>2, TaskAssumption
      DEF PushStep, PushRead, PushCall, PushAcked, PushFails, PushRecord, PushHangsUp, Tasks
    <2> QED  BY <2>1, <2>2, <2>3, RunKept
  <1>3. CASE \/ \E c \in Conns : AuthStep(c) \/ Cleanup(c) \/ BeatStep(c) \/ LinkDrop(c)
             \/ BeatSend \/ BeatAnswered
    <2> USE <1>3 DEF AuthStep, AuthVerify, AuthClear, AuthAccept, Cleanup, LinkDrop,
            BeatStep, BeatCheck, BeatStore, BeatStoreFails, BeatLost, BeatSend, BeatAnswered
    <2>1. UNCHANGED <<phase, conn, task, arg>>  OBVIOUS
    <2>2. rt'.running = rt.running /\ rt'.applied = rt.applied  OBVIOUS
    <2>3. \A c \in Conns : link'[c] = "up" => link[c] = "up"  OBVIOUS
    <2> QED  BY <2>1, <2>2, <2>3, RunKept
  <1>4. CASE ServerRestart
    <2>1. UNCHANGED <<rt, phase, conn, task, arg>>
      BY <1>4 DEF ServerRestart
    <2>2. \A c \in Conns : link'[c] = "up" => link[c] = "up"
      BY <1>4 DEF ServerRestart
    <2> QED  BY <2>1, <2>2, RunKept
  <1> QED  BY <1>1, <1>2, <1>3, <1>4

\* An agent whose process ends runs nothing and has no connection.
LEMMA ProcessEndsRuns ==
    ASSUME SpecInv, ProcessEnds, phase' \in {"idle", "exited"}
    PROVE  RunInv'
  <1>1. task'[Pull] = "none" /\ \A t \in Tasks : task'[t] = "none"
    BY DEF ProcessEnds, Tasks
  <1> QED  BY <1>1 DEF RunInv, Replayed

\* A new supervisor starts with no collectors, and the agent counts as
\* connected only when its pull was applied (replay_applied_items).
LEMMA ConnectStepRuns ==
    ASSUME SpecInv, RunInv, "overlap" \notin Faults, ConnectStep
    PROVE  RunInv'
  <1> USE DEF SpecInv, SpecTypeOK, Runtimes, ledgerVars, httpVars, connVars, agentVars, taskVars
  <1>0. Pull \in Tasks /\ Pull \notin Pushes
    BY TaskAssumption DEF Tasks
  <1>1. ASSUME NEW c \in Conns, Dial(c)
        PROVE  RunInv'
    <2>1. task[Pull] = "none" /\ phase' = "auth" /\ conn' \in Conns
      BY <1>1 DEF Dial, RunInv
    <2>2. \A t \in Tasks : ~ Busy(t)
      BY <1>1 DEF Dial, Calm
    <2>3. \A t \in Tasks : task'[t] \in {"none", task[t]}
      BY <1>1 DEF Dial
    <2> QED  BY <1>0, <2>1, <2>2, <2>3 DEF RunInv, Replayed, Busy
  <1>2. CASE Accepted
    <2>1. UNCHANGED <<rt, conn, link, task, arg>> /\ phase = "auth" /\ phase' = "pull"
      BY <1>2 DEF Accepted
    <2> QED  BY <2>1 DEF RunInv, Replayed, Switching
  <1>3. CASE Refused
    BY <1>3, ProcessEndsRuns DEF Refused
  <1>4. CASE NoticeDeadLink \/ Reauth
    <2>1. UNCHANGED <<task, arg>> /\ phase' = "idle" /\ phase # "pull"
      BY <1>4 DEF NoticeDeadLink, Reauth
    <2>2. rt'.running = rt.running /\ rt'.applied = rt.applied
      BY <1>4 DEF NoticeDeadLink, Reauth
    <2> QED  BY <2>1, <2>2 DEF RunInv, Replayed
  <1>5. CASE PullRead
    <2>1. UNCHANGED <<rt, phase, conn, link>> /\ phase = "pull"
      BY <1>5 DEF PullRead
    <2>2. task'[Pull] = "sent" /\ task[Pull] = "none"
      BY <1>0, <1>5 DEF PullRead
    <2>3. \A t \in Tasks : t # Pull => task'[t] = task[t] /\ arg'[t] = arg[t]
      BY <1>5 DEF PullRead
    <2>4. Switching' = Switching
      BY <2>2, <2>3 DEF Switching
    <2> QED  BY <2>1, <2>2, <2>3, <2>4 DEF RunInv, Replayed
  <1>6. CASE PullDone
    <2>1. UNCHANGED <<rt, conn, link, arg>> /\ phase = "pull" /\ phase' = "up"
      BY <1>6 DEF PullDone
    <2>2. task'[Pull] = "none" /\ task[Pull] = "acked"
      BY <1>0, <1>6 DEF PullDone
    <2>3. \A t \in Tasks : t # Pull => task'[t] = task[t]
      BY <1>6 DEF PullDone
    <2>4. Switching' = Switching
      BY <2>2, <2>3 DEF Switching
    <2> QED  BY <2>1, <2>2, <2>3, <2>4 DEF RunInv, Replayed
  <1>7. CASE PullFails
    <2>1. /\ UNCHANGED <<rt, conn, link>> /\ phase = "pull" /\ phase' = "up"
          /\ link[conn] = "down"
      BY <1>7 DEF PullFails
    <2>2. task'[Pull] = "none"
      BY <1>0, <1>7 DEF PullFails
    <2>3. \A t \in Tasks : t # Pull => task'[t] = task[t] /\ arg'[t] = arg[t]
      BY <1>7 DEF PullFails
    <2> QED  BY <2>1, <2>2, <2>3 DEF RunInv, Replayed
  <1> QED
    BY <1>1, <1>2, <1>3, <1>4, <1>5, <1>6, <1>7 DEF ConnectStep

\* Applying a spec sets the collectors first and what is applied second;
\* applying the old one, or none, sets the collectors to what is applied.
LEMMA ApplyStepRuns ==
    ASSUME SpecInv, RunInv, "overlap" \notin Faults,
           NEW t \in Tasks, ApplyStep(t) \/ (t = Reload /\ ReloadFile)
    PROVE  RunInv'
  <1> USE DEF SpecInv, SpecTypeOK, Runtimes, Bodies, ledgerVars, httpVars, connVars,
          agentVars, taskVars
  <1>0. Pull \in Tasks /\ Pull # Reload
    BY TaskAssumption DEF Tasks
  <1>1. UNCHANGED <<phase, conn, link>>
    BY DEF ApplyStep, ApplyNothing, ApplyAgain, ApplyNew, Enforce, Snapshot, Commit,
           Remember, ReloadFile
  <1>2. \A u \in Tasks : u # t => task'[u] = task[u] /\ arg'[u] = arg[u]
    BY DEF ApplyStep, ApplyNothing, ApplyAgain, ApplyNew, Enforce, Snapshot, Commit,
           Remember, ReloadFile
  <1>3. \A u \in Tasks : u # t => ~ Busy(u)
    <2>1. CASE Calm /\ \A u \in Tasks : ~ Busy(u)  BY <2>1
    <2>2. CASE Busy(t)  BY <2>2 DEF OneAtATime
    <2> QED
      BY <2>1, <2>2 DEF ApplyStep, ApplyNothing, ApplyAgain, ApplyNew, Enforce, Snapshot,
         Commit, Remember, ReloadFile, Arrives, Calm, Busy
  <1>4. task[t] # "none" \/ t = Reload
    BY DEF ApplyStep, ApplyNothing, ApplyAgain, ApplyNew, Enforce, Snapshot, Commit,
           Remember, ReloadFile, Arrives
  <1>5. /\ phase' # "pull" => task'[Pull] = "none"
        /\ phase' \in {"auth", "pull", "up"} => conn' \in Conns
    BY <1>0, <1>1, <1>2, <1>4 DEF RunInv
  <1>6. SUFFICES
          /\ task'[t] = "snapshot" => rt'.running = arg'[t].items
          /\ task'[t] \in {"commit", "remember"} => rt'.running = rt'.applied.items
          /\ Replayed' => rt'.running = rt'.applied.items \/ Switching'
    BY <1>2, <1>3, <1>5 DEF RunInv, Busy
  <1>7. CASE ApplyNothing(t) \/ ApplyAgain(t)
    <2>1. task'[t] = "remember"  BY <1>7 DEF ApplyNothing, ApplyAgain
    <2>2. rt'.running = rt.applied.items  BY <1>7 DEF ApplyNothing, ApplyAgain
    <2>3. rt'.applied = rt.applied  BY <1>7 DEF ApplyNothing, ApplyAgain
    <2> QED  BY <2>1, <2>2, <2>3
  <1>8. CASE ApplyNew(t) \/ (t = Reload /\ ReloadFile)
    <2>1. task'[t] = "enforce" /\ task[t] # "snapshot" /\ rt' = rt
      BY <1>8 DEF ApplyNew, ReloadFile, Arrives
    <2>2. Switching => Switching'  BY <1>2, <2>1 DEF Switching
    <2>3. Replayed' => Replayed  BY <1>0, <1>1, <1>2, <2>1 DEF Replayed
    <2> QED  BY <2>1, <2>2, <2>3 DEF RunInv
  <1>9. CASE Enforce(t)
    <2>1. task'[t] = "snapshot" /\ arg'[t] = arg[t] /\ rt'.running = arg[t].items
      BY <1>9 DEF Enforce
    <2> QED  BY <2>1 DEF Switching
  <1>10. CASE Snapshot(t)
    <2>1. task'[t] = "commit"  BY <1>10 DEF Snapshot
    <2>2. rt.running = arg[t].items  BY <1>10 DEF Snapshot, RunInv
    <2>3. rt'.running = rt.running /\ rt'.applied.items = arg[t].items
      BY <1>10 DEF Snapshot
    <2> QED  BY <2>1, <2>2, <2>3
  <1>11. CASE Commit(t) \/ Remember(t)
    <2>1. task'[t] \in {"remember", "acked"}  BY <1>11 DEF Commit, Remember
    <2>2. rt.running = rt.applied.items  BY <1>11 DEF Commit, Remember, RunInv
    <2>3. rt'.running = rt.running /\ rt'.applied = rt.applied
      BY <1>11, ZenonT(60) DEF Commit, Remember
    <2> QED  BY <2>1, <2>2, <2>3
  <1> QED  BY <1>7, <1>8, <1>9, <1>10, <1>11 DEF ApplyStep

\* Every step keeps RunInv, if specs are applied one at a time.
LEMMA RunInductive ==
    ASSUME SpecInv, RunInv, "overlap" \notin Faults, [Next]_vars
    PROVE  RunInv'
  <1>1. CASE ConnectStep  BY <1>1, ConnectStepRuns
  <1>2. ASSUME NEW t \in Tasks, ApplyStep(t) \/ (t = Reload /\ ReloadFile)
        PROVE  RunInv'
    BY <1>2, ApplyStepRuns
  <1>3. CASE AgentRestart
    BY <1>3, ProcessEndsRuns DEF AgentRestart
  <1>4. CASE UNCHANGED vars
    BY <1>4 DEF vars, ledgerVars, httpVars, connVars, agentVars, taskVars, RunInv,
       Replayed, Switching
  <1>5. Reload \in Tasks  BY DEF Tasks
  <1> QED
    BY <1>1, <1>2, <1>3, <1>4, <1>5, ServerStepRuns DEF Next

-----------------------------------------------------------------------------
(* Theorems                                                                *)

\* SpecInv holds in every reachable state, if specs are applied one at a time.
THEOREM SpecInvariant ==
    ASSUME "overlap" \notin Faults
    PROVE  Spec => []SpecInv
  <1>1. SpecInv /\ [Next]_vars => SpecInv'  BY SpecInductive
  <1> QED  BY <1>1, SpecInitially, PTL DEF Spec

\* The configuration centre is well typed: no placeholder is ever saved as a
\* token, and the report counter stays within MAX_REPORT_ATTEMPTS.
THEOREM SpecTypeCorrect ==
    ASSUME "overlap" \notin Faults
    PROVE  Spec => []SpecTypeOK
  <1>1. SpecInv => SpecTypeOK  BY DEF SpecInv
  <1> QED  BY <1>1, SpecInvariant, PTL

\* A stored report that names the desired revision shows the desired spec as
\* applied: sync_status says "synced" only of what is.
THEOREM SyncedIsApplied ==
    ASSUME "overlap" \notin Faults
    PROVE  Spec => []SyncedMeansApplied
  <1>1. SpecInv => SyncedMeansApplied
    BY AbsentAssumption
    DEF SpecInv, SpecTypeOK, AcksAreHonest, Honest, Body, SyncedMeansApplied
  <1> QED  BY <1>1, SpecInvariant, PTL

\* After every reconnect the collectors of what is applied run again
\* (replay_applied_items), in every agent whose connection lives and that is
\* not applying a spec.
THEOREM CollectorsStayApplied ==
    ASSUME "overlap" \notin Faults
    PROVE  Spec => []CollectorsRunApplied
  <1>1. SpecInv /\ RunInv /\ [Next]_vars => RunInv'  BY RunInductive
  <1>2. Spec => []SpecInv  BY SpecInvariant
  <1>3. RunInv => CollectorsRunApplied
    BY DEF RunInv, Replayed, Switching, CollectorsRunApplied, Busy
  <1> QED  BY <1>1, <1>2, <1>3, RunInitially, PTL DEF Spec

=============================================================================
