----------------------------- MODULE OtlpReceiver -----------------------------
(***************************************************************************)
(* The OTLP receiver of gse-agent (collect/otlp.rs): a thread answers the  *)
(* requests of a port one after another and passes the spans through a     *)
(* channel to the task of the collect item, which pushes them to the       *)
(* buffer.  When the item is stopped its task goes at once, the thread at  *)
(* its next look, and the port when the thread is gone.                    *)
(***************************************************************************)
EXTENDS OtlpInput

CONSTANTS
    Requests,   \* the requests that applications send, as a sequence
    Config,     \* what the receiver was started with
    MaxItems    \* bound on the times the item is started

Posts == DOMAIN Requests

ASSUME OtlpAssumption == MaxItems \in Nat /\ Posts \subseteq Nat /\ Vacant \notin Nat

-----------------------------------------------------------------------------
(* The receiver.                                                           *)

VARIABLES
    inbox,    \* the requests the port has taken, in order
    thread,   \* what the thread of the receiver does: [item, step, post]
    running,  \* the item whose task runs, or 0
    last,     \* the last item that was started
    channel,  \* the batches between the thread and the task
    hand,     \* the batch the task has taken, or Vacant
    kept,     \* batches pushed to the buffer
    answer,   \* the answer each application has got
    lost      \* batches that went with the task

otlpVars == <<inbox, thread, running, last, channel, hand, kept, answer, lost>>

Gone == [item |-> 0, step |-> "gone", post |-> Vacant]

OtlpInit ==
    /\ inbox = <<>> /\ thread = [item |-> 1, step |-> "wait", post |-> Vacant]
    /\ running = 1 /\ last = 1 /\ channel = <<>> /\ hand = Vacant /\ kept = {} /\ lost = {}
    /\ answer = [p \in Posts |-> Vacant]

Arrive(p) ==
    /\ thread.step # "gone" /\ answer[p] = Vacant /\ \A i \in DOMAIN inbox : inbox[i] # p
    /\ thread.post # p /\ inbox' = Append(inbox, p)
    /\ UNCHANGED <<thread, running, last, channel, hand, kept, answer, lost>>

\* The thread looks at the stop flag when it gets a request or is woken; the
\* requests that wait are not answered.
ThreadEnds ==
    /\ thread.step = "wait" /\ running # thread.item
    /\ thread' = Gone /\ inbox' = <<>>
    /\ UNCHANGED <<running, last, channel, hand, kept, answer, lost>>

ThreadTakes ==
    /\ thread.step = "wait" /\ running = thread.item /\ inbox # <<>>
    /\ thread' = [thread EXCEPT !.step = "judge", !.post = Head(inbox)]
    /\ inbox' = Tail(inbox)
    /\ UNCHANGED <<running, last, channel, hand, kept, answer, lost>>

\* Mutant of AfterFailedSend: the request is answered all the same.
AfterFailedSend_Answers == [thread EXCEPT !.step = "answer"]

\* What the thread does when the channel is closed.
AfterFailedSend == Gone

\* Whether a request leaves a batch.
Leaves(p) == Answer(Config, Requests[p]) = 200 /\ Recorded(Config, Requests[p].contents) # {}

\* The spans of a good request enter the channel before it is answered.
ThreadJudges ==
    /\ thread.step = "judge"
    /\ IF ~Leaves(thread.post)
       THEN thread' = [thread EXCEPT !.step = "answer"] /\ UNCHANGED <<channel, inbox>>
       ELSE IF running = thread.item
       THEN /\ channel' = Append(channel, thread.post)
            /\ thread' = [thread EXCEPT !.step = "answer"] /\ UNCHANGED inbox
       ELSE thread' = AfterFailedSend /\ inbox' = <<>> /\ UNCHANGED channel
    /\ UNCHANGED <<running, last, hand, kept, answer, lost>>

ThreadAnswers ==
    /\ thread.step = "answer"
    /\ answer' = [answer EXCEPT ![thread.post] = Answer(Config, Requests[thread.post])]
    /\ thread' = [thread EXCEPT !.step = "wait", !.post = Vacant]
    /\ UNCHANGED <<inbox, running, last, channel, hand, kept, lost>>

TaskTakes ==
    /\ running # 0 /\ hand = Vacant /\ channel # <<>>
    /\ hand' = Head(channel) /\ channel' = Tail(channel)
    /\ UNCHANGED <<inbox, thread, running, last, kept, answer, lost>>

TaskPushes ==
    /\ hand # Vacant /\ kept' = kept \cup {hand} /\ hand' = Vacant
    /\ UNCHANGED <<inbox, thread, running, last, channel, answer, lost>>

\* The item is stopped: its task is aborted where it waits.
StopItem ==
    /\ running # 0 /\ running' = 0
    /\ lost' = lost \cup {channel[i] : i \in DOMAIN channel} \cup ({hand} \ {Vacant})
    /\ channel' = <<>> /\ hand' = Vacant
    /\ UNCHANGED <<inbox, thread, last, kept, answer>>

\* The item is started again; while the old thread has the port the new
\* receiver cannot bind it, and the task ends.
StartItem ==
    /\ running = 0 /\ last < MaxItems /\ last' = last + 1
    /\ IF thread.step = "gone"
       THEN running' = last' /\ thread' = [item |-> last', step |-> "wait", post |-> Vacant]
       ELSE UNCHANGED <<running, thread>>
    /\ UNCHANGED <<inbox, channel, hand, kept, answer, lost>>

OtlpNext ==
    \/ \E p \in Posts : Arrive(p)
    \/ ThreadEnds \/ ThreadTakes \/ ThreadJudges \/ ThreadAnswers
    \/ TaskTakes \/ TaskPushes \/ StopItem \/ StartItem

OtlpSpec == OtlpInit /\ [][OtlpNext]_otlpVars

\* A request that was answered with 200 is on its way to the buffer or there,
\* or went with a task that was stopped after it entered the channel; a request
\* that was refused leaves nothing.
AnsweredIsKept ==
    LET held == {channel[i] : i \in DOMAIN channel} \cup {hand} \cup kept \cup lost
    IN \A p \in Posts : /\ answer[p] = 200 /\ Recorded(Config, Requests[p].contents) # {} => p \in held
                        /\ p \in held => Authorized(Config, Requests[p]) /\ FromAllowed(Config, Requests[p])
=============================================================================
