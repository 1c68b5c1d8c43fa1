----------------------------- MODULE KernelStream -----------------------------
(***************************************************************************)
(* Kernel mode as the web chat sees it (web/server.py _stream_kernel): the *)
(* request runs in an executor thread, its events cross to the event loop  *)
(* through an asyncio.Queue, and the stream turns them into SSE messages   *)
(* until the result arrives or the client goes away.                       *)
(***************************************************************************)
EXTENDS Kernel

VARIABLE stream  \* the generator: what it has sent so far

vars == <<kernelVars, stream>>

StreamTypeOK ==
    stream \in [pc : {"reading", "done", "broken", "gone"},  \* gone: the client left
                streamed : BOOLEAN,                \* a token has been sent
                tool : Registry \cup {NoCapability},       \* shown as being called
                summary : BOOLEAN]                 \* _kernel_summary was sent

Init ==
    /\ KernelInit
    /\ stream = [pc |-> "reading", streamed |-> FALSE, tool |-> NoCapability, summary |-> FALSE]

Reading(type) ==
    /\ stream.pc = "reading"
    /\ queue # <<>> /\ Head(queue).type = type
    /\ queue' = Tail(queue)
    /\ UNCHANGED <<pc, goal, known, step, running, decided, path, orders>>

ShowToken == Reading("token") /\ stream' = [stream EXCEPT !.streamed = TRUE]

ShowTool == Reading("start") /\ stream' = [stream EXCEPT !.tool = Head(queue).name]

ShowToolEnd ==
    /\ Reading("done") \/ Reading("error")
    /\ stream' = [stream EXCEPT !.tool = NoCapability]

(* The summary of the facts is sent only if no token was.                   *)
ShowResult ==
    /\ Reading("result")
    /\ stream' = [stream EXCEPT !.pc = "done", !.summary = ~stream.streamed]

(* Nothing guards the summary: if it raises, the stream breaks off.         *)
SummaryFails ==
    /\ Reading("result") /\ ~stream.streamed
    /\ stream' = [stream EXCEPT !.pc = "broken"]

ShowFailure == Reading("failure") /\ stream' = [stream EXCEPT !.pc = "done"]

(* The client closes the connection: the generator is closed, the thread    *)
(* goes on.                                                                 *)
Disconnect ==
    /\ stream.pc = "reading"
    /\ stream' = [stream EXCEPT !.pc = "gone"]
    /\ UNCHANGED kernelVars

Show == ShowToken \/ ShowTool \/ ShowToolEnd \/ ShowResult \/ SummaryFails \/ ShowFailure

Next ==
    \/ (Work \/ EmitToken \/ SetupFails) /\ UNCHANGED stream
    \/ Show
    \/ Disconnect

Spec == Init /\ [][Next]_vars

(* The thread and the event loop are scheduled, and a capability returns or *)
(* raises in the end.                                                       *)
Fairness == WF_vars(Work /\ UNCHANGED stream) /\ WF_vars(Show)

FairSpec == Spec /\ Fairness

-----------------------------------------------------------------------------
(* Properties.                                                              *)

(* Every request comes to an end: the loops stop within their budget, also  *)
(* when the client has left, and a stream that is still read is closed      *)
(* (controller.py:252-290, core.py:146-161, server.py:1692-1718).           *)
RequestEnds == <>(pc = "returned" /\ stream.pc # "reading")

(* A stream that ends says so after the work and shows no tool as still     *)
(* running, and everything the thread posted has been shown                 *)
(* (server.py:1692-1718).                                                   *)
EndsAfterWork ==
    stream.pc = "done" => pc = "returned" /\ stream.tool = NoCapability /\ queue = <<>>

(* What _kernel_summary promises (server.py:1579-1585): the user sees the   *)
(* full result, the paper trade first.                                      *)
TradeIsReported ==
    (stream.pc = "done" /\ \E i \in Trades : path[i][2]) => stream.summary

=============================================================================
