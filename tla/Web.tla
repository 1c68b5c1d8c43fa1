--------------------------------- MODULE Web ---------------------------------
(***************************************************************************)
(* The web process (web/server.py): uploads in a bounded cache, chats on   *)
(* the event loop with their audit trail, kernel chats and ingestion jobs  *)
(* in the threads of one executor, the engine that the first of them       *)
(* builds, clients that leave and a process that restarts.                 *)
(*                                                                         *)
(* The audit table and its database survive; everything else is memory.    *)
(* KernelStream has the stream of one kernel chat in detail.               *)
(***************************************************************************)
EXTENDS Naturals, SequencesExt

CONSTANTS Chats, Jobs, Files,
          Backend,     \* who answers general questions: "claude" or "devbox"
          Capacity,    \* attachments the upload cache keeps
          Workers,     \* threads of the executor
          MaxLost,     \* bound: audit rows that cannot be written
          MaxRestarts, \* bound
          None

ASSUME WebAssumption ==
    /\ Capacity \in Nat \ {0} /\ Workers \in Nat \ {0}
    /\ MaxLost \in Nat /\ MaxRestarts \in Nat
    /\ Backend \in {"claude", "devbox"}
    /\ Chats \cap Jobs = {}
    /\ None \notin Nat \cup {"ingest", "test", "build", "use", "trade", "finish"}

VARIABLES cache,    \* _UPLOADS, oldest first
          given,    \* ids handed out by this process, in order
          known,    \* ids a browser holds
          chats,    \* the state, route and attachments of a chat
          audit,    \* the events of a chat's session in the audit table
          lost,     \* history: those the table refused
          posted,   \* events of a kernel chat on their way to the event loop
          jobs,     \* _LAB_INGEST_JOBS
          pending,  \* work submitted to the executor
          thread,   \* how far a piece of work is, None if no thread has it
          engine,   \* _ENGINE: the number of the engine built, None before
          built,    \* engines built by this process
          mine,     \* the engine that a piece of work got
          trades,   \* trades booked in this process: by which chat, in which engine
          raced,    \* history: a test met a build under way
          restarts

uploadVars == <<cache, given, known>>
chatVars == <<chats, audit, lost, posted>>
poolVars == <<jobs, pending, thread>>
engineVars == <<engine, built, mine, trades, raced>>
vars == <<uploadVars, chatVars, poolVars, engineVars, restarts>>

-----------------------------------------------------------------------------
Work == Chats \cup Jobs

Ended == {"done", "failed", "gone", "cut"}

(* The routes whose agent is given the attachments; the others drop them.   *)
Agentic == IF Backend = "devbox" THEN {"domain"} ELSE {"domain", "general"}

(* What a session of a mode may do.                                         *)
Policy(mode) == [readonly |-> mode = "ask", canTrade |-> mode = "live"]

(* Tools of the agents; "look" stands for those that only read.             *)
ToolFuncs == {"look", "run_trading_strategy", "size_position", "paper_execute", "settle_markets"}

WriteTools == {"run_trading_strategy", "size_position", "paper_execute", "settle_markets"}

BuildTools(readonly) == IF readonly THEN ToolFuncs \ WriteTools ELSE ToolFuncs

(* build_agent and build_general_agent, for an Ask session.                 *)
ToolsOf(route) ==
    IF route = "general" THEN {"web_search"} ELSE BuildTools(Policy("ask").readonly)

NewChat == [pc |-> "new", route |-> None, attached |-> {}, got |-> {}]

Init ==
    /\ cache = <<>> /\ given = <<>> /\ known = {}
    /\ chats = [c \in Chats |-> NewChat]
    /\ audit = [c \in Chats |-> <<>>] /\ lost = {}
    /\ posted = [c \in Chats |-> <<>>]
    /\ jobs = [j \in Jobs |-> "none"]
    /\ pending = <<>> /\ thread = [w \in Work |-> None]
    /\ engine = None /\ built = 0 /\ mine = [w \in Work |-> None] /\ trades = {}
    /\ raced = FALSE
    /\ restarts = 0

-----------------------------------------------------------------------------
(* Uploads.                                                                 *)

(* For comparison: popitem() from the wrong end.                            *)
PutDroppingNewest(f) == LET d == Append(cache, f) IN IF Len(d) > Capacity THEN Front(d) ELSE d

(* UploadCache.put: the oldest goes when there are too many.                *)
Put(f) == LET d == Append(cache, f) IN IF Len(d) > Capacity THEN Tail(d) ELSE d

(* A file that extract() accepts; what it rejects changes nothing.          *)
Upload(f) ==
    /\ f \notin known
    /\ cache' = Put(f)
    /\ given' = Append(given, f)
    /\ known' = known \cup {f}
    /\ UNCHANGED <<chatVars, poolVars, engineVars, restarts>>

-----------------------------------------------------------------------------
(* A chat on the event loop.                                                *)

(* AgentSession.log: what the audit table refuses is passed over in silence.*)
Log(c, event) ==
    \/ audit' = [audit EXCEPT ![c] = Append(@, event)] /\ UNCHANGED lost
    \/ /\ lost' = lost \cup {<<c, event>>} /\ Cardinality(lost') <= MaxLost
       /\ UNCHANGED audit

(* What was attached is in the message by then, or is dropped.              *)
Goes(c, pc) == chats' = [chats EXCEPT ![c].pc = pc, ![c].attached = {}, ![c].got = {}]

Submit(w) == pending' = Append(pending, w)

(* The route of a question that touches some topics, in a mode the user may *)
(* have chosen; where neither decides, a model does.                        *)
Classify(mode, topics) ==
    CASE mode # "auto" -> {mode}
      [] mode = "auto" /\ "domain" \in topics -> {"domain"}
      [] mode = "auto" /\ topics = {"general"} -> {"general"}
      [] mode = "auto" /\ topics = {} -> {"domain", "general"}

Routes ==
    UNION {Classify(mode, topics) : mode \in {"auto", "domain", "general", "kernel"},
                                    topics \in SUBSET {"domain", "general"}}

(* The session starts and the question is routed, which is logged and is    *)
(* the first event of the stream.  A kernel chat submits its work.          *)
Chat(c) ==
    /\ chats[c].pc = "new"
    /\ \E route \in Routes : \E attached \in IF route \in Agentic THEN SUBSET known ELSE {{}} :
          /\ chats' = [chats EXCEPT ![c] = [pc |-> IF route = "kernel" THEN "kernel" ELSE "routed",
                                            route |-> route, attached |-> attached, got |-> {}]]
          /\ IF route = "kernel" THEN Submit(c) ELSE UNCHANGED pending
    /\ Log(c, "start")
    /\ UNCHANGED <<uploadVars, posted, jobs, thread, engineVars, restarts>>

(* An external agent is asked the bare question.                            *)
Devbox(c) ==
    /\ chats[c].pc = "routed" /\ chats[c].route = "general" /\ Backend = "devbox"
    /\ Log(c, "backend")
    /\ Goes(c, "asked")
    /\ UNCHANGED <<uploadVars, posted, poolVars, engineVars, restarts>>

(* The agent is built and the message assembled from the attachments that   *)
(* the cache still has.                                                     *)
Assemble(c) ==
    /\ chats[c].pc = "routed" /\ chats[c].route \in Agentic
    /\ chats' = [chats EXCEPT ![c].pc = "agent", ![c].got = chats[c].attached \cap ToSet(cache)]
    /\ UNCHANGED <<uploadVars, audit, lost, posted, poolVars, engineVars, restarts>>

InitFails(c) ==
    /\ chats[c].pc = "routed" /\ chats[c].route \in Agentic
    /\ Log(c, "error")
    /\ Goes(c, "failed")
    /\ UNCHANGED <<uploadVars, posted, poolVars, engineVars, restarts>>

(* The agent calls one of its tools.                                        *)
CallTool(c) ==
    /\ chats[c].pc = "agent"
    /\ \E tool \in ToolsOf(chats[c].route) :
          trades' = IF tool = "paper_execute" THEN trades \cup {[by |-> c, in |-> engine]}
                    ELSE trades
    /\ Log(c, "tool")
    /\ Goes(c, "asked")
    /\ UNCHANGED <<uploadVars, posted, poolVars, engine, built, mine, raced, restarts>>

(* The stream of an agent, ours or the external one, ends or raises.        *)
Answer(c) ==
    /\ chats[c].pc \in {"agent", "asked"}
    /\ \/ Log(c, "end") /\ Goes(c, "done")
       \/ Log(c, "error") /\ Goes(c, "failed")
    /\ UNCHANGED <<uploadVars, posted, poolVars, engineVars, restarts>>

(* For comparison: a capability that is relayed without being logged.       *)
RelayUnlogged(c) ==
    /\ chats[c].pc = "kernel" /\ posted[c] # <<>>
    /\ posted' = [posted EXCEPT ![c] = Tail(@)]
    /\ IF Head(posted[c]) = "result"
       THEN Log(c, "end") /\ Goes(c, "done") ELSE UNCHANGED <<chats, audit, lost>>
    /\ UNCHANGED <<uploadVars, poolVars, engineVars, restarts>>

(* The stream of a kernel chat: a capability is logged, a result or an      *)
(* error ends the session.                                                  *)
Relay(c) ==
    /\ chats[c].pc = "kernel" /\ posted[c] # <<>>
    /\ posted' = [posted EXCEPT ![c] = Tail(@)]
    /\ IF Head(posted[c]) = "result"
       THEN Log(c, "end") /\ Goes(c, "done")
       ELSE Log(c, Head(posted[c])) /\ UNCHANGED chats
    /\ UNCHANGED <<uploadVars, poolVars, engineVars, restarts>>

(* The browser goes, or the summary of a kernel chat raises: the generator  *)
(* is closed, the work in a thread is not.                                  *)
Leave(c) ==
    /\ chats[c].pc \in {"routed", "agent", "asked", "kernel"}
    /\ Goes(c, "gone")
    /\ posted' = [posted EXCEPT ![c] = <<>>]
    /\ UNCHANGED <<uploadVars, audit, lost, poolVars, engineVars, restarts>>

-----------------------------------------------------------------------------
(* The executor.                                                            *)

CreateJob(j) ==
    /\ jobs[j] = "none"
    /\ jobs' = [jobs EXCEPT ![j] = "queued"]
    /\ Submit(j)
    /\ UNCHANGED <<uploadVars, chatVars, thread, engineVars, restarts>>

Busy == {w \in Work : thread[w] # None}

Dispatch ==
    /\ pending # <<>> /\ Cardinality(Busy) < Workers
    /\ pending' = Tail(pending)
    /\ LET w == Head(pending)
       IN /\ thread' = [thread EXCEPT ![w] = IF w \in Jobs THEN "ingest" ELSE "test"]
          /\ jobs' = IF w \in Jobs THEN [jobs EXCEPT ![w] = "running"] ELSE jobs
    /\ UNCHANGED <<uploadVars, chatVars, engineVars, restarts>>

(* For comparison: an ingestion whose exceptions nobody catches.            *)
RunJobUncaught(j) ==
    /\ thread[j] = "ingest"
    /\ \/ jobs' = [jobs EXCEPT ![j] = "completed"]
       \/ UNCHANGED jobs
    /\ thread' = [thread EXCEPT ![j] = None]
    /\ UNCHANGED <<uploadVars, chatVars, pending, engineVars, restarts>>

RunJob(j) ==
    /\ thread[j] = "ingest"
    /\ \E outcome \in {"completed", "failed"} : jobs' = [jobs EXCEPT ![j] = outcome]
    /\ thread' = [thread EXCEPT ![j] = None]
    /\ UNCHANGED <<uploadVars, chatVars, pending, engineVars, restarts>>

At(c, pc) == thread' = [thread EXCEPT ![c] = pc]

Building == {c \in Chats : thread[c] = "build"}

(* For comparison: engine() without its test.                               *)
EngineUntested(c) ==
    /\ thread[c] = "test"
    /\ At(c, "build")
    /\ raced' = (raced \/ Building # {})
    /\ UNCHANGED <<uploadVars, chatVars, jobs, pending, engine, built, mine, trades, restarts>>

(* engine(): tested and built without a lock.                               *)
EngineTest(c) ==
    /\ thread[c] = "test"
    /\ At(c, IF engine = None THEN "build" ELSE "use")
    /\ raced' = (raced \/ Building # {})
    /\ UNCHANGED <<uploadVars, chatVars, jobs, pending, engine, built, mine, trades, restarts>>

EngineBuild(c) ==
    /\ thread[c] = "build"
    /\ built' = built + 1 /\ engine' = built + 1
    /\ At(c, "use")
    /\ UNCHANGED <<uploadVars, chatVars, jobs, pending, mine, trades, raced, restarts>>

(* Events for a client that has gone stay in a queue nobody reads.          *)
Post(c, event) ==
    posted' = IF chats[c].pc = "gone" THEN posted ELSE [posted EXCEPT ![c] = Append(@, event)]

(* engine() returns what the global holds by now.  The kernel announces     *)
(* paper_trade and makes it, or does neither.                               *)
Announce(c) ==
    /\ thread[c] = "use"
    /\ \/ At(c, "trade") /\ Post(c, "trade") /\ mine' = [mine EXCEPT ![c] = engine]
       \/ At(c, "finish") /\ UNCHANGED <<posted, mine>>
    /\ UNCHANGED <<uploadVars, chats, audit, lost, jobs, pending, engine, built, trades, raced, restarts>>

Trade(c) ==
    /\ thread[c] = "trade"
    /\ trades' = trades \cup {[by |-> c, in |-> mine[c]]}
    /\ mine' = [mine EXCEPT ![c] = None]
    /\ At(c, "finish")
    /\ UNCHANGED <<uploadVars, chatVars, jobs, pending, engine, built, raced, restarts>>

TradeRefused(c) ==
    /\ thread[c] = "trade"
    /\ mine' = [mine EXCEPT ![c] = None]
    /\ At(c, "finish")
    /\ UNCHANGED <<uploadVars, chatVars, jobs, pending, engine, built, trades, raced, restarts>>

(* The result or the error, either of which ends the stream.                *)
Finish(c) ==
    /\ thread[c] = "finish"
    /\ At(c, None) /\ Post(c, "result")
    /\ UNCHANGED <<uploadVars, chats, audit, lost, jobs, pending, engineVars, restarts>>

Thread(w) ==
    \/ w \in Jobs /\ RunJob(w)
    \/ w \in Chats /\ (EngineTest(w) \/ EngineBuild(w) \/ Announce(w)
                       \/ Trade(w) \/ TradeRefused(w) \/ Finish(w))

-----------------------------------------------------------------------------
(* The process dies and starts again.                                       *)

Cut(chat) == [chat EXCEPT !.pc = "cut", !.attached = {}, !.got = {}]

Restart ==
    /\ restarts < MaxRestarts
    /\ restarts' = restarts + 1
    /\ cache' = <<>> /\ given' = <<>>
    /\ chats' = [c \in Chats |-> IF chats[c].pc \in Ended \cup {"new"} THEN chats[c]
                                 ELSE Cut(chats[c])]
    /\ posted' = [c \in Chats |-> <<>>]
    /\ jobs' = [j \in Jobs |-> IF jobs[j] = "none" THEN "none" ELSE "forgotten"]
    /\ pending' = <<>> /\ thread' = [w \in Work |-> None]
    /\ engine' = None /\ built' = 0 /\ mine' = [w \in Work |-> None] /\ trades' = {}
    /\ raced' = FALSE
    /\ UNCHANGED <<known, audit, lost>>

Handle(c) == Devbox(c) \/ Assemble(c) \/ InitFails(c) \/ CallTool(c) \/ Answer(c) \/ Relay(c)

Next ==
    \/ \E f \in Files : Upload(f)
    \/ \E c \in Chats : Chat(c) \/ Handle(c) \/ Leave(c)
    \/ \E j \in Jobs : CreateJob(j)
    \/ Dispatch
    \/ \E w \in Work : Thread(w)
    \/ Restart

(* The event loop serves every coroutine, the executor every piece of work, *)
(* and each of them comes to an end.                                        *)
Spec ==
    /\ Init /\ [][Next]_vars
    /\ \A c \in Chats : WF_vars(Handle(c))
    /\ WF_vars(Dispatch)
    /\ \A w \in Work : WF_vars(Thread(w))

-----------------------------------------------------------------------------
TypeOK ==
    /\ ToSet(cache) \cup ToSet(given) \subseteq known /\ known \subseteq Files
    /\ \A c \in Chats : chats[c].pc \in {"new", "routed", "agent", "asked", "kernel"} \cup Ended
    /\ \A j \in Jobs : jobs[j] \in {"none", "queued", "running", "completed", "failed", "forgotten"}
    /\ Cardinality(Busy) <= Workers
    /\ built \in Nat /\ restarts \in 0..MaxRestarts

(* A file that this process accepted reaches the agent of the chat that     *)
(* names it unless at least Capacity files came after it (uploads.py:96-104,*)
(* server.py:1774), however the uploads of others interleave.               *)
AttachmentsArrive ==
    [][\A c \in Chats :
          chats[c].pc = "routed" /\ chats'[c].pc = "agent" =>
             \A k \in DOMAIN given :
                given[k] \in chats[c].attached /\ k > Len(given) - Capacity =>
                    given[k] \in chats'[c].got]_vars

(* The table was given it.                                                  *)
Told(c, event) == event \in ToSet(audit[c]) \/ <<c, event>> \in lost

(* The table is given all that a session does, in order: a trail starts     *)
(* with its start and ends with its end, and what a session that ended      *)
(* lacks of its start, its end and the trades of its chat is what the table *)
(* refused (session.py:101-108, server.py:1688-1718).  A chat nobody asked  *)
(* to trade has made none.                                                  *)
TrailIsComplete ==
    \A c \in Chats :
       /\ \A k \in DOMAIN audit[c] :
             /\ audit[c][k] = "start" => k = 1
             /\ audit[c][k] \in {"end", "error"} => k = Len(audit[c])
       /\ chats[c].pc \in {"done", "failed"} =>
             Told(c, "start") /\ (Told(c, "end") \/ Told(c, "error"))
       /\ (\E t \in trades : t.by = c) =>
             chats[c].route = "kernel" /\ (chats[c].pc = "done" => Told(c, "trade"))

(* "Every session start/end, tool call and promotion lands here"            *)
(* (audit_store.py:3), as the docstring has it: a trade is in the trail of  *)
(* its chat by the time the chat is over.  The stream logs a capability as  *)
(* it relays it (server.py:1700-1701), so a client that leaves takes the    *)
(* record of the trade along, not the trade.                                *)
TradesAreAudited ==
    \A t \in trades : chats[t.by].pc \in Ended => "trade" \in ToSet(audit[t.by])

(* The portfolio that status, settlement and the next order look at has     *)
(* every trade this process booked, unless two first requests ran into each *)
(* other and built an engine each (mcp_server.py:39-49).                    *)
TradesStay == ~raced => \A t \in trades : t.in = engine

(* Every chat whose client stays is answered and every job ends, unless the *)
(* process does; neither waits for ever for a thread (server.py:310-341,    *)
(* 1688-1718).                                                              *)
EverythingEnds ==
    <>[](/\ \A c \in Chats : chats[c].pc \in Ended \cup {"new"}
         /\ \A j \in Jobs : jobs[j] \notin {"queued", "running"})

=============================================================================
