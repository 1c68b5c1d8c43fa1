------------------------------- MODULE WebProofs -------------------------------
(***************************************************************************)
(* What the web process keeps straight, for any number of chats, jobs,     *)
(* files and threads.  A kernel chat is in one place at a time -- waiting, *)
(* in a thread, or over -- and the events it has posted are a prefix of    *)
(* what its work announces: that is why its trail can be closed only after *)
(* every trade has been told.                                              *)
(***************************************************************************)
EXTENDS Web, FiniteSetTheorems, TLAPS

(* How far a piece of work can be.                                          *)
Steps == {"ingest", "test", "build", "use", "trade", "finish"}

Queued(c) == \E i \in DOMAIN pending : pending[i] = c

Traded(c) == \E t \in trades : t.by = c

(* What the work of a kernel chat may have posted and nobody has relayed.   *)
Queues == {<<>>, <<"trade">>, <<"result">>, <<"trade", "result">>}

Closers == {"end", "error"}

Events == {"start", "backend", "tool", "trade"} \cup Closers

States == {"new", "routed", "agent", "asked", "kernel"} \cup Ended

Shape ==
    /\ chats \in [Chats -> [pc : States, route : Routes \cup {None},
                            attached : SUBSET Files, got : SUBSET Files]]
    /\ known \subseteq Files
    /\ audit \in [Chats -> Seq(Events)]
    /\ posted \in [Chats -> Queues]
    /\ pending \in Seq(Work)
    /\ thread \in [Work -> Steps \cup {None}]
    /\ mine = [w \in Work |-> mine[w]]
    /\ built \in Nat

(* A chat is submitted at most once.                                        *)
Unique ==
    \A i, k \in DOMAIN pending :
        pending[i] = pending[k] /\ pending[i] \in Chats => i = k

(* Where the work of a chat can be, and what it has said by then.           *)
WorkOK(c) ==
    /\ chats[c].pc = "kernel" => chats[c].route = "kernel"
    /\ chats[c].pc \in {"routed", "agent", "asked", "failed"} => chats[c].route # "kernel"
    /\ Queued(c) \/ thread[c] # None => chats[c].pc \in {"kernel", "gone"}
    /\ Queued(c) \/ thread[c] # None \/ Traded(c) =>
          chats[c].pc # "new" /\ chats[c].route = "kernel"
    /\ Queued(c) => thread[c] = None
    /\ thread[c] # "ingest"
    /\ posted[c] # <<>> =>
          /\ chats[c].pc = "kernel"
          /\ ~Queued(c) /\ thread[c] \notin {"test", "build", "use"}
    /\ thread[c] \in {"trade", "finish"} => posted[c] \in {<<>>, <<"trade">>}
    /\ thread[c] = "trade" \/ Traded(c) =>
          /\ chats[c].pc = "kernel" => Told(c, "trade") \/ "trade" \in ToSet(posted[c])
          /\ chats[c].pc = "done" => Told(c, "trade")

(* Rows in their order; a trail that is still open, and one that has been   *)
(* closed.                                                                  *)
Ordered(s) ==
    \A k \in DOMAIN s : /\ s[k] = "start" => k = 1
                        /\ s[k] \in Closers => k = Len(s)

Open(s) == Ordered(s) /\ \A k \in DOMAIN s : s[k] \notin Closers

Ends(c) == Told(c, "end") \/ Told(c, "error")

TrailOK(c) ==
    /\ Ordered(audit[c])
    /\ chats[c].pc = "new" => audit[c] = <<>>
    /\ chats[c].pc # "new" => Told(c, "start")
    /\ chats[c].pc \in {"routed", "agent", "asked", "kernel"} => Open(audit[c])
    /\ chats[c].pc \in {"done", "failed"} => Ends(c)

ChatOK(c) == WorkOK(c) /\ TrailOK(c)

CInv == Shape /\ Unique /\ \A c \in Chats : ChatOK(c)

-----------------------------------------------------------------------------
(* Trails.                                                                  *)

LEMMA OpenGrows ==
    ASSUME NEW s \in Seq(Events), Open(s), NEW e \in Events, e = "start" => s = <<>>
    PROVE  /\ Append(s, e) \in Seq(Events)
           /\ ToSet(Append(s, e)) = ToSet(s) \cup {e}
           /\ Ordered(Append(s, e))
           /\ e \notin Closers => Open(Append(s, e))
<1> DEFINE n == Len(s)  t == Append(s, e)
<1>1. /\ t \in Seq(Events) /\ Len(t) = n + 1 /\ n \in Nat
      /\ \A k \in 1..n : t[k] = s[k]
      /\ t[n + 1] = e
      /\ s = <<>> => n = 0
  OBVIOUS
<1>2. DOMAIN t = 1..(n + 1) /\ DOMAIN s = 1..n
  OBVIOUS
<1> HIDE DEF n, t
<1>3. \A k \in 1..(n + 1) : k \in 1..n \/ k = n + 1
  BY <1>1
<1>4. Ordered(t) /\ (e \notin Closers => Open(t))
  <2>1. ASSUME NEW k \in 1..(n + 1)
        PROVE  /\ t[k] = "start" => k = 1
               /\ t[k] \in Closers => k = n + 1
               /\ e \notin Closers => t[k] \notin Closers
    <3>1. CASE k \in 1..n
      BY <1>1, <1>2, <3>1 DEF Open, Ordered
    <3>2. CASE k = n + 1
      BY <1>1, <3>2
    <3> QED
      BY <1>3, <3>1, <3>2
  <2> QED
    BY <1>1, <1>2, <2>1 DEF Open, Ordered
<1>5. ToSet(t) = ToSet(s) \cup {e}
  BY <1>1, <1>2, <1>3 DEF ToSet
<1> QED
  BY <1>1, <1>4, <1>5 DEF t

(* A chat tells the table an event, in order, whether or not it is written. *)
LEMMA LogTells ==
    ASSUME CInv, NEW c \in Chats, NEW e \in Events, Log(c, e), Open(audit[c]),
           e = "start" => audit[c] = <<>>
    PROVE  /\ audit' \in [Chats -> Seq(Events)]
           /\ Told(c, e)' /\ \A f : Told(c, f) => Told(c, f)'
           /\ Ordered(audit'[c]) /\ (e \notin Closers => Open(audit'[c]))
           /\ \A d \in Chats \ {c} :
                 audit'[d] = audit[d] /\ \A f : Told(d, f)' <=> Told(d, f)
<1>1. audit \in [Chats -> Seq(Events)]
  BY DEF CInv, Shape
<1>2. CASE audit' = [audit EXCEPT ![c] = Append(@, e)] /\ UNCHANGED lost
  <2> DEFINE t == Append(audit[c], e)
  <2>1. /\ t \in Seq(Events) /\ ToSet(t) = ToSet(audit[c]) \cup {e}
        /\ Ordered(t) /\ (e \notin Closers => Open(t))
    BY <1>1, OpenGrows
  <2>2. audit' = [audit EXCEPT ![c] = t]
    BY <1>2
  <2> HIDE DEF t
  <2>3. /\ audit' \in [Chats -> Seq(Events)] /\ audit'[c] = t
        /\ \A d \in Chats \ {c} : audit'[d] = audit[d]
    BY <1>1, <2>1, <2>2
  <2> QED
    BY <1>2, <2>1, <2>3 DEF Told
<1>3. CASE lost' = lost \cup {<<c, e>>} /\ UNCHANGED audit
  <2>1. Told(c, e)' /\ \A f : Told(c, f) => Told(c, f)'
    BY <1>3 DEF Told
  <2>2. \A d \in Chats \ {c} : \A f : Told(d, f)' <=> Told(d, f)
    BY <1>3 DEF Told
  <2>3. Ordered(audit[c])
    BY DEF Open
  <2> QED
    BY <1>1, <1>3, <2>1, <2>2, <2>3
<1> QED
  BY <1>2, <1>3 DEF Log

(* Submitting a chat that is not there keeps the queue without repetitions. *)
LEMMA SubmitQueue ==
    ASSUME CInv, NEW w \in Work, w \in Chats => ~Queued(w), Submit(w)
    PROVE  /\ pending' \in Seq(Work) /\ Unique'
           /\ \A c \in Chats \ {w} : Queued(c)' <=> Queued(c)
<1> DEFINE n == Len(pending)
<1>1. /\ pending' \in Seq(Work) /\ Len(pending') = n + 1 /\ n \in Nat
      /\ \A k \in 1..n : pending'[k] = pending[k]
      /\ pending'[n + 1] = w
      /\ DOMAIN pending = 1..n /\ DOMAIN pending' = 1..(n + 1)
  BY DEF CInv, Shape, Submit
<1> HIDE DEF n
<1>2. \A k \in 1..(n + 1) : k \in 1..n \/ k = n + 1
  BY <1>1
<1>3. n + 1 \in 1..(n + 1) /\ \A k \in 1..n : k \in 1..(n + 1)
  BY <1>1
<1>4. Unique'
  BY <1>1, <1>2 DEF CInv, Unique, Queued
<1>5. \A c \in Chats \ {w} : Queued(c)' <=> Queued(c)
  BY <1>1, <1>2, <1>3 DEF Queued
<1> QED
  BY <1>1, <1>4, <1>5

(* The executor takes the oldest piece of work.                             *)
LEMMA TakeQueue ==
    ASSUME CInv, pending # <<>>, NEW w, w = Head(pending), pending' = Tail(pending)
    PROVE  /\ pending' \in Seq(Work) /\ Unique' /\ w \in Work
           /\ w \in Chats => Queued(w) /\ ~Queued(w)'
           /\ \A c \in Chats \ {w} : Queued(c)' <=> Queued(c)
<1> DEFINE n == Len(pending)
<1>1. /\ pending' \in Seq(Work) /\ Len(pending') = n - 1 /\ n \in Nat \ {0}
      /\ \A k \in 1..(n - 1) : pending'[k] = pending[k + 1]
      /\ pending[1] = w /\ w \in Work
      /\ DOMAIN pending = 1..n /\ DOMAIN pending' = 1..(n - 1)
  BY DEF CInv, Shape
<1> HIDE DEF n
<1>2. \A k \in 1..(n - 1) : k + 1 \in 1..n /\ k + 1 # 1
  BY <1>1
<1>3. \A k \in 1..n : k = 1 \/ (k - 1 \in 1..(n - 1) /\ k = (k - 1) + 1)
  BY <1>1
<1>4. Unique'
  <2> SUFFICES ASSUME NEW i \in 1..(n - 1), NEW k \in 1..(n - 1),
                      pending'[i] = pending'[k], pending'[i] \in Chats
               PROVE  i = k
    BY <1>1 DEF Unique
  <2>1. pending[i + 1] = pending[k + 1] /\ pending[i + 1] \in Chats
    BY <1>1
  <2>2. i + 1 = k + 1
    BY <1>1, <1>2, <2>1 DEF CInv, Unique
  <2> QED
    BY <2>2
<1>5. w \in Chats => Queued(w) /\ ~Queued(w)'
  <2> SUFFICES ASSUME w \in Chats PROVE Queued(w) /\ ~Queued(w)'
    OBVIOUS
  <2>1. 1 \in 1..n
    BY <1>1
  <2>2. Queued(w)
    BY <1>1, <2>1 DEF Queued
  <2>3. ASSUME NEW k \in 1..(n - 1), pending'[k] = w PROVE FALSE
    <3>1. pending[k + 1] = w
      BY <1>1, <2>3
    <3>2. k + 1 = 1
      BY <1>1, <1>2, <2>1, <3>1 DEF CInv, Unique
    <3> QED
      BY <1>2, <3>2
  <2> QED
    BY <1>1, <2>2, <2>3 DEF Queued
<1>6. \A c \in Chats \ {w} : Queued(c)' <=> Queued(c)
  <2> TAKE c \in Chats \ {w}
  <2>1. Queued(c)' => Queued(c)
    BY <1>1, <1>2 DEF Queued
  <2>2. ASSUME NEW k \in 1..n, pending[k] = c
        PROVE  Queued(c)'
    <3>1. k - 1 \in 1..(n - 1) /\ k = (k - 1) + 1
      BY <1>1, <1>3, <2>2
    <3>2. pending'[k - 1] = c
      BY <1>1, <2>2, <3>1
    <3> QED
      BY <1>1, <3>1, <3>2 DEF Queued
  <2> QED
    BY <1>1, <2>1, <2>2 DEF Queued
<1> QED
  BY <1>1, <1>4, <1>5, <1>6

-----------------------------------------------------------------------------
(* A step of one chat, or of none, leaves the others where they were.       *)
Still(d) ==
    /\ chats'[d] = chats[d] /\ audit'[d] = audit[d] /\ posted'[d] = posted[d]
    /\ \A e : Told(d, e)' <=> Told(d, e)
    /\ thread'[d] = thread[d]
    /\ Queued(d)' <=> Queued(d)
    /\ Traded(d)' => Traded(d)

LEMMA StillOK ==
    ASSUME CInv, NEW d \in Chats, Still(d)
    PROVE  ChatOK(d)'
<1>1. WorkOK(d) /\ TrailOK(d)
  BY DEF CInv, ChatOK
<1>2. WorkOK(d)'
  BY <1>1 DEF Still, WorkOK
<1>3. TrailOK(d)'
  BY <1>1 DEF Still, TrailOK, Ends
<1> QED
  BY <1>2, <1>3 DEF ChatOK

LEMMA OneChatOK ==
    ASSUME CInv, Shape', Unique', NEW c \in Chats, ChatOK(c)',
           \A d \in Chats \ {c} : Still(d)
    PROVE  CInv'
BY StillOK DEF CInv

LEMMA NoChatOK ==
    ASSUME CInv, Shape', Unique', \A d \in Chats : Still(d)
    PROVE  CInv'
BY StillOK DEF CInv

(* Writing the place of one chat, or of its trail.                          *)
LEMMA ChatsWrite ==
    ASSUME CInv, NEW c \in Chats, NEW pc \in States, Goes(c, pc)
    PROVE  /\ chats' \in [Chats -> [pc : States, route : Routes \cup {None},
                                    attached : SUBSET Files, got : SUBSET Files]]
           /\ chats'[c].pc = pc /\ chats'[c].route = chats[c].route
           /\ \A d \in Chats \ {c} : chats'[d] = chats[d]
<1> DEFINE j == [chats[c] EXCEPT !.pc = pc, !.attached = {}, !.got = {}]
           Chat0 == [pc : States, route : Routes \cup {None},
                     attached : SUBSET Files, got : SUBSET Files]
<1>1. chats \in [Chats -> Chat0] /\ chats[c] \in Chat0
  BY DEF CInv, Shape
<1>2. chats' = [chats EXCEPT ![c] = j]
  BY <1>1 DEF Goes
<1>3. j \in Chat0 /\ j.pc = pc /\ j.route = chats[c].route
  BY <1>1
<1> HIDE DEF j, Chat0
<1>4. chats' \in [Chats -> Chat0] /\ chats'[c] = j
      /\ \A d \in Chats \ {c} : chats'[d] = chats[d]
  BY <1>1, <1>2, <1>3
<1> QED
  BY <1>3, <1>4 DEF Chat0

(* A chat that is not the kernel's tells an event and goes on or ends.      *)
LEMMA TellsOK ==
    ASSUME CInv, NEW c \in Chats, chats[c].pc \in {"routed", "agent", "asked"},
           NEW e \in Events \ {"start"}, NEW pc \in {"asked", "done", "failed"},
           pc = "asked" <=> e \notin Closers,
           Log(c, e), Goes(c, pc),
           \A d \in Chats : Traded(d)' <=> Traded(d),
           UNCHANGED <<known, posted, pending, thread, mine, built>>
    PROVE  CInv'
<1>1. /\ chats' \in [Chats -> [pc : States, route : Routes \cup {None},
                               attached : SUBSET Files, got : SUBSET Files]]
      /\ chats'[c].pc = pc /\ chats'[c].route = chats[c].route
      /\ \A d \in Chats \ {c} : chats'[d] = chats[d]
  BY ChatsWrite DEF States, Ended
<1>2. WorkOK(c) /\ TrailOK(c)
  BY DEF CInv, ChatOK
<1>3. /\ audit' \in [Chats -> Seq(Events)]
      /\ Told(c, e)' /\ \A f : Told(c, f) => Told(c, f)'
      /\ Ordered(audit'[c]) /\ (e \notin Closers => Open(audit'[c]))
      /\ \A d \in Chats \ {c} :
            audit'[d] = audit[d] /\ \A f : Told(d, f)' <=> Told(d, f)
  <2>1. Open(audit[c])
    BY <1>2 DEF TrailOK
  <2> QED
    BY <2>1, LogTells
<1>4. Shape' /\ Unique'
  BY <1>1, <1>3 DEF CInv, Shape, Unique
<1>5. \A d \in Chats \ {c} : Still(d)
  BY <1>1, <1>3 DEF Still, Queued
<1>6. ~Queued(c) /\ thread[c] = None /\ ~Traded(c) /\ posted[c] = <<>>
      /\ chats[c].route # "kernel"
  BY <1>2 DEF WorkOK
<1>7. ~Queued(c)' /\ thread'[c] = None /\ ~Traded(c)' /\ posted'[c] = <<>>
  BY <1>6 DEF Queued
<1>8. WorkOK(c)'
  BY <1>1, <1>6, <1>7, WebAssumption DEF WorkOK
<1>9. TrailOK(c)'
  <2>1. Told(c, "start")'
    BY <1>2, <1>3 DEF TrailOK
  <2>2. pc # "asked" => Ends(c)'
    BY <1>3 DEF Ends, Closers
  <2> QED
    BY <1>1, <1>3, <2>1, <2>2 DEF TrailOK
<1> QED
  BY <1>4, <1>5, <1>8, <1>9, OneChatOK DEF ChatOK

LEMMA UploadStep == ASSUME CInv, NEW f \in Files, Upload(f) PROVE CInv'
<1>1. UNCHANGED <<chats, audit, lost, posted, pending, thread, mine, built, trades>>
      /\ known' \subseteq Files
  BY DEF Upload, chatVars, poolVars, engineVars, CInv, Shape
<1>2. Shape' /\ Unique'
  BY <1>1 DEF CInv, Shape, Unique
<1>3. \A d \in Chats : Still(d)
  BY <1>1 DEF Still, Queued, Traded, Told
<1> QED
  BY <1>2, <1>3, NoChatOK

LEMMA ChatStep == ASSUME CInv, NEW c \in Chats, Chat(c) PROVE CInv'
<1>0. PICK route \in Routes :
          \E attached \in IF route \in Agentic THEN SUBSET known ELSE {{}} :
          /\ chats' = [chats EXCEPT ![c] = [pc |-> IF route = "kernel" THEN "kernel" ELSE "routed",
                                            route |-> route, attached |-> attached, got |-> {}]]
          /\ IF route = "kernel" THEN Submit(c) ELSE UNCHANGED pending
  BY DEF Chat
<1>1. PICK attached \in IF route \in Agentic THEN SUBSET known ELSE {{}} :
          /\ chats' = [chats EXCEPT ![c] = [pc |-> IF route = "kernel" THEN "kernel" ELSE "routed",
                                            route |-> route, attached |-> attached, got |-> {}]]
          /\ IF route = "kernel" THEN Submit(c) ELSE UNCHANGED pending
  BY <1>0
<1>2. /\ chats[c].pc = "new" /\ Log(c, "start")
      /\ UNCHANGED <<known, posted, thread, mine, built, trades>>
  BY DEF Chat, uploadVars, engineVars
<1>3. WorkOK(c) /\ TrailOK(c)
  BY DEF CInv, ChatOK
<1>4. audit[c] = <<>> /\ ~Queued(c) /\ thread[c] = None /\ ~Traded(c) /\ posted[c] = <<>>
  BY <1>2, <1>3 DEF WorkOK, TrailOK
<1>5. Open(audit[c])
  BY <1>4 DEF Open, Ordered
<1>6. /\ audit' \in [Chats -> Seq(Events)] /\ Told(c, "start")'
      /\ Ordered(audit'[c]) /\ Open(audit'[c])
      /\ \A d \in Chats \ {c} :
            audit'[d] = audit[d] /\ \A f : Told(d, f)' <=> Told(d, f)
  <2>1. "start" \in Events \ Closers
    BY DEF Events, Closers
  <2> QED
    BY <1>2, <1>4, <1>5, <2>1, LogTells
<1>8. attached \in SUBSET Files
  BY DEF CInv, Shape
<1> DEFINE j == [pc |-> IF route = "kernel" THEN "kernel" ELSE "routed",
                 route |-> route, attached |-> attached, got |-> {}]
<1>9. j \in [pc : States, route : Routes \cup {None},
             attached : SUBSET Files, got : SUBSET Files]
      /\ j.pc = (IF route = "kernel" THEN "kernel" ELSE "routed") /\ j.route = route
  BY <1>8 DEF States
<1>10. chats' = [chats EXCEPT ![c] = j]
  BY <1>1
<1> HIDE DEF j
<1>11. /\ chats' \in [Chats -> [pc : States, route : Routes \cup {None},
                                attached : SUBSET Files, got : SUBSET Files]]
       /\ chats'[c] = j /\ \A d \in Chats \ {c} : chats'[d] = chats[d]
  BY <1>9, <1>10 DEF CInv, Shape
<1>12. pending' \in Seq(Work) /\ Unique' /\ \A d \in Chats \ {c} : Queued(d)' <=> Queued(d)
  <2>1. CASE route = "kernel"
    BY <1>1, <1>4, <2>1, SubmitQueue DEF Work
  <2>2. CASE route # "kernel"
    BY <1>1, <2>2 DEF CInv, Shape, Unique, Queued
  <2> QED
    BY <2>1, <2>2
<1>13. route # "kernel" => ~Queued(c)'
  BY <1>1, <1>4 DEF Queued
<1>14. Shape'
  BY <1>2, <1>6, <1>11, <1>12 DEF CInv, Shape
<1>15. \A d \in Chats \ {c} : Still(d)
  BY <1>2, <1>6, <1>11, <1>12 DEF Still, Traded, Told
<1>16. thread'[c] = None /\ ~Traded(c)' /\ posted'[c] = <<>>
  BY <1>2, <1>4 DEF Traded
<1>17. WorkOK(c)'
  BY <1>9, <1>11, <1>13, <1>16, WebAssumption DEF WorkOK
<1>18. TrailOK(c)'
  BY <1>6, <1>9, <1>11 DEF TrailOK
<1> QED
  BY <1>12, <1>14, <1>15, <1>17, <1>18, OneChatOK DEF ChatOK

LEMMA AssembleStep == ASSUME CInv, NEW c \in Chats, Assemble(c) PROVE CInv'
<1> DEFINE j == [chats[c] EXCEPT !.pc = "agent", !.got = chats[c].attached \cap ToSet(cache)]
           Chat0 == [pc : States, route : Routes \cup {None},
                     attached : SUBSET Files, got : SUBSET Files]
<1>1. /\ chats[c].pc = "routed"
      /\ UNCHANGED <<known, audit, lost, posted, pending, thread, mine, built, trades>>
  BY DEF Assemble, uploadVars, poolVars, engineVars
<1>2. chats \in [Chats -> Chat0] /\ chats[c] \in Chat0
  BY DEF CInv, Shape
<1>3. chats' = [chats EXCEPT ![c] = j]
  BY <1>2 DEF Assemble
<1>4. j \in Chat0 /\ j.pc = "agent" /\ j.route = chats[c].route
  <2>1. chats[c].attached \cap ToSet(cache) \in SUBSET Files /\ "agent" \in States
    BY <1>2 DEF States
  <2> QED
    BY <1>2, <2>1
<1> HIDE DEF j, Chat0
<1>5. /\ chats' \in [Chats -> Chat0] /\ chats'[c] = j
      /\ \A d \in Chats \ {c} : chats'[d] = chats[d]
  BY <1>2, <1>3, <1>4
<1>6. Shape' /\ Unique'
  BY <1>1, <1>5 DEF CInv, Shape, Unique, Chat0
<1>7. \A d \in Chats \ {c} : Still(d)
  BY <1>1, <1>5 DEF Still, Queued, Traded, Told
<1>8. WorkOK(c) /\ TrailOK(c)
  BY DEF CInv, ChatOK
<1>9. WorkOK(c)' /\ TrailOK(c)'
  BY <1>1, <1>4, <1>5, <1>8 DEF WorkOK, TrailOK, Queued, Traded, Told
<1> QED
  BY <1>6, <1>7, <1>9, OneChatOK DEF ChatOK

LEMMA AnswersStep ==
    ASSUME CInv, NEW c \in Chats, Devbox(c) \/ InitFails(c) \/ CallTool(c) \/ Answer(c)
    PROVE  CInv'
<1>1. chats[c].pc \in {"routed", "agent", "asked"}
  BY DEF Devbox, InitFails, CallTool, Answer
<1>2. UNCHANGED <<known, posted, pending, thread, mine, built>>
  BY DEF Devbox, InitFails, CallTool, Answer, uploadVars, poolVars, engineVars
<1>3. trades' = trades
  BY DEF Devbox, InitFails, CallTool, Answer, engineVars, ToolsOf, BuildTools, Policy,
         WriteTools
<1>4. \A d \in Chats : Traded(d)' <=> Traded(d)
  BY <1>3 DEF Traded
<1>5. PICK e \in Events \ {"start"}, pc \in {"asked", "done", "failed"} :
          (pc = "asked" <=> e \notin Closers) /\ Log(c, e) /\ Goes(c, pc)
  BY DEF Devbox, InitFails, CallTool, Answer, Events, Closers
<1> QED
  BY <1>1, <1>2, <1>4, <1>5, TellsOK

(* The oldest event of a kernel chat goes into its trail.  The result is    *)
(* the last one there is, so nothing is left to be told when it closes.     *)
LEMMA RelayStep == ASSUME CInv, NEW c \in Chats, Relay(c) PROVE CInv'
<1>1. /\ chats[c].pc = "kernel" /\ posted[c] # <<>>
      /\ posted' = [posted EXCEPT ![c] = Tail(posted[c])]
      /\ UNCHANGED <<known, pending, thread, mine, built, trades>>
  BY DEF Relay, uploadVars, poolVars, engineVars
<1>2. WorkOK(c) /\ TrailOK(c) /\ posted[c] \in Queues /\ audit[c] \in Seq(Events)
      /\ posted \in [Chats -> Queues]
  BY DEF CInv, Shape, ChatOK
<1>3. Open(audit[c])
  BY <1>1, <1>2 DEF TrailOK
<1>4. /\ ~Queued(c) /\ thread[c] \notin {"test", "build", "use"}
      /\ thread[c] \in {"trade", "finish"} => posted[c] = <<"trade">>
      /\ chats[c].route = "kernel"
  BY <1>1, <1>2 DEF WorkOK
<1>5. /\ ~Queued(c)' /\ thread'[c] = thread[c] /\ (Traded(c)' <=> Traded(c))
  BY <1>1, <1>4 DEF Queued, Traded
<1>6. CASE Head(posted[c]) = "result"
  <2>1. posted[c] = <<"result">>
    BY <1>1, <1>2, <1>6 DEF Queues
  <2>2. Tail(posted[c]) = <<>>
    BY <2>1
  <2>3. Log(c, "end") /\ Goes(c, "done")
    BY <1>6 DEF Relay
  <2>5. /\ chats' \in [Chats -> [pc : States, route : Routes \cup {None},
                                 attached : SUBSET Files, got : SUBSET Files]]
        /\ chats'[c].pc = "done" /\ chats'[c].route = chats[c].route
        /\ \A d \in Chats \ {c} : chats'[d] = chats[d]
    BY <2>3, ChatsWrite DEF States, Ended
  <2>6. /\ audit' \in [Chats -> Seq(Events)]
        /\ Told(c, "end")' /\ \A f : Told(c, f) => Told(c, f)'
        /\ Ordered(audit'[c])
        /\ \A d \in Chats \ {c} :
              audit'[d] = audit[d] /\ \A f : Told(d, f)' <=> Told(d, f)
    <3>1. "end" \in Events /\ "end" # "start"
      BY DEF Events, Closers
    <3> QED
      BY <1>3, <2>3, <3>1, LogTells
  <2>7. /\ posted' \in [Chats -> Queues] /\ posted'[c] = <<>>
        /\ \A d \in Chats \ {c} : posted'[d] = posted[d]
    BY <1>1, <1>2, <2>2 DEF Queues
  <2>8. Shape' /\ Unique'
    BY <1>1, <2>5, <2>6, <2>7 DEF CInv, Shape, Unique
  <2>9. \A d \in Chats \ {c} : Still(d)
    BY <1>1, <2>5, <2>6, <2>7 DEF Still, Queued, Traded, Told
  <2>10. thread[c] = None
    <3>1. thread[c] \notin {"trade", "finish"}
      BY <1>4, <2>1
    <3>2. thread[c] \in Steps \cup {None} /\ thread[c] # "ingest"
      BY <1>2 DEF CInv, Shape, Work, WorkOK
    <3> QED
      BY <1>4, <3>1, <3>2 DEF Steps
  <2>11. Traded(c) => Told(c, "trade")'
    <3>1. "trade" \notin ToSet(posted[c])
      BY <2>1 DEF ToSet
    <3>2. Traded(c) => Told(c, "trade")
      BY <1>1, <1>2, <3>1 DEF WorkOK
    <3> QED
      BY <2>6, <3>2
  <2>12. WorkOK(c)'
    BY <1>4, <1>5, <2>5, <2>7, <2>10, <2>11, WebAssumption DEF WorkOK
  <2>13. TrailOK(c)'
    BY <1>1, <1>2, <2>5, <2>6 DEF TrailOK, Ends
  <2> QED
    BY <2>8, <2>9, <2>12, <2>13, OneChatOK DEF ChatOK
<1>7. CASE Head(posted[c]) # "result"
  <2>1. /\ Head(posted[c]) = "trade"
        /\ Tail(posted[c]) \in Queues /\ ToSet(posted[c]) \subseteq {"trade", "result"}
    <3>1. posted[c] = <<"trade">> \/ posted[c] = <<"trade", "result">>
      BY <1>1, <1>2, <1>7 DEF Queues
    <3>2. CASE posted[c] = <<"trade">>
      <4>1. Tail(posted[c]) = <<>>
        BY <3>2
      <4> QED
        BY <3>2, <4>1 DEF Queues, ToSet
    <3>3. CASE posted[c] = <<"trade", "result">>
      <4>1. Tail(posted[c]) = <<"result">>
        BY <3>3
      <4>2. \A k \in DOMAIN posted[c] : posted[c][k] \in {"trade", "result"}
        BY <3>3
      <4> QED
        BY <3>3, <4>1, <4>2 DEF Queues, ToSet
    <3> QED
      BY <3>1, <3>2, <3>3
  <2>2. Log(c, "trade") /\ chats' = chats
    BY <1>7, <2>1 DEF Relay
  <2>4. /\ audit' \in [Chats -> Seq(Events)]
        /\ Told(c, "trade")' /\ \A f : Told(c, f) => Told(c, f)'
        /\ Ordered(audit'[c]) /\ Open(audit'[c])
        /\ \A d \in Chats \ {c} :
              audit'[d] = audit[d] /\ \A f : Told(d, f)' <=> Told(d, f)
    <3>1. "trade" \in Events \ Closers /\ "trade" # "start"
      BY DEF Events, Closers
    <3> QED
      BY <1>3, <2>2, <3>1, LogTells
  <2>5. /\ posted' \in [Chats -> Queues] /\ posted'[c] = Tail(posted[c])
        /\ \A d \in Chats \ {c} : posted'[d] = posted[d]
    BY <1>1, <1>2, <2>1
  <2>6. Shape' /\ Unique'
    BY <1>1, <2>2, <2>4, <2>5 DEF CInv, Shape, Unique
  <2>7. \A d \in Chats \ {c} : Still(d)
    BY <1>1, <2>2, <2>4, <2>5 DEF Still, Queued, Traded, Told
  <2>8. thread[c] \in {"trade", "finish"} => posted'[c] = <<>>
    BY <1>4, <2>5
  <2>10. WorkOK(c)'
    <3>1. WorkOK(c) /\ Told(c, "trade")' /\ chats'[c] = chats[c]
      BY <1>2, <2>2, <2>4
    <3>2. posted'[c] # <<>> => thread'[c] \notin {"test", "build", "use"}
      BY <1>4, <1>5
    <3> QED
      BY <1>1, <1>4, <1>5, <2>8, <3>1, <3>2 DEF WorkOK
  <2>11. TrailOK(c)'
    BY <1>1, <1>2, <2>2, <2>4 DEF TrailOK
  <2> QED
    BY <2>6, <2>7, <2>10, <2>11, OneChatOK DEF ChatOK
<1> QED
  BY <1>6, <1>7

LEMMA LeaveStep == ASSUME CInv, NEW c \in Chats, Leave(c) PROVE CInv'
<1>1. /\ chats[c].pc \in {"routed", "agent", "asked", "kernel"} /\ Goes(c, "gone")
      /\ posted' = [posted EXCEPT ![c] = <<>>]
      /\ UNCHANGED <<known, audit, lost, pending, thread, mine, built, trades>>
  BY DEF Leave, uploadVars, poolVars, engineVars
<1>2. /\ chats' \in [Chats -> [pc : States, route : Routes \cup {None},
                               attached : SUBSET Files, got : SUBSET Files]]
      /\ chats'[c].pc = "gone" /\ chats'[c].route = chats[c].route
      /\ \A d \in Chats \ {c} : chats'[d] = chats[d]
  BY <1>1, ChatsWrite DEF States, Ended
<1>3. /\ posted' \in [Chats -> Queues] /\ posted'[c] = <<>>
      /\ \A d \in Chats \ {c} : posted'[d] = posted[d]
  <2>1. <<>> \in Queues
    BY DEF Queues
  <2> QED
    BY <1>1, <2>1 DEF CInv, Shape
<1>4. Shape' /\ Unique'
  BY <1>1, <1>2, <1>3 DEF CInv, Shape, Unique
<1>5. \A d \in Chats \ {c} : Still(d)
  BY <1>1, <1>2, <1>3 DEF Still, Queued, Traded, Told
<1>6. WorkOK(c) /\ TrailOK(c)
  BY DEF CInv, ChatOK
<1>7. (Queued(c)' <=> Queued(c)) /\ (Traded(c)' <=> Traded(c)) /\ thread'[c] = thread[c]
  BY <1>1 DEF Queued, Traded
<1>8. WorkOK(c)'
  BY <1>1, <1>2, <1>3, <1>6, <1>7 DEF WorkOK
<1>9. TrailOK(c)'
  BY <1>1, <1>2, <1>6 DEF TrailOK, Told
<1> QED
  BY <1>4, <1>5, <1>8, <1>9, OneChatOK DEF ChatOK

-----------------------------------------------------------------------------
(* The executor.                                                            *)

LEMMA JobsStep ==
    ASSUME CInv, NEW j \in Jobs, CreateJob(j) \/ RunJob(j)
    PROVE  CInv'
<1>1. j \notin Chats /\ j \in Work
  BY WebAssumption DEF Work
<1>2. UNCHANGED <<known, chats, audit, lost, posted, mine, built, trades>>
  BY DEF CreateJob, RunJob, uploadVars, chatVars, engineVars
<1>3. CASE CreateJob(j)
  <2>1. Submit(j) /\ thread' = thread
    BY <1>3 DEF CreateJob
  <2>2. pending' \in Seq(Work) /\ Unique' /\ \A c \in Chats \ {j} : Queued(c)' <=> Queued(c)
    BY <1>1, <2>1, SubmitQueue
  <2>3. Shape'
    BY <1>2, <2>1, <2>2 DEF CInv, Shape
  <2>4. \A c \in Chats : Still(c)
    BY <1>1, <1>2, <2>1, <2>2 DEF Still, Traded, Told
  <2> QED
    BY <2>2, <2>3, <2>4, NoChatOK
<1>4. CASE RunJob(j)
  <2>1. thread' = [thread EXCEPT ![j] = None] /\ pending' = pending
    BY <1>4 DEF RunJob
  <2>2. thread' \in [Work -> Steps \cup {None}] /\ \A c \in Chats : thread'[c] = thread[c]
    BY <1>1, <2>1 DEF CInv, Shape, Work
  <2>3. Shape' /\ Unique'
    BY <1>2, <2>1, <2>2 DEF CInv, Shape, Unique
  <2>4. \A c \in Chats : Still(c)
    BY <1>2, <2>1, <2>2 DEF Still, Queued, Traded, Told
  <2> QED
    BY <2>3, <2>4, NoChatOK
<1> QED
  BY <1>3, <1>4

LEMMA DispatchStep == ASSUME CInv, Dispatch PROVE CInv'
<1>1. PICK w : w = Head(pending)
  OBVIOUS
<1>2. /\ pending # <<>> /\ pending' = Tail(pending)
      /\ thread' = [thread EXCEPT ![w] = IF w \in Jobs THEN "ingest" ELSE "test"]
      /\ UNCHANGED <<known, chats, audit, lost, posted, mine, built, trades>>
  BY <1>1 DEF Dispatch, uploadVars, chatVars, engineVars
<1>3. /\ pending' \in Seq(Work) /\ Unique' /\ w \in Work
      /\ w \in Chats => Queued(w) /\ ~Queued(w)'
      /\ \A c \in Chats \ {w} : Queued(c)' <=> Queued(c)
  BY <1>1, <1>2, TakeQueue
<1>4. /\ thread' \in [Work -> Steps \cup {None}]
      /\ thread'[w] = IF w \in Jobs THEN "ingest" ELSE "test"
      /\ \A v \in Work \ {w} : thread'[v] = thread[v]
  BY <1>2, <1>3 DEF CInv, Shape, Steps
<1>5. Shape'
  BY <1>2, <1>3, <1>4 DEF CInv, Shape
<1>6. \A c \in Chats \ {w} : Still(c)
  BY <1>2, <1>3, <1>4 DEF Still, Traded, Told, Work
<1>7. CASE w \notin Chats
  BY <1>3, <1>5, <1>6, <1>7, NoChatOK
<1>8. CASE w \in Chats
  <2>1. thread'[w] = "test" /\ ~Queued(w)' /\ Queued(w)
    BY <1>3, <1>4, <1>8, WebAssumption
  <2>2. WorkOK(w) /\ TrailOK(w)
    BY <1>8 DEF CInv, ChatOK
  <2>3. /\ chats[w].pc \in {"kernel", "gone"} /\ chats[w].pc # "new"
        /\ chats[w].route = "kernel" /\ posted[w] = <<>>
    BY <2>1, <2>2 DEF WorkOK
  <2>4. (Traded(w)' <=> Traded(w)) /\ \A e : Told(w, e)' <=> Told(w, e)
    BY <1>2 DEF Traded, Told
  <2>5. WorkOK(w)'
    BY <1>2, <2>1, <2>2, <2>3, <2>4 DEF WorkOK
  <2>6. TrailOK(w)'
    BY <1>2, <2>2, <2>4 DEF TrailOK, Ends
  <2> QED
    BY <1>3, <1>5, <1>6, <1>8, <2>5, <2>6, OneChatOK DEF ChatOK
<1> QED
  BY <1>7, <1>8

(* A thread moves on with the work of a chat and says nothing, or books.    *)
LEMMA MovesOK ==
    ASSUME CInv, NEW c \in Chats, NEW pc \in Steps \cup {None}, At(c, pc),
           UNCHANGED <<known, chats, audit, lost, pending>>,
           mine' = [w \in Work |-> mine'[w]], built' \in Nat,
           posted' \in [Chats -> Queues],
           \A d \in Chats \ {c} : posted'[d] = posted[d] /\ (Traded(d)' => Traded(d))
    PROVE  /\ Shape' /\ Unique' /\ \A d \in Chats \ {c} : Still(d)
           /\ thread'[c] = pc
           /\ Queued(c)' <=> Queued(c)
           /\ (Told(c, "trade")' <=> Told(c, "trade"))
           /\ TrailOK(c)'
<1>1. /\ thread' \in [Work -> Steps \cup {None}] /\ thread'[c] = pc
      /\ \A v \in Work \ {c} : thread'[v] = thread[v]
  BY DEF CInv, Shape, At, Work
<1>2. Shape' /\ Unique'
  BY <1>1 DEF CInv, Shape, Unique
<1>3. \A d \in Chats \ {c} : Still(d)
  BY <1>1 DEF Still, Queued, Told, Work
<1>4. TrailOK(c)'
  BY DEF CInv, ChatOK, TrailOK, Told, Ends
<1>5. Told(c, "trade")' <=> Told(c, "trade")
  BY DEF Told
<1> QED
  BY <1>1, <1>2, <1>3, <1>4, <1>5 DEF Queued

LEMMA EngineStep ==
    ASSUME CInv, NEW c \in Chats, EngineTest(c) \/ EngineBuild(c)
    PROVE  CInv'
<1>1. PICK pc \in {"build", "use"} : At(c, pc)
  BY DEF EngineTest, EngineBuild
<1>2. /\ thread[c] \in {"test", "build"} /\ mine' = mine /\ built' \in Nat
      /\ UNCHANGED <<known, chats, audit, lost, posted, pending, trades>>
  BY DEF EngineTest, EngineBuild, uploadVars, chatVars, CInv, Shape
<1>3. WorkOK(c)
  BY DEF CInv, ChatOK
<1>4. Traded(c)' <=> Traded(c)
  BY <1>2 DEF Traded
<1>5. /\ Shape' /\ Unique' /\ \A d \in Chats \ {c} : Still(d)
      /\ thread'[c] = pc /\ (Queued(c)' <=> Queued(c)) /\ TrailOK(c)'
      /\ (Told(c, "trade")' <=> Told(c, "trade"))
  <2>1. mine' = [w \in Work |-> mine'[w]] /\ posted' \in [Chats -> Queues]
    BY <1>2 DEF CInv, Shape
  <2>2. \A d \in Chats : posted'[d] = posted[d] /\ (Traded(d)' => Traded(d))
    BY <1>2 DEF Traded
  <2> QED
    BY <1>1, <1>2, <2>1, <2>2, MovesOK DEF Steps
<1>6. WorkOK(c)'
  BY <1>1, <1>2, <1>3, <1>4, <1>5, WebAssumption DEF WorkOK
<1> QED
  BY <1>5, <1>6, OneChatOK DEF ChatOK

(* The trade is announced before it is made, and by then nothing else is.   *)
LEMMA AnnounceStep == ASSUME CInv, NEW c \in Chats, Announce(c) PROVE CInv'
<1>1. /\ thread[c] = "use" /\ built' = built
      /\ UNCHANGED <<known, chats, audit, lost, pending, trades>>
  BY DEF Announce, uploadVars
<1>2. WorkOK(c) /\ posted \in [Chats -> Queues] /\ built \in Nat
      /\ mine = [w \in Work |-> mine[w]]
  BY DEF CInv, ChatOK, Shape
<1>3. /\ chats[c].pc \in {"kernel", "gone"} /\ chats[c].route = "kernel"
      /\ posted[c] = <<>> /\ ~Queued(c)
  BY <1>1, <1>2, WebAssumption DEF WorkOK
<1>4. (Traded(c)' <=> Traded(c)) /\ \A d \in Chats : Traded(d)' => Traded(d)
  BY <1>1 DEF Traded
<1>5. CASE At(c, "trade") /\ Post(c, "trade") /\ mine' = [mine EXCEPT ![c] = engine]
  <2>1. /\ posted' \in [Chats -> Queues] /\ \A d \in Chats \ {c} : posted'[d] = posted[d]
        /\ posted'[c] = IF chats[c].pc = "gone" THEN <<>> ELSE <<"trade">>
    <3>1. Append(<<>>, "trade") = <<"trade">> /\ <<"trade">> \in Queues
      BY DEF Queues
    <3> QED
      BY <1>2, <1>3, <1>5, <3>1 DEF Post
  <2>2. mine' = [w \in Work |-> mine'[w]]
    BY <1>2, <1>5
  <2>3. /\ Shape' /\ Unique' /\ \A d \in Chats \ {c} : Still(d)
        /\ thread'[c] = "trade" /\ (Queued(c)' <=> Queued(c)) /\ TrailOK(c)'
        /\ (Told(c, "trade")' <=> Told(c, "trade"))
    BY <1>1, <1>2, <1>4, <1>5, <2>1, <2>2, MovesOK DEF Steps
  <2>4. chats[c].pc = "kernel" => "trade" \in ToSet(posted'[c])
    BY <2>1 DEF ToSet
  <2>5. WorkOK(c)'
    BY <1>1, <1>3, <1>4, <2>1, <2>3, <2>4 DEF WorkOK
  <2> QED
    BY <2>3, <2>5, OneChatOK DEF ChatOK
<1>6. CASE At(c, "finish") /\ UNCHANGED <<posted, mine>>
  <2>1. /\ Shape' /\ Unique' /\ \A d \in Chats \ {c} : Still(d)
        /\ thread'[c] = "finish" /\ (Queued(c)' <=> Queued(c)) /\ TrailOK(c)'
        /\ (Told(c, "trade")' <=> Told(c, "trade"))
    BY <1>1, <1>2, <1>4, <1>6, MovesOK DEF Steps
  <2>2. WorkOK(c)'
    BY <1>1, <1>2, <1>3, <1>4, <1>6, <2>1 DEF WorkOK
  <2> QED
    BY <2>1, <2>2, OneChatOK DEF ChatOK
<1> QED
  BY <1>5, <1>6 DEF Announce

LEMMA TradeStep ==
    ASSUME CInv, NEW c \in Chats, Trade(c) \/ TradeRefused(c)
    PROVE  CInv'
<1>1. /\ thread[c] = "trade" /\ At(c, "finish") /\ mine' = [mine EXCEPT ![c] = None]
      /\ built' = built
      /\ UNCHANGED <<known, chats, audit, lost, posted, pending>>
      /\ trades' \in {trades, trades \cup {[by |-> c, in |-> mine[c]]}}
  BY DEF Trade, TradeRefused, uploadVars, chatVars
<1>2. WorkOK(c) /\ posted \in [Chats -> Queues] /\ built \in Nat
      /\ mine = [w \in Work |-> mine[w]]
  BY DEF CInv, ChatOK, Shape
<1>3. /\ chats[c].pc \in {"kernel", "gone"} /\ chats[c].route = "kernel"
      /\ ~Queued(c)
  BY <1>1, <1>2, WebAssumption DEF WorkOK
<1>4. \A d \in Chats \ {c} : Traded(d)' => Traded(d)
  BY <1>1 DEF Traded
<1>5. mine' = [w \in Work |-> mine'[w]]
  BY <1>1, <1>2
<1>6. /\ Shape' /\ Unique' /\ \A d \in Chats \ {c} : Still(d)
      /\ thread'[c] = "finish" /\ (Queued(c)' <=> Queued(c)) /\ TrailOK(c)'
      /\ (Told(c, "trade")' <=> Told(c, "trade"))
  BY <1>1, <1>2, <1>4, <1>5, MovesOK DEF Steps
<1>7. WorkOK(c)'
  BY <1>1, <1>2, <1>3, <1>6 DEF WorkOK
<1> QED
  BY <1>6, <1>7, OneChatOK DEF ChatOK

(* An event posted goes behind the ones already there.                      *)
LEMMA AppendIs ==
    ASSUME NEW S, NEW s \in Seq(S), NEW e \in S, NEW n \in Nat, Len(s) = n
    PROVE  /\ Append(s, e) \in Seq(S) /\ Len(Append(s, e)) = n + 1
           /\ Append(s, e)[n + 1] = e
           /\ \A i \in 1..n : Append(s, e)[i] = s[i]
  OBVIOUS

(* What one event posted behind another makes.                              *)
LEMMA SecondIs ==
    ASSUME NEW S, NEW s \in Seq(S), NEW e \in S, NEW t \in Seq(S),
           Len(s) = 1, Len(t) = 2, t[1] = s[1], t[2] = e
    PROVE  Append(s, e) = t
<1> DEFINE q == Append(s, e)
<1>1. q \in Seq(S) /\ Len(q) = 2 /\ q[2] = e /\ q[1] = s[1]
  <2>1. 1 \in Nat /\ 1 + 1 = 2 /\ 1 \in 1..1
    OBVIOUS
  <2> QED
    BY SMTT(30), <2>1, AppendIs
<1> HIDE DEF q
<1>2. DOMAIN q = 1..2 /\ DOMAIN t = 1..2
  BY <1>1
<1>3. q = [i \in 1..2 |-> q[i]] /\ t = [i \in 1..2 |-> t[i]]
  BY <1>1, <1>2
<1>4. \A i \in 1..2 : i = 1 \/ i = 2
  OBVIOUS
<1>5. \A i \in 1..2 : q[i] = t[i]
  BY <1>1, <1>4
<1>6. q = t
  BY <1>3, <1>5
<1> QED
  BY <1>6 DEF q

(* A trade told, and then its result.                                       *)
LEMMA BothEvents == Append(<<"trade">>, "result") = <<"trade", "result">>
<1>1. \A S : \A a \in S, b \in S :
        /\ <<a>> \in Seq(S) /\ Len(<<a>>) = 1 /\ <<a>>[1] = a
        /\ <<a, b>> \in Seq(S) /\ Len(<<a, b>>) = 2 /\ <<a, b>>[1] = a /\ <<a, b>>[2] = b
  OBVIOUS
<1>2. \A S : \A a \in S, b \in S : Append(<<a>>, b) = <<a, b>>
  <2> TAKE S
  <2> TAKE a \in S, b \in S
  <2> DEFINE s == <<a>>  t == <<a, b>>
  <2>1. s \in Seq(S) /\ Len(s) = 1 /\ t \in Seq(S) /\ Len(t) = 2 /\ t[1] = s[1] /\ t[2] = b
    BY <1>1
  <2> HIDE DEF s, t
  <2>2. Append(s, b) = t
    BY <2>1, SecondIs
  <2> QED
    BY <2>2 DEF s, t
<1>3. "trade" \in {"trade", "result"} /\ "result" \in {"trade", "result"}
  OBVIOUS
<1> QED
  BY <1>2, <1>3, Zenon

LEMMA FinishStep == ASSUME CInv, NEW c \in Chats, Finish(c) PROVE CInv'
<1>1. /\ thread[c] = "finish" /\ At(c, None) /\ Post(c, "result")
      /\ mine' = mine /\ built' = built
      /\ UNCHANGED <<known, chats, audit, lost, pending, trades>>
  BY DEF Finish, uploadVars, engineVars
<1>2. WorkOK(c) /\ posted \in [Chats -> Queues] /\ built \in Nat
      /\ mine = [w \in Work |-> mine[w]]
  BY DEF CInv, ChatOK, Shape
<1>3. /\ chats[c].pc \in {"kernel", "gone"} /\ chats[c].route = "kernel"
      /\ posted[c] \in {<<>>, <<"trade">>} /\ ~Queued(c)
      /\ chats[c].pc = "gone" => posted[c] = <<>>
  BY <1>1, <1>2, WebAssumption DEF WorkOK
<1>4. /\ posted' \in [Chats -> Queues] /\ \A d \in Chats \ {c} : posted'[d] = posted[d]
      /\ chats[c].pc = "gone" => posted'[c] = <<>>
      /\ ToSet(posted[c]) \subseteq ToSet(posted'[c])
  <2>1. CASE chats[c].pc = "gone"
    BY <1>1, <1>2, <2>1, <1>3 DEF Post
  <2>2. CASE chats[c].pc # "gone"
    <3> DEFINE q == Append(posted[c], "result")
    <3>1. posted' = [posted EXCEPT ![c] = q]
      BY <1>1, <2>2 DEF Post
    <3>2. q \in Queues /\ ToSet(posted[c]) \subseteq ToSet(q)
      <4>1. CASE posted[c] = <<>>
        <5>1. q = <<"result">> /\ ToSet(posted[c]) = {}
          BY <4>1 DEF ToSet
        <5> QED
          BY <5>1 DEF Queues
      <4>2. CASE posted[c] = <<"trade">>
        <5>1. q = <<"trade", "result">>
          BY <4>2, BothEvents
        <5>2. \A k \in DOMAIN posted[c] : posted[c][k] = "trade"
          <6> DEFINE one == <<"trade">>
          <6>1. DOMAIN one = 1..1 /\ one[1] = "trade"
            OBVIOUS
          <6>2. DOMAIN one = {1}
            BY <6>1
          <6> HIDE DEF one
          <6>3. posted[c] = one
            BY <4>2 DEF one
          <6> QED
            BY <6>1, <6>2, <6>3
        <5> HIDE DEF q
        <5>3. "trade" \in ToSet(q)
          <6>1. DOMAIN q = 1..2 /\ q[1] = "trade"
            BY <5>1
          <6> QED
            BY <6>1 DEF ToSet
        <5> QED
          BY <5>1, <5>2, <5>3 DEF Queues, ToSet
      <4> QED
        BY <1>3, <4>1, <4>2
    <3> HIDE DEF q
    <3> QED
      BY <1>2, <2>2, <3>1, <3>2
  <2> QED
    BY <2>1, <2>2
<1>5. (Traded(c)' <=> Traded(c)) /\ \A d \in Chats : Traded(d)' => Traded(d)
  BY <1>1 DEF Traded
<1>6. /\ Shape' /\ Unique' /\ \A d \in Chats \ {c} : Still(d)
      /\ thread'[c] = None /\ (Queued(c)' <=> Queued(c)) /\ TrailOK(c)'
      /\ (Told(c, "trade")' <=> Told(c, "trade"))
  BY <1>1, <1>2, <1>4, <1>5, MovesOK
<1>7. WorkOK(c)'
  BY <1>1, <1>2, <1>3, <1>4, <1>5, <1>6, WebAssumption DEF WorkOK
<1> QED
  BY <1>6, <1>7, OneChatOK DEF ChatOK

(* After a restart no work is left to say anything.                         *)
LEMMA RestartStep == ASSUME CInv, Restart PROVE CInv'
<1>1. /\ posted' = [c \in Chats |-> <<>>] /\ pending' = <<>>
      /\ thread' = [w \in Work |-> None] /\ built' = 0 /\ trades' = {}
      /\ mine' = [w \in Work |-> None]
      /\ UNCHANGED <<known, audit, lost>>
      /\ chats' = [c \in Chats |-> IF chats[c].pc \in Ended \cup {"new"} THEN chats[c]
                                   ELSE Cut(chats[c])]
  BY DEF Restart
<1> DEFINE Chat0 == [pc : States, route : Routes \cup {None},
                     attached : SUBSET Files, got : SUBSET Files]
<1>2. \A c \in Chats : /\ chats[c] \in Chat0
                       /\ Cut(chats[c]) \in Chat0
                       /\ Cut(chats[c]).pc = "cut"
  BY DEF CInv, Shape, States, Ended, Cut
<1>3. /\ chats' \in [Chats -> Chat0]
      /\ \A c \in Chats : \/ chats'[c].pc = "cut" /\ chats[c].pc # "new"
                          \/ chats'[c] = chats[c] /\ chats[c].pc \in Ended \cup {"new"}
  <2> HIDE DEF Chat0
  <2> QED
    BY <1>1, <1>2
<1>4. Shape'
  <2>1. 0 \in Nat /\ <<>> \in Seq(Work) /\ <<>> \in Queues
    BY DEF Queues
  <2> QED
    BY <1>1, <1>3, <2>1 DEF CInv, Shape
<1>5. Unique'
  BY <1>1 DEF Unique
<1>6. ASSUME NEW c \in Chats
      PROVE  ChatOK(c)'
  <2>1. ~Queued(c)' /\ thread'[c] = None /\ ~Traded(c)' /\ posted'[c] = <<>>
        /\ audit'[c] = audit[c] /\ \A e : Told(c, e)' <=> Told(c, e)
    BY <1>1 DEF Queued, Traded, Work, Told
  <2>2. WorkOK(c) /\ TrailOK(c)
    BY DEF CInv, ChatOK
  <2>3. WorkOK(c)'
    BY <1>3, <2>1, <2>2, WebAssumption DEF WorkOK, Ended
  <2>4. TrailOK(c)'
    BY <1>3, <2>1, <2>2 DEF TrailOK, Ends, Ended
  <2> QED
    BY <2>3, <2>4 DEF ChatOK
<1> QED
  BY <1>4, <1>5, <1>6 DEF CInv

LEMMA InitCInv == Init => CInv
<1> SUFFICES ASSUME Init PROVE CInv
  OBVIOUS
<1>1. Shape
  BY DEF Init, Shape, NewChat, States, Queues, Work
<1>2. Unique
  BY DEF Init, Unique
<1>3. ASSUME NEW c \in Chats PROVE ChatOK(c)
  BY WebAssumption DEF Init, ChatOK, WorkOK, TrailOK, Ordered, NewChat, Queued, Traded, Work
<1> QED
  BY <1>1, <1>2, <1>3 DEF CInv

LEMMA NextCInv == CInv /\ [Next]_vars => CInv'
<1> SUFFICES ASSUME CInv, [Next]_vars PROVE CInv'
  OBVIOUS
<1>1. CASE UNCHANGED vars
  <2>1. UNCHANGED <<known, chats, audit, lost, posted, pending, thread, mine, built, trades>>
    BY <1>1 DEF vars, uploadVars, chatVars, poolVars, engineVars
  <2>2. Shape' /\ Unique'
    BY <2>1 DEF CInv, Shape, Unique
  <2>3. \A d \in Chats : Still(d)
    BY <2>1 DEF Still, Queued, Traded, Told
  <2> QED
    BY <2>2, <2>3, NoChatOK
<1>2. ASSUME NEW c \in Chats, Chat(c) \/ Handle(c) \/ Leave(c) PROVE CInv'
  BY <1>2, ChatStep, AssembleStep, AnswersStep, RelayStep, LeaveStep DEF Handle
<1>3. ASSUME NEW w \in Work, Thread(w) PROVE CInv'
  <2>1. CASE w \in Jobs /\ RunJob(w)
    BY <2>1, JobsStep
  <2>2. CASE w \in Chats /\ (EngineTest(w) \/ EngineBuild(w) \/ Announce(w)
                             \/ Trade(w) \/ TradeRefused(w) \/ Finish(w))
    BY <2>2, EngineStep, AnnounceStep, TradeStep, FinishStep
  <2> QED
    BY <1>3, <2>1, <2>2 DEF Thread
<1> QED
  BY <1>1, <1>2, <1>3, UploadStep, JobsStep, DispatchStep, RestartStep DEF Next

(* The invariant holds in every state.                                      *)
THEOREM Invariance == Spec => []CInv
BY InitCInv, NextCInv, PTL DEF Spec

(* However chats, threads, disconnections, restarts and failing writes      *)
(* interleave, a trail is in order and closed once, at its end, and what a  *)
(* session that ended lacks of its start, its end and the trades of its     *)
(* chat is what the table refused; a chat nobody asked to trade has made    *)
(* none (session.py log, server.py _kernel_stream).                         *)
THEOREM TrailsAreComplete == Spec => []TrailIsComplete
<1>1. CInv => TrailIsComplete
  <2> SUFFICES ASSUME CInv, NEW c \in Chats
               PROVE  /\ \A k \in DOMAIN audit[c] :
                           /\ audit[c][k] = "start" => k = 1
                           /\ audit[c][k] \in {"end", "error"} => k = Len(audit[c])
                      /\ chats[c].pc \in {"done", "failed"} =>
                           Told(c, "start") /\ (Told(c, "end") \/ Told(c, "error"))
                      /\ (\E t \in trades : t.by = c) =>
                           /\ chats[c].route = "kernel"
                           /\ chats[c].pc = "done" => Told(c, "trade")
    BY DEF TrailIsComplete
  <2>1. WorkOK(c) /\ TrailOK(c)
    BY DEF CInv, ChatOK
  <2>2. (\E t \in trades : t.by = c) =>
           /\ chats[c].route = "kernel"
           /\ chats[c].pc = "done" => Told(c, "trade")
    BY <2>1 DEF WorkOK, Traded
  <2> QED
    BY <2>1, <2>2 DEF TrailOK, Ordered, Ends, Closers
<1> QED
  BY <1>1, Invariance, PTL

-----------------------------------------------------------------------------
(* As long as no request has met a build under way there is at most one     *)
(* build, nothing has an engine before it, and everything that was booked   *)
(* or is about to be is in the engine it left.                              *)
OneEngine ==
    ~raced =>
       /\ \A c, d \in Chats : thread[c] = "build" /\ thread[d] = "build" => c = d
       /\ \A c \in Chats :
             /\ thread[c] = "build" => engine = None
             /\ thread[c] \in {"use", "trade"} => engine # None
             /\ thread[c] = "trade" => mine[c] = engine
       /\ \A t \in trades : t.in = engine /\ engine # None

LEMMA OneEngineStep == CInv /\ OneEngine /\ [Next]_vars => OneEngine'
<1> SUFFICES ASSUME CInv, OneEngine, [Next]_vars PROVE OneEngine'
  OBVIOUS
<1>0. /\ thread \in [Work -> Steps \cup {None}] /\ built \in Nat
      /\ mine = [w \in Work |-> mine[w]]
      /\ \A c \in Chats : c \in Work /\ c \notin Jobs
  BY WebAssumption DEF CInv, Shape, Work
<1>1. ASSUME UNCHANGED <<thread, mine, engine, raced>>, trades' = trades
      PROVE  OneEngine'
  BY <1>1 DEF OneEngine
<1>2. CASE UNCHANGED vars
  BY <1>1, <1>2 DEF vars, poolVars, engineVars
<1>3. ASSUME NEW f \in Files, Upload(f) PROVE OneEngine'
  BY <1>1, <1>3 DEF Upload, poolVars, engineVars
<1>4. ASSUME NEW c \in Chats, Chat(c) \/ Devbox(c) \/ Assemble(c) \/ InitFails(c)
                              \/ Answer(c) \/ Relay(c) \/ Leave(c)
      PROVE  OneEngine'
  BY <1>1, <1>4 DEF Chat, Devbox, Assemble, InitFails, Answer, Relay, Leave, poolVars, engineVars
<1>5. ASSUME NEW c \in Chats, CallTool(c) PROVE OneEngine'
  <2>1. trades' = trades
    BY <1>5 DEF CallTool, ToolsOf, BuildTools, Policy, WriteTools
  <2> QED
    BY <1>1, <1>5, <2>1 DEF CallTool, poolVars
<1>6. ASSUME NEW j \in Jobs, CreateJob(j) PROVE OneEngine'
  BY <1>1, <1>6 DEF CreateJob, engineVars
<1>7. ASSUME NEW j \in Jobs, RunJob(j) PROVE OneEngine'
  <2>1. \A c \in Chats : thread'[c] = thread[c]
    BY <1>0, <1>7 DEF RunJob
  <2> QED
    BY <1>7, <2>1 DEF RunJob, engineVars, OneEngine
<1>8. CASE Dispatch
  <2>1. UNCHANGED <<mine, engine, raced, trades>>
    BY <1>8 DEF Dispatch, engineVars
  <2>2. PICK w : w = Head(pending)
    OBVIOUS
  <2>3. thread' = [thread EXCEPT ![w] = IF w \in Jobs THEN "ingest" ELSE "test"]
    BY <1>8, <2>2 DEF Dispatch
  <2>4. \A c \in Chats : thread'[c] \in {thread[c], "ingest", "test"}
    BY <1>0, <2>3
  <2> QED
    BY <2>1, <2>4 DEF OneEngine
<1>9. ASSUME NEW c \in Chats, EngineTest(c) PROVE OneEngine'
  <2>1. /\ thread[c] = "test" /\ UNCHANGED <<engine, mine, trades>>
        /\ raced' = (raced \/ Building # {})
        /\ thread'[c] = (IF engine = None THEN "build" ELSE "use")
        /\ \A d \in Chats \ {c} : thread'[d] = thread[d]
    BY <1>0, <1>9 DEF EngineTest, At
  <2>2. ~raced' => ~raced /\ \A d \in Chats : thread[d] # "build"
    BY <2>1 DEF Building
  <2> QED
    BY <2>1, <2>2 DEF OneEngine
<1>10. ASSUME NEW c \in Chats, EngineBuild(c) PROVE OneEngine'
  <2>1. /\ thread[c] = "build" /\ UNCHANGED <<mine, trades, raced>>
        /\ engine' # None
        /\ thread'[c] = "use"
        /\ \A d \in Chats \ {c} : thread'[d] = thread[d]
    BY <1>0, <1>10, WebAssumption DEF EngineBuild, At
  <2>2. ~raced => /\ engine = None /\ trades = {}
                  /\ \A d \in Chats \ {c} : thread[d] \notin {"build", "use", "trade"}
    BY <2>1 DEF OneEngine
  <2> QED
    BY <2>1, <2>2 DEF OneEngine
<1>11. ASSUME NEW c \in Chats, Announce(c) PROVE OneEngine'
  <2>1. /\ thread[c] = "use" /\ UNCHANGED <<engine, trades, raced>>
        /\ \A d \in Chats \ {c} : thread'[d] = thread[d] /\ mine'[d] = mine[d]
        /\ thread'[c] \in {"trade", "finish"}
        /\ thread'[c] = "trade" => mine'[c] = engine
    BY <1>0, <1>11 DEF Announce, At
  <2> QED
    BY <2>1 DEF OneEngine
<1>12. ASSUME NEW c \in Chats, Trade(c) \/ TradeRefused(c) PROVE OneEngine'
  <2>1. /\ thread[c] = "trade" /\ UNCHANGED <<engine, raced>>
        /\ \A d \in Chats \ {c} : thread'[d] = thread[d] /\ mine'[d] = mine[d]
        /\ thread'[c] = "finish"
        /\ trades' \in {trades, trades \cup {[by |-> c, in |-> mine[c]]}}
    BY <1>0, <1>12 DEF Trade, TradeRefused, At
  <2> QED
    BY <2>1 DEF OneEngine
<1>13. ASSUME NEW c \in Chats, Finish(c) PROVE OneEngine'
  <2>1. /\ UNCHANGED <<engine, mine, trades, raced>>
        /\ \A d \in Chats \ {c} : thread'[d] = thread[d]
        /\ thread'[c] = None
    BY <1>0, <1>13 DEF Finish, At, engineVars
  <2> QED
    BY <2>1, WebAssumption DEF OneEngine
<1>14. CASE Restart
  <2>1. trades' = {} /\ \A c \in Chats : thread'[c] = None
    BY <1>0, <1>14 DEF Restart
  <2> QED
    BY <2>1, WebAssumption DEF OneEngine
<1> QED
  <2>1. ASSUME NEW w \in Work, Thread(w) PROVE OneEngine'
    BY <2>1, <1>7, <1>9, <1>10, <1>11, <1>12, <1>13 DEF Thread
  <2>2. ASSUME NEW c \in Chats, Chat(c) \/ Handle(c) \/ Leave(c) PROVE OneEngine'
    BY <2>2, <1>4, <1>5 DEF Handle
  <2> QED
    BY <2>1, <2>2, <1>2, <1>3, <1>6, <1>8, <1>14 DEF Next

(* Unless two first requests ran into each other, the engine that status,   *)
(* settlement and the next order look at has every trade this process       *)
(* booked, for any number of chats and threads (mcp_server.py engine()).    *)
THEOREM NoTradeIsLeftBehind == Spec => []TradesStay
<1>1. Init => OneEngine
  BY WebAssumption DEF Init, OneEngine, Work
<1>2. OneEngine => TradesStay
  BY DEF OneEngine, TradesStay
<1> QED
  BY <1>1, <1>2, OneEngineStep, Invariance, PTL DEF Spec

-----------------------------------------------------------------------------
(* The upload cache is the end of what this process accepted, and loses     *)
(* nothing before it is full.                                               *)
CacheInv ==
    /\ cache \in Seq(Files) /\ given \in Seq(Files)
    /\ Len(cache) <= Len(given)
    /\ Len(cache) = Len(given) \/ Len(cache) >= Capacity
    /\ \A i \in 1..Len(cache) : cache[i] = given[Len(given) - Len(cache) + i]

LEMMA RecentAreCached ==
    ASSUME CacheInv, NEW k \in DOMAIN given, k > Len(given) - Capacity
    PROVE  given[k] \in ToSet(cache)
<1> DEFINE i == k - (Len(given) - Len(cache))
<1>1. Len(cache) \in Nat /\ Len(given) \in Nat /\ k \in 1..Len(given) /\ Capacity \in Nat
      /\ DOMAIN cache = 1..Len(cache)
  BY WebAssumption DEF CacheInv
<1>2. i \in 1..Len(cache) /\ Len(given) - Len(cache) + i = k
  BY <1>1 DEF CacheInv
<1> HIDE DEF i
<1>3. cache[i] = given[k]
  BY <1>2 DEF CacheInv
<1> QED
  BY <1>1, <1>2, <1>3 DEF ToSet

LEMMA CacheStep == CacheInv /\ [Next]_vars => CacheInv'
<1> SUFFICES ASSUME CacheInv, [Next]_vars PROVE CacheInv'
  OBVIOUS
<1>1. ASSUME UNCHANGED <<cache, given>> PROVE CacheInv'
  BY <1>1 DEF CacheInv
<1>2. ASSUME NEW f \in Files, Upload(f) PROVE CacheInv'
  <2> DEFINE d == Append(cache, f)  n == Len(cache)  m == Len(given)
  <2>1. /\ n \in Nat /\ m \in Nat /\ Capacity \in Nat \ {0}
        /\ d \in Seq(Files) /\ Len(d) = n + 1 /\ d[n + 1] = f
        /\ \A i \in 1..n : d[i] = cache[i]
        /\ given' = Append(given, f)
        /\ n <= m /\ (n = m \/ n >= Capacity)
        /\ \A i \in 1..n : cache[i] = given[m - n + i]
    BY <1>2, WebAssumption DEF Upload, CacheInv
  <2>2. /\ given' \in Seq(Files) /\ Len(given') = m + 1 /\ given'[m + 1] = f
        /\ \A i \in 1..m : given'[i] = given[i]
    BY <2>1 DEF CacheInv
  <2>3. cache' = IF n + 1 > Capacity THEN Tail(d) ELSE d
    BY <1>2, <2>1 DEF Upload, Put
  <2> HIDE DEF d, n, m
  <2>4. \A i \in 1..(n + 1) : d[i] = given'[m - n + i]
    <3> TAKE i \in 1..(n + 1)
    <3>1. CASE i \in 1..n
      <4>1. m - n + i \in 1..m
        BY <2>1, <3>1
      <4> QED
        BY <2>1, <2>2, <3>1, <4>1
    <3>2. CASE i = n + 1
      <4>1. m - n + i = m + 1
        BY <2>1, <3>2
      <4> QED
        BY <2>1, <2>2, <3>2, <4>1
    <3>3. i \in 1..n \/ i = n + 1
      BY <2>1
    <3> QED
      BY <3>1, <3>2, <3>3
  <2>5. CASE n + 1 > Capacity
    <3>1. cache' = Tail(d)
      BY <2>3, <2>5
    <3>2. /\ cache' \in Seq(Files) /\ Len(cache') = n
          /\ \A i \in 1..n : cache'[i] = d[i + 1]
      BY <2>1, <3>1
    <3>3. \A i \in 1..n : cache'[i] = given'[(m + 1) - n + i]
      <4> TAKE i \in 1..n
      <4>1. i + 1 \in 1..(n + 1) /\ m - n + (i + 1) = (m + 1) - n + i
        BY <2>1
      <4> QED
        BY <2>4, <3>2, <4>1
    <3>4. n <= m + 1 /\ n >= Capacity
      BY <2>1, <2>5
    <3> QED
      BY <2>2, <3>2, <3>3, <3>4 DEF CacheInv
  <2>6. CASE ~(n + 1 > Capacity)
    <3>1. cache' = d
      BY <2>3, <2>6
    <3>2. /\ (m + 1) - (n + 1) = m - n
          /\ n + 1 <= m + 1 /\ (n + 1 = m + 1 \/ n + 1 >= Capacity)
      BY <2>1
    <3>3. cache' \in Seq(Files) /\ Len(cache') = n + 1
      BY <2>1, <3>1
    <3>4. \A i \in 1..Len(cache') : cache'[i] = given'[Len(given') - Len(cache') + i]
      BY <2>2, <2>4, <3>1, <3>2, <3>3
    <3> QED
      BY <2>2, <3>2, <3>3, <3>4 DEF CacheInv
  <2> QED
    BY <2>5, <2>6
<1>3. CASE Restart
  BY <1>3 DEF Restart, CacheInv
<1>4. CASE UNCHANGED vars
  BY <1>1, <1>4 DEF vars, uploadVars
<1>5. ASSUME NEW c \in Chats, Chat(c) \/ Handle(c) \/ Leave(c) PROVE CacheInv'
  BY <1>1, <1>5 DEF Chat, Handle, Devbox, Assemble, InitFails, CallTool, Answer, Relay, Leave,
                    uploadVars
<1>6. ASSUME NEW w \in Work, Thread(w) PROVE CacheInv'
  BY <1>1, <1>6 DEF Thread, RunJob, EngineTest, EngineBuild, Announce, Trade, TradeRefused,
                    Finish, uploadVars
<1>7. CASE Dispatch \/ \E j \in Jobs : CreateJob(j)
  BY <1>1, <1>7 DEF Dispatch, CreateJob, uploadVars
<1> QED
  BY <1>2, <1>3, <1>4, <1>5, <1>6, <1>7 DEF Next

(* Only assembling its message turns a routed chat into an agent's.         *)
LEMMA AssembledStep ==
    ASSUME CInv, CacheInv, [Next]_vars, NEW c \in Chats,
           chats[c].pc = "routed", chats'[c].pc = "agent",
           NEW k \in DOMAIN given, given[k] \in chats[c].attached, k > Len(given) - Capacity
    PROVE  given[k] \in chats'[c].got
<1>1. /\ chats = [d \in Chats |-> chats[d]]
      /\ \A d \in Chats : chats[d] \in [pc : States, route : Routes \cup {None},
                                        attached : SUBSET Files, got : SUBSET Files]
  BY DEF CInv, Shape
<1>2. ASSUME NEW d \in Chats, Assemble(d) PROVE given[k] \in chats'[c].got
  <2> DEFINE j == [chats[d] EXCEPT !.pc = "agent",
                                   !.got = chats[d].attached \cap ToSet(cache)]
  <2>1. chats' = [chats EXCEPT ![d] = j]
    BY <1>1, <1>2 DEF Assemble
  <2>2. j.got = chats[d].attached \cap ToSet(cache)
    BY <1>1
  <2> HIDE DEF j
  <2>3. CASE d = c
    BY <1>1, <2>1, <2>2, <2>3, RecentAreCached
  <2>4. CASE d # c
    BY <1>1, <2>1, <2>4
  <2> QED
    BY <2>3, <2>4
<1>3. chats'[c].pc = "routed" \/ (\E d \in Chats : Assemble(d)) \/ chats'[c].pc # "agent"
  <2>1. ASSUME NEW d \in Chats, NEW pc \in {"asked", "done", "failed", "gone"}, Goes(d, pc)
        PROVE  chats'[c].pc # "agent"
    <3> DEFINE j == [chats[d] EXCEPT !.pc = pc, !.attached = {}, !.got = {}]
    <3>1. chats' = [chats EXCEPT ![d] = j] /\ j.pc = pc
      BY <1>1, <2>1 DEF Goes
    <3> HIDE DEF j
    <3> QED
      BY <1>1, <3>1
  <2>2. ASSUME NEW d \in Chats, Chat(d) \/ Devbox(d) \/ InitFails(d) \/ CallTool(d) \/ Answer(d)
                               \/ Relay(d) \/ Leave(d)
        PROVE  chats'[c].pc # "agent"
    <3>1. CASE Chat(d)
      <4>1. PICK j : chats' = [chats EXCEPT ![d] = j] /\ j.pc \in {"kernel", "routed"}
        BY <3>1 DEF Chat
      <4> QED
        BY <1>1, <4>1
    <3>2. CASE chats' = chats
      BY <3>2
    <3> QED
      BY <2>1, <2>2, <3>1, <3>2 DEF Devbox, InitFails, CallTool, Answer, Relay, Leave
  <2>3. CASE Restart
    <3>1. chats'[c] = IF chats[c].pc \in Ended \cup {"new"} THEN chats[c]
                      ELSE Cut(chats[c])
      BY <2>3 DEF Restart
    <3>2. Cut(chats[c]).pc = "cut"
      BY <1>1 DEF Cut
    <3> QED
      BY <3>1, <3>2 DEF Ended
  <2>4. CASE chats' = chats
    BY <2>4
  <2>5. ASSUME NEW w \in Work, Thread(w) PROVE chats' = chats
    BY <2>5 DEF Thread, RunJob, EngineTest, EngineBuild, Announce, Trade, TradeRefused,
                Finish, chatVars
  <2>6. ASSUME \/ \E f \in Files : Upload(f)
               \/ \E j \in Jobs : CreateJob(j)
               \/ Dispatch
               \/ UNCHANGED vars
        PROVE  chats' = chats
    BY <2>6 DEF Upload, CreateJob, Dispatch, vars, chatVars
  <2> QED
    BY <2>2, <2>3, <2>4, <2>5, <2>6 DEF Next, Handle
<1> QED
  BY <1>2, <1>3

(* A file this process accepted reaches the agent of the chat that names    *)
(* it, unless at least Capacity files came after it, for any capacity and   *)
(* any interleaving of uploads (uploads.py put, server.py chat).            *)
THEOREM RecentAttachmentsArrive == Spec => AttachmentsArrive
<1>1. Init => CacheInv
  BY DEF Init, CacheInv
<1>2. CInv /\ CacheInv /\ [Next]_vars =>
        [\A c \in Chats :
          chats[c].pc = "routed" /\ chats'[c].pc = "agent" =>
             \A k \in DOMAIN given :
                given[k] \in chats[c].attached /\ k > Len(given) - Capacity =>
                    given[k] \in chats'[c].got]_vars
  BY AssembledStep
<1> QED
  BY <1>1, <1>2, CacheStep, Invariance, PTL DEF Spec, AttachmentsArrive

-----------------------------------------------------------------------------
(* Types: what the browsers know, and the threads at work.                  *)
JobStates == {"none", "queued", "running", "completed", "failed", "forgotten"}

PoolInv ==
    /\ \A i \in DOMAIN given : given[i] \in known
    /\ jobs \in [Jobs -> JobStates]
    /\ IsFiniteSet(Busy) /\ Cardinality(Busy) <= Workers
    /\ restarts \in 0..MaxRestarts

(* No more threads are at work if some of those at work have ended.         *)
LEMMA FewerBusy ==
    ASSUME PoolInv, NEW S \in SUBSET Busy
    PROVE  IsFiniteSet(S) /\ Cardinality(S) <= Workers
<1>1. IsFiniteSet(S) /\ Cardinality(S) <= Cardinality(Busy)
  BY FS_Subset DEF PoolInv
<1>2. Cardinality(S) \in Nat /\ Cardinality(Busy) \in Nat /\ Workers \in Nat
  BY <1>1, FS_CardinalityType, WebAssumption DEF PoolInv
<1> QED
  BY <1>1, <1>2 DEF PoolInv

LEMMA UploadPool ==
    ASSUME PoolInv, CacheInv, NEW f \in Files, Upload(f)
    PROVE  PoolInv'
<1>1. given \in Seq(Files) /\ given' = Append(given, f) /\ known' = known \cup {f}
  BY DEF Upload, CacheInv
<1>2. \A i \in DOMAIN given' : given'[i] \in known'
  <2>1. \A i \in 1..Len(given) : given[i] \in known
    BY <1>1 DEF PoolInv
  <2> QED
    BY <1>1, <2>1
<1>3. UNCHANGED <<jobs, thread, restarts>>
  BY DEF Upload, poolVars
<1> QED
  BY <1>2, <1>3 DEF PoolInv, Busy

LEMMA DispatchPool ==
    ASSUME CInv, PoolInv, Dispatch
    PROVE  PoolInv'
<1> DEFINE w == Head(pending)
<1>1. w \in Work
  BY DEF Dispatch, CInv, Shape
<1>2. /\ UNCHANGED <<given, known, restarts>>
      /\ thread' = [thread EXCEPT ![w] = IF w \in Jobs THEN "ingest" ELSE "test"]
      /\ jobs' = IF w \in Jobs THEN [jobs EXCEPT ![w] = "running"] ELSE jobs
      /\ Cardinality(Busy) < Workers
  BY DEF Dispatch, uploadVars
<1> HIDE DEF w
<1>3. jobs' \in [Jobs -> JobStates]
  BY <1>2 DEF PoolInv, JobStates
<1>4. Busy' \subseteq Busy \cup {w}
  BY <1>2 DEF Busy, CInv, Shape
<1>5. /\ IsFiniteSet(Busy \cup {w})
      /\ Cardinality(Busy \cup {w}) <= Cardinality(Busy) + 1
      /\ Cardinality(Busy) \in Nat
  <2>1. IsFiniteSet(Busy) /\ Cardinality(Busy) \in Nat
    BY FS_CardinalityType DEF PoolInv
  <2>2. /\ IsFiniteSet(Busy \cup {w})
        /\ \/ w \in Busy /\ Cardinality(Busy \cup {w}) = Cardinality(Busy)
           \/ w \notin Busy /\ Cardinality(Busy \cup {w}) = Cardinality(Busy) + 1
    BY <2>1, FS_AddElement
  <2> QED
    BY <2>1, <2>2
<1>6. IsFiniteSet(Busy') /\ Cardinality(Busy') <= Cardinality(Busy \cup {w})
  BY <1>4, <1>5, FS_Subset
<1>7. Cardinality(Busy') \in Nat /\ Cardinality(Busy \cup {w}) \in Nat /\ Workers \in Nat
  BY <1>5, <1>6, FS_CardinalityType, WebAssumption
<1>8. Cardinality(Busy') <= Workers
  BY <1>2, <1>5, <1>6, <1>7
<1> QED
  BY <1>2, <1>3, <1>6, <1>8 DEF PoolInv

LEMMA ThreadPool ==
    ASSUME CInv, PoolInv, NEW w \in Work, Thread(w)
    PROVE  PoolInv'
<1>1. /\ thread[w] # None
      /\ \E at \in Steps \cup {None} : thread' = [thread EXCEPT ![w] = at]
  BY WebAssumption DEF Thread, RunJob, EngineTest, EngineBuild, Announce, Trade, TradeRefused,
                       Finish, At, Steps
<1>2. Busy' \subseteq Busy
  BY <1>1 DEF Busy, CInv, Shape
<1>3. jobs' \in [Jobs -> JobStates]
  BY DEF Thread, RunJob, EngineTest, EngineBuild, Announce, Trade, TradeRefused, Finish,
         PoolInv, JobStates
<1>4. UNCHANGED <<given, known, restarts>>
  BY DEF Thread, RunJob, EngineTest, EngineBuild, Announce, Trade, TradeRefused, Finish,
         uploadVars
<1> QED
  BY <1>2, <1>3, <1>4, FewerBusy DEF PoolInv

LEMMA RestartPool ==
    ASSUME CInv, PoolInv, Restart
    PROVE  PoolInv'
<1>1. Busy' = {}
  BY DEF Restart, Busy
<1>2. IsFiniteSet(Busy') /\ Cardinality(Busy') = 0
  BY <1>1, FS_EmptySet
<1>3. jobs' \in [Jobs -> JobStates] /\ restarts' \in 0..MaxRestarts
  BY WebAssumption DEF Restart, PoolInv, JobStates
<1>4. given' = <<>> /\ Workers \in Nat
  BY WebAssumption DEF Restart
<1> QED
  BY <1>2, <1>3, <1>4 DEF PoolInv

LEMMA PoolStep == CInv /\ CacheInv /\ PoolInv /\ [Next]_vars => PoolInv'
<1> SUFFICES ASSUME CInv, CacheInv, PoolInv, [Next]_vars PROVE PoolInv'
  OBVIOUS
<1>1. ASSUME UNCHANGED <<given, known, jobs, thread, restarts>> PROVE PoolInv'
  BY <1>1 DEF PoolInv, Busy
<1>2. ASSUME NEW c \in Chats, Chat(c) \/ Handle(c) \/ Leave(c) PROVE PoolInv'
  BY <1>1, <1>2 DEF Chat, Handle, Devbox, Assemble, InitFails, CallTool, Answer, Relay, Leave,
                    uploadVars, poolVars
<1>3. ASSUME NEW j \in Jobs, CreateJob(j) PROVE PoolInv'
  <2>1. jobs' = [jobs EXCEPT ![j] = "queued"] /\ UNCHANGED <<given, known, thread, restarts>>
    BY <1>3 DEF CreateJob, uploadVars
  <2> QED
    BY <2>1 DEF PoolInv, JobStates, Busy
<1>4. CASE UNCHANGED vars
  BY <1>1, <1>4 DEF vars, uploadVars, poolVars
<1> QED
  BY <1>2, <1>3, <1>4, UploadPool, DispatchPool, ThreadPool, RestartPool DEF Next

LEMMA InitPool == Init => CacheInv /\ PoolInv
<1> SUFFICES ASSUME Init PROVE CacheInv /\ PoolInv
  OBVIOUS
<1>1. CacheInv
  BY DEF Init, CacheInv
<1>2. Busy = {}
  BY DEF Init, Busy
<1>3. IsFiniteSet(Busy) /\ Cardinality(Busy) = 0
  BY <1>2, FS_EmptySet
<1> QED
  BY <1>1, <1>3, WebAssumption DEF Init, PoolInv, JobStates

(* Never more threads at work than there are, no job in a state of its own, *)
(* and in the cache only what some browser was told of (web/server.py:310,  *)
(* 1688-1718, uploads.py:96-104).                                           *)
THEOREM TypeCorrect == Spec => []TypeOK
<1>1. CInv /\ CacheInv /\ PoolInv => TypeOK
  <2> SUFFICES ASSUME CInv, CacheInv, PoolInv PROVE TypeOK
    OBVIOUS
  <2>1. ToSet(given) \subseteq known
    BY DEF PoolInv, ToSet
  <2>2. ToSet(cache) \subseteq known
    <3> SUFFICES ASSUME NEW i \in DOMAIN cache PROVE cache[i] \in known
      BY DEF ToSet
    <3>1. /\ DOMAIN cache = 1..Len(cache) /\ DOMAIN given = 1..Len(given)
          /\ Len(cache) \in Nat /\ Len(given) \in Nat /\ Len(cache) <= Len(given)
          /\ cache[i] = given[Len(given) - Len(cache) + i]
      BY DEF CacheInv
    <3>2. Len(given) - Len(cache) + i \in DOMAIN given
      BY <3>1
    <3> QED
      BY <3>1, <3>2 DEF PoolInv
  <2>3. \A c \in Chats : chats[c].pc \in {"new", "routed", "agent", "asked", "kernel"} \cup Ended
    BY DEF CInv, Shape, States
  <2>4. \A j \in Jobs : jobs[j] \in JobStates
    BY DEF PoolInv
  <2> QED
    BY <2>1, <2>2, <2>3, <2>4 DEF TypeOK, PoolInv, JobStates, CInv, Shape
<1> QED
  BY <1>1, InitPool, CacheStep, PoolStep, Invariance, PTL DEF Spec

=============================================================================
