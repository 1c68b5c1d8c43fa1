----------------------------- MODULE ObjectStore -----------------------------
(***************************************************************************)
(* A financial object (objects.py) in the shared database                  *)
(* (storage/objects_store.py), promoted and evaluated by web requests of   *)
(* several server processes (web/server.py).  Reading the object, saving   *)
(* it and writing its promotion event are transactions of their own, so    *)
(* requests overlap between them and die between them.                     *)
(***************************************************************************)
EXTENDS Integers, Sequences, FiniteSets

CONSTANTS Clients,    \* requests in progress, each in a process of its own
          NoRow,      \* the object has not been created
          MaxEvents,  \* bound: rows of the promotion_events table
          MaxDeaths   \* bound: requests that die half way

ASSUME ObjectAssumption == MaxEvents \in Nat /\ MaxDeaths \in Nat

VARIABLES row,     \* the object's row: the payload last saved
          events,  \* the promotion_events table
          job,     \* what each client is in the middle of
          deaths   \* requests that died so far

vars == <<row, events, job, deaths>>

-----------------------------------------------------------------------------
States == {"draft", "lab", "paper", "live", "archived"}

AllowedTransitions ==
    [draft |-> {"lab", "archived"}, lab |-> {"paper", "archived"},
     paper |-> {"live", "archived"}, live |-> {"archived"}, archived |-> {}]

Edge == [from : States, to : States]

Legal(e) == e.to \in AllowedTransitions[e.from]

(* FO: its state, version, promotion lineage and whether an EvalSummary is  *)
(* attached.                                                                *)
Object == [state : States, version : Nat \ {0}, lineage : Seq(Edge), eval : BOOLEAN]

ASSUME NoRowAssumption == NoRow \notin Object

Hypothesis == [state |-> "draft", version |-> 1, lineage |-> <<>>, eval |-> FALSE]

(* For comparison: a promotion without lineage.                             *)
PromoteForgetsLineage(fo, to) ==
    [fo EXCEPT !.state = to, !.version = @ + 1]

(* objects.promote of an object that may go there.                          *)
Promoted(fo, to) ==
    [fo EXCEPT !.state = to, !.version = @ + 1,
               !.lineage = Append(@, [from |-> fo.state, to |-> to])]

MayPromote(fo, to) == to \in AllowedTransitions[fo.state]

-----------------------------------------------------------------------------
Idle == [pc |-> "idle", base |-> NoRow, new |-> NoRow]

TypeOK ==
    /\ row \in Object \cup {NoRow}
    /\ events \in Seq(Edge)
    /\ job \in [Clients -> [pc : {"idle", "promote", "evaluate", "audit"},
                            base : Object \cup {NoRow}, new : Object \cup {NoRow}]]
    /\ deaths \in 0..MaxDeaths

Init ==
    /\ row = NoRow
    /\ events = <<>>
    /\ job = [c \in Clients |-> Idle]
    /\ deaths = 0

(* POST /api/objects: mint a hypothesis, in draft.                          *)
Create(c) ==
    /\ job[c].pc = "idle" /\ row = NoRow
    /\ row' = Hypothesis
    /\ UNCHANGED <<events, job, deaths>>

(* ObjectStore.promote reads the object and moves its copy; an illegal      *)
(* transition is refused there and changes nothing.                         *)
GetToPromote(c, to) ==
    /\ job[c].pc = "idle" /\ row # NoRow
    /\ Len(events) < MaxEvents
    /\ MayPromote(row, to)
    /\ job' = [job EXCEPT ![c] = [pc |-> "promote", base |-> row,
                                  new |-> Promoted(row, to)]]
    /\ UNCHANGED <<row, events, deaths>>

(* For comparison: the evaluation goes to a hypothesis minted anew.         *)
EvaluateAfresh(c) ==
    /\ job[c].pc = "idle" /\ row # NoRow
    /\ job' = [job EXCEPT ![c] = [pc |-> "evaluate", base |-> row,
                                  new |-> [Hypothesis EXCEPT !.eval = TRUE]]]
    /\ UNCHANGED <<row, events, deaths>>

(* alpha_test reads the object and attaches an evaluation to its copy.      *)
GetToEvaluate(c) ==
    /\ job[c].pc = "idle" /\ row # NoRow
    /\ job' = [job EXCEPT ![c] = [pc |-> "evaluate", base |-> row,
                                  new |-> [row EXCEPT !.eval = TRUE]]]
    /\ UNCHANGED <<row, events, deaths>>

(* save: the row is replaced whole, whatever it is by now.                  *)
SavePromotion(c) ==
    /\ job[c].pc = "promote"
    /\ row' = job[c].new
    /\ job' = [job EXCEPT ![c].pc = "audit"]
    /\ UNCHANGED <<events, deaths>>

SaveEvaluation(c) ==
    /\ job[c].pc = "evaluate"
    /\ row' = job[c].new
    /\ job' = [job EXCEPT ![c] = Idle]
    /\ UNCHANGED <<events, deaths>>

LastEdge(fo) == fo.lineage[Len(fo.lineage)]

(* For comparison: a promotion without an event.                            *)
SkipAudit(c) ==
    /\ job[c].pc = "audit"
    /\ job' = [job EXCEPT ![c] = Idle]
    /\ UNCHANGED <<row, events, deaths>>

(* The promotion event, in a transaction after the save's.  The bound       *)
(* leaves room for the events of the promotions in progress.                *)
WriteEvent(c) ==
    /\ job[c].pc = "audit"
    /\ events' = Append(events, [from |-> job[c].base.state, to |-> job[c].new.state])
    /\ job' = [job EXCEPT ![c] = Idle]
    /\ UNCHANGED <<row, deaths>>

(* A request dies: its process does, the database is away, or two saves of  *)
(* the row collide and the second insert is refused.                        *)
Die(c) ==
    /\ job[c].pc # "idle"
    /\ deaths < MaxDeaths
    /\ deaths' = deaths + 1
    /\ job' = [job EXCEPT ![c] = Idle]
    /\ UNCHANGED <<row, events>>

Next ==
    \E c \in Clients :
        \/ Create(c)
        \/ \E to \in States : GetToPromote(c, to)
        \/ GetToEvaluate(c)
        \/ SavePromotion(c) \/ SaveEvaluation(c)
        \/ WriteEvent(c) \/ Die(c)

Spec == Init /\ [][Next]_vars

-----------------------------------------------------------------------------
(* Properties.                                                              *)

Edges(s) == {s[i] : i \in DOMAIN s}

(* The lineage an object carries leads by legal steps from draft to its     *)
(* state, one per version, even when requests overwrite each other          *)
(* (objects.py:177-187, objects_store.py:42-51).                            *)
LineageExplainsState ==
    row # NoRow =>
        LET n == Len(row.lineage)
        IN /\ row.version = n + 1
           /\ row.state = IF n = 0 THEN "draft" ELSE row.lineage[n].to
           /\ \A i \in 1..n :
                 /\ Legal(row.lineage[i])
                 /\ row.lineage[i].from = IF i = 1 THEN "draft" ELSE row.lineage[i - 1].to

Unwritten == {LastEdge(job[c].new) : c \in {c \in Clients : job[c].pc = "audit"}}

(* Every promotion the object went through is in the audit table or about   *)
(* to be, whichever copies overwrote each other; a request that dies        *)
(* between its save and its event costs the table that one event            *)
(* (objects_store.py:80-85).                                                *)
AuditCoversLineage ==
    row # NoRow =>
        Cardinality(Edges(row.lineage) \ (Edges(events) \cup Unwritten)) <= deaths

(* No request under way carries the archived object in another state.       *)
Buried ==
    /\ row # NoRow /\ row.state = "archived"
    /\ \A c \in Clients : job[c].pc \in {"promote", "evaluate"} => job[c].new.state = "archived"

(* An archived object comes back only through requests that read it before: *)
(* once they have saved or died it is archived for good, whatever promotes, *)
(* evaluates or dies thereafter.  objects.py:19-25 has archived as terminal *)
(* for an object in one hand; objects_store.py:75-80 saves copies.          *)
ArchivedForGood == [][Buried => Buried']_vars

=============================================================================
