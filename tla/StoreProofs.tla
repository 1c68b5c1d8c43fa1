----------------------------- MODULE StoreProofs -----------------------------
(***************************************************************************)
(* Theorems about the two tables of the shared database that overlapping   *)
(* readers and writers keep.  ObjectStore, for any number of requests,     *)
(* events and deaths: what the row promises is promised by the copies too  *)
(* that the requests hold, so whichever of them is saved last, the row     *)
(* stays explained, and of its promotions the audit table lacks no more    *)
(* than the requests that died left unwritten.  TradeCache, for any number *)
(* of callers, trades and pages: what a fetch holds, and then what the     *)
(* watermark says, is true of the moment the fetch began.                  *)
(***************************************************************************)
EXTENDS ObjectStore, TradeCache, FiniteSetTheorems, TLAPS

(* The lineage of an object leads by legal steps from draft to its state.   *)
StateAfter(lineage, i) == IF i = 0 THEN "draft" ELSE lineage[i].to

Explained(fo) ==
    /\ fo.version = Len(fo.lineage) + 1
    /\ fo.state = StateAfter(fo.lineage, Len(fo.lineage))
    /\ \A i \in 1..Len(fo.lineage) :
          /\ Legal(fo.lineage[i])
          /\ fo.lineage[i].from = StateAfter(fo.lineage, i - 1)

(* What a request makes of its copy.                                        *)
Step(c) == [from |-> job[c].base.state, to |-> job[c].new.state]

CopyOK(c) ==
    /\ job[c].base \in Object /\ Explained(job[c].base)
    /\ job[c].new \in Object /\ Explained(job[c].new)
    /\ job[c].pc = "evaluate" => /\ job[c].new.lineage = job[c].base.lineage
                                 /\ job[c].new.state = job[c].base.state
    /\ job[c].pc # "evaluate" => /\ job[c].new.lineage = Append(job[c].base.lineage, Step(c))
                                 /\ Legal(Step(c))

(* An edge is accounted for when it is in the audit table, or the request   *)
(* that saved it still has its event to write.                              *)
Accounted(e) ==
    \/ \E i \in DOMAIN events : events[i] = e
    \/ \E c \in Clients : job[c].pc = "audit" /\ LastEdge(job[c].new) = e

AllAccounted(fo, lost) ==
    \A i \in 1..Len(fo.lineage) : fo.lineage[i] \in lost \/ Accounted(fo.lineage[i])

RowInv == row # NoRow => row \in Object /\ Explained(row)
CopyInv == \A c \in Clients : job[c].pc # "idle" => CopyOK(c)

(* The edges the dead requests did not write are all the table lacks, for   *)
(* the row and for every copy a request may save over it.                   *)
AllButLost(lost) ==
    /\ row # NoRow => AllAccounted(row, lost)
    /\ \A c \in Clients : job[c].pc # "idle" => AllAccounted(job[c].base, lost)

AuditInv == \E lost : IsFiniteSet(lost) /\ Cardinality(lost) <= deaths /\ AllButLost(lost)

IInv == TypeOK /\ RowInv /\ CopyInv /\ AuditInv

-----------------------------------------------------------------------------
(* What a promotion makes of an explained object: another one, one edge and *)
(* one version longer.                                                      *)
LEMMA PromotedExplained ==
    ASSUME NEW fo \in Object, Explained(fo), NEW to \in States, MayPromote(fo, to)
    PROVE  LET new == Promoted(fo, to)
               e   == [from |-> fo.state, to |-> to]
           IN /\ new \in Object /\ Explained(new)
              /\ new.state = to
              /\ new.lineage = Append(fo.lineage, e)
              /\ Legal(e)
<1> DEFINE e == [from |-> fo.state, to |-> to]
           new == Promoted(fo, to)
           n == Len(fo.lineage)
<1>1. /\ fo.state \in States /\ fo.version \in Nat \ {0}
      /\ fo.lineage \in Seq(Edge) /\ fo.eval \in BOOLEAN
  BY DEF Object
<1>2. e \in Edge /\ Legal(e)
  BY <1>1 DEF Edge, Legal, MayPromote
<1>3. /\ new \in Object
      /\ new.state = to /\ new.version = fo.version + 1
      /\ new.lineage = Append(fo.lineage, e) /\ new.eval = fo.eval
  <2> DEFINE moved == [fo EXCEPT !.state = to]
             counted == [moved EXCEPT !.version = @ + 1]
             traced == [counted EXCEPT !.lineage = Append(@, e)]
  <2>1. /\ moved \in Object /\ moved.state = to
        /\ moved.version = fo.version /\ moved.lineage = fo.lineage /\ moved.eval = fo.eval
    BY DEF Object
  <2> HIDE DEF moved, e
  <2>2. /\ counted \in Object /\ counted.state = to
        /\ counted.version = fo.version + 1 /\ counted.lineage = fo.lineage
        /\ counted.eval = fo.eval
    BY <1>1, <2>1 DEF Object
  <2> HIDE DEF counted
  <2>3. /\ traced \in Object /\ traced.state = to
        /\ traced.version = fo.version + 1 /\ traced.lineage = Append(fo.lineage, e)
        /\ traced.eval = fo.eval
    BY SMTT(30), <1>1, <1>2, <2>2 DEF Object
  <2>4. new = traced
    BY DEF Promoted, traced, counted, moved, e
  <2> QED
    BY <2>3, <2>4
<1> HIDE DEF e, new
<1>5. /\ Len(new.lineage) = n + 1 /\ n \in Nat
      /\ new.lineage[n + 1] = e
      /\ \A i \in 1..n : new.lineage[i] = fo.lineage[i]
  BY <1>1, <1>2, <1>3
<1>6. \A i \in 0..n : StateAfter(new.lineage, i) = StateAfter(fo.lineage, i)
  BY <1>5 DEF StateAfter
<1>7. new.version = Len(new.lineage) + 1
  BY <1>3, <1>5 DEF Explained
<1>8. new.state = StateAfter(new.lineage, Len(new.lineage))
  BY <1>3, <1>5 DEF StateAfter, e
<1>9. ASSUME NEW i \in 1..Len(new.lineage)
      PROVE  Legal(new.lineage[i]) /\ new.lineage[i].from = StateAfter(new.lineage, i - 1)
  <2>1. CASE i = n + 1
    BY <1>2, <1>5, <1>6, <2>1 DEF Explained, e
  <2>2. CASE i \in 1..n
    <3>1. i - 1 \in 0..n
      BY <1>5, <2>2
    <3> QED
      BY <1>5, <1>6, <2>2, <3>1 DEF Explained
  <2> QED
    BY <1>5, <2>1, <2>2
<1>10. Explained(new)
  BY <1>7, <1>8, <1>9 DEF Explained
<1> QED
  BY <1>2, <1>3, <1>10 DEF e, new

(* An evaluation is attached without touching the lineage.                  *)
LEMMA EvaluatedExplained ==
    ASSUME NEW fo \in Object, Explained(fo)
    PROVE  LET new == [fo EXCEPT !.eval = TRUE]
           IN /\ new \in Object /\ Explained(new)
              /\ new.lineage = fo.lineage /\ new.state = fo.state
BY DEF Object, Explained

LEMMA InitIInv == Init => IInv
<1>1. IsFiniteSet({}) /\ Cardinality({}) = 0
  BY FS_EmptySet
<1>2. Init => AllButLost({})
  BY DEF Init, AllButLost, Idle
<1>3. Init => AuditInv
  BY <1>1, <1>2 DEF Init, AuditInv
<1> QED
  BY <1>3, ObjectAssumption DEF Init, IInv, TypeOK, RowInv, CopyInv, Idle

(* The edges of a copy that is saved: those of its base and, after a        *)
(* promotion, the one the request owes the audit table.                     *)
LEMMA SavedEdges ==
    ASSUME IInv, NEW c \in Clients, job[c].pc \in {"promote", "audit"}
    PROVE  LET base == job[c].base
               new  == job[c].new
           IN /\ Len(new.lineage) = Len(base.lineage) + 1
              /\ Len(base.lineage) \in Nat
              /\ LastEdge(new) = Step(c)
              /\ new.lineage[Len(base.lineage) + 1] = Step(c)
              /\ \A i \in 1..Len(base.lineage) : new.lineage[i] = base.lineage[i]
<1>1. CopyOK(c)
  BY DEF IInv, CopyInv
<1>2. /\ job[c].base.lineage \in Seq(Edge)
      /\ job[c].new.lineage = Append(job[c].base.lineage, Step(c))
      /\ Step(c) \in Edge
  BY <1>1 DEF CopyOK, Object, Step, Edge
<1> QED
  BY SMTT(30), <1>2 DEF LastEdge

(* A copy is as good as what it was taken from, and taking it owes nothing. *)
LEMMA TakeCopy ==
    ASSUME IInv, NEW c \in Clients, job[c].pc = "idle", row # NoRow,
           NEW pc \in {"promote", "evaluate"}, NEW new \in Object, Explained(new),
           IF pc = "evaluate"
             THEN new.lineage = row.lineage /\ new.state = row.state
             ELSE LET e == [from |-> row.state, to |-> new.state]
                  IN new.lineage = Append(row.lineage, e) /\ Legal(e),
           job' = [job EXCEPT ![c] = [pc |-> pc, base |-> row, new |-> new]],
           UNCHANGED <<row, events, deaths>>
    PROVE  IInv'
<1>1. /\ job'[c] = [pc |-> pc, base |-> row, new |-> new]
      /\ \A d \in Clients \ {c} : job'[d] = job[d]
      /\ row \in Object /\ Explained(row)
  BY DEF IInv, TypeOK, RowInv
<1>2. TypeOK'
  BY <1>1 DEF IInv, TypeOK
<1>3. RowInv'
  BY DEF IInv, RowInv
<1>4. ASSUME NEW d \in Clients, job'[d].pc # "idle" PROVE CopyOK(d)'
  <2>1. CASE d = c
    BY <1>1, <2>1 DEF CopyOK, Step
  <2>2. CASE d # c
    BY ZenonT(40), <1>1, <1>4, <2>2 DEF IInv, CopyInv, CopyOK, Step
  <2> QED
    BY <2>1, <2>2
<1>5. ASSUME NEW e, Accounted(e) PROVE Accounted(e)'
  <2>1. CASE \E i \in DOMAIN events : events[i] = e
    BY <2>1 DEF Accounted
  <2>2. ASSUME NEW d \in Clients, job[d].pc = "audit", LastEdge(job[d].new) = e
        PROVE  Accounted(e)'
    <3>1. job'[d] = job[d]
      BY <1>1, <2>2
    <3> QED
      BY <2>2, <3>1 DEF Accounted
  <2> QED
    BY <1>5, <2>1, <2>2 DEF Accounted
<1>6. ASSUME NEW lost, AllButLost(lost) PROVE AllButLost(lost)'
  BY <1>1, <1>5, <1>6 DEF AllButLost, AllAccounted
<1>7. AuditInv'
  BY <1>6 DEF IInv, AuditInv
<1> QED
  BY <1>2, <1>3, <1>4, <1>7 DEF IInv, CopyInv

(* A request that stops, by dying or by having nothing more to write.       *)
LEMMA DropCopy ==
    ASSUME IInv, NEW c \in Clients, job' = [job EXCEPT ![c] = Idle], row' = row
    PROVE  RowInv' /\ CopyInv' /\ job' \in [Clients -> [pc : {"idle", "promote", "evaluate", "audit"},
                            base : Object \cup {NoRow}, new : Object \cup {NoRow}]]
           /\ job'[c].pc = "idle" /\ \A d \in Clients \ {c} : job'[d] = job[d]
<1>1. /\ job'[c] = Idle
      /\ \A d \in Clients \ {c} : job'[d] = job[d]
      /\ Idle.pc = "idle"
  BY DEF IInv, TypeOK, Idle
<1>2. ASSUME NEW d \in Clients, job'[d].pc # "idle" PROVE CopyOK(d)'
  BY <1>1, <1>2 DEF IInv, CopyInv, CopyOK, Step
<1> QED
  BY <1>1, <1>2 DEF IInv, TypeOK, RowInv, CopyInv, Idle

LEMMA NextIInv == IInv /\ [Next]_vars => IInv'
<1> SUFFICES ASSUME IInv, [Next]_vars PROVE IInv'
  OBVIOUS
<1>0. PICK lost : IsFiniteSet(lost) /\ Cardinality(lost) <= deaths /\ AllButLost(lost)
  BY DEF IInv, AuditInv
<1>1. ASSUME NEW c \in Clients, Create(c) PROVE IInv'
  <2>1. Hypothesis \in Object /\ Explained(Hypothesis) /\ AllAccounted(Hypothesis, lost)
    BY DEF Hypothesis, Object, States, Explained, StateAfter, AllAccounted
  <2>2. TypeOK' /\ RowInv'
    BY <1>1, <2>1 DEF Create, IInv, TypeOK, RowInv
  <2>3. CopyInv'
    BY <1>1 DEF Create, IInv, CopyInv, CopyOK, Step
  <2>4. ASSUME NEW e PROVE Accounted(e)' = Accounted(e)
    BY <1>1 DEF Create, Accounted
  <2>5. AuditInv'
    <3>1. AllAccounted(row, lost)'
      BY <1>1 DEF Create, Hypothesis, AllAccounted
    <3>2. AllButLost(lost)'
      BY <1>0, <1>1, <2>4, <3>1 DEF Create, AllButLost, AllAccounted
    <3> QED
      BY <1>0, <1>1, <3>2 DEF Create, AuditInv
  <2> QED
    BY <2>2, <2>3, <2>5 DEF IInv
<1>2. ASSUME NEW c \in Clients, NEW to \in States, GetToPromote(c, to) PROVE IInv'
  <2>1. row \in Object /\ Explained(row)
    BY <1>2 DEF GetToPromote, IInv, RowInv
  <2> DEFINE new == Promoted(row, to)
  <2>2. /\ new \in Object /\ Explained(new)
        /\ LET e == [from |-> row.state, to |-> new.state]
           IN new.lineage = Append(row.lineage, e) /\ Legal(e)
    <3>1. MayPromote(row, to)
      BY <1>2 DEF GetToPromote
    <3> QED
      BY ZenonT(40), <2>1, <3>1, PromotedExplained
  <2>3. job' = [job EXCEPT ![c] = [pc |-> "promote", base |-> row, new |-> new]]
    BY <1>2 DEF GetToPromote
  <2> HIDE DEF new
  <2> QED
    BY <1>2, <2>2, <2>3, TakeCopy DEF GetToPromote
<1>3. ASSUME NEW c \in Clients, GetToEvaluate(c) PROVE IInv'
  <2>1. row \in Object /\ Explained(row)
    BY <1>3 DEF GetToEvaluate, IInv, RowInv
  <2> DEFINE new == [row EXCEPT !.eval = TRUE]
  <2>2. new \in Object /\ Explained(new) /\ new.lineage = row.lineage /\ new.state = row.state
    BY <2>1, EvaluatedExplained
  <2>3. job' = [job EXCEPT ![c] = [pc |-> "evaluate", base |-> row, new |-> new]]
    BY <1>3 DEF GetToEvaluate
  <2> HIDE DEF new
  <2> QED
    BY <1>3, <2>2, <2>3, TakeCopy DEF GetToEvaluate
<1>4. ASSUME NEW c \in Clients, SavePromotion(c) PROVE IInv'
  <2>1. /\ job'[c].pc = "audit" /\ job'[c].base = job[c].base /\ job'[c].new = job[c].new
        /\ \A d \in Clients \ {c} : job'[d] = job[d]
        /\ job[c].pc = "promote" /\ row' = job[c].new
        /\ UNCHANGED <<events, deaths>>
    BY <1>4 DEF SavePromotion, IInv, TypeOK
  <2>2. CopyOK(c)
    BY <2>1 DEF IInv, CopyInv
  <2>3. TypeOK' /\ RowInv'
    BY <1>4, <2>1, <2>2 DEF SavePromotion, IInv, TypeOK, RowInv, CopyOK
  <2>4. ASSUME NEW d \in Clients, job'[d].pc # "idle" PROVE CopyOK(d)'
    <3>1. CASE d = c
      BY <2>1, <2>2, <3>1 DEF CopyOK, Step
    <3>2. CASE d # c
      BY <2>1, <2>4, <3>2 DEF IInv, CopyInv, CopyOK, Step
    <3> QED
      BY <3>1, <3>2
  <2>5. ASSUME NEW e, Accounted(e) \/ e = Step(c) PROVE Accounted(e)'
    <3>1. LastEdge(job[c].new) = Step(c)
      BY <2>1, SavedEdges
    <3>2. CASE e = Step(c)
      BY <2>1, <3>1, <3>2 DEF Accounted, LastEdge
    <3>3. CASE \E i \in DOMAIN events : events[i] = e
      BY <2>1, <3>3 DEF Accounted
    <3>4. ASSUME NEW d \in Clients, job[d].pc = "audit", LastEdge(job[d].new) = e
          PROVE  Accounted(e)'
      <4>1. job'[d] = job[d]
        BY <2>1, <3>4
      <4> QED
        BY <3>4, <4>1 DEF Accounted, LastEdge
    <3> QED
      BY <2>5, <3>2, <3>3, <3>4 DEF Accounted
  <2>6. AllAccounted(row, lost)'
    <3>1. SUFFICES ASSUME NEW i \in 1..Len(job[c].new.lineage)
                   PROVE  job[c].new.lineage[i] \in lost \/ Accounted(job[c].new.lineage[i])'
      BY <2>1 DEF AllAccounted
    <3>2. CASE i = Len(job[c].base.lineage) + 1
      BY <2>1, <2>5, <3>2, SavedEdges
    <3>3. CASE i # Len(job[c].base.lineage) + 1
      <4>1. i \in 1..Len(job[c].base.lineage) /\ job[c].new.lineage[i] = job[c].base.lineage[i]
        BY <2>1, <3>3, SavedEdges
      <4>2. job[c].base.lineage[i] \in lost \/ Accounted(job[c].base.lineage[i])
        BY <1>0, <2>1, <4>1 DEF AllButLost, AllAccounted
      <4> QED
        BY <2>1, <2>5, <4>1, <4>2
    <3> QED
      BY <3>2, <3>3
  <2>7. ASSUME NEW d \in Clients, job'[d].pc # "idle"
        PROVE  AllAccounted(job[d].base, lost)'
    <3>1. AllAccounted(job[d].base, lost) /\ job'[d].base = job[d].base
      BY <1>0, <2>1, <2>7 DEF AllButLost
    <3> QED
      BY <2>5, <3>1 DEF AllAccounted
  <2> QED
    BY <1>0, <2>1, <2>3, <2>4, <2>6, <2>7 DEF IInv, CopyInv, AuditInv, AllButLost
<1>5. ASSUME NEW c \in Clients, SaveEvaluation(c) PROVE IInv'
  <2>1. /\ job[c].pc = "evaluate" /\ row' = job[c].new
        /\ job' = [job EXCEPT ![c] = Idle] /\ UNCHANGED <<events, deaths>>
    BY <1>5 DEF SaveEvaluation
  <2>2. CopyOK(c)
    BY <2>1 DEF IInv, CopyInv
  <2>3. /\ job'[c].pc = "idle"
        /\ \A d \in Clients \ {c} : job'[d] = job[d]
    BY <2>1 DEF IInv, TypeOK, Idle
  <2>4. TypeOK' /\ RowInv'
    BY <2>1, <2>2 DEF IInv, TypeOK, RowInv, CopyOK, Idle
  <2>5. ASSUME NEW d \in Clients, job'[d].pc # "idle" PROVE CopyOK(d)'
    BY <2>3, <2>5 DEF IInv, CopyInv, CopyOK, Step
  <2>6. ASSUME NEW e, Accounted(e) PROVE Accounted(e)'
    BY <2>1, <2>3, <2>6 DEF Accounted, LastEdge
  <2>7. AllAccounted(job[c].base, lost) /\ job[c].new.lineage = job[c].base.lineage
    BY <1>0, <2>1, <2>2 DEF AllButLost, CopyOK
  <2>8. AllAccounted(row, lost)'
    BY <2>1, <2>6, <2>7 DEF AllAccounted
  <2>9. ASSUME NEW d \in Clients, job'[d].pc # "idle"
        PROVE  AllAccounted(job[d].base, lost)'
    <3>1. AllAccounted(job[d].base, lost) /\ job'[d] = job[d]
      BY <1>0, <2>3, <2>9 DEF AllButLost
    <3> QED
      BY <2>6, <3>1 DEF AllAccounted
  <2> QED
    BY <1>0, <2>1, <2>4, <2>5, <2>8, <2>9 DEF IInv, CopyInv, AuditInv, AllButLost
<1>6. ASSUME NEW c \in Clients, WriteEvent(c) PROVE IInv'
  <2> DEFINE written == Step(c)
  <2>1. /\ job[c].pc = "audit" /\ events' = Append(events, written)
        /\ job' = [job EXCEPT ![c] = Idle] /\ UNCHANGED <<row, deaths>>
    BY <1>6 DEF WriteEvent, Step
  <2>2. CopyOK(c) /\ written \in Edge
    BY <2>1 DEF IInv, CopyInv, CopyOK, Object, Edge, Step
  <2>3. LastEdge(job[c].new) = written
    BY <2>1, SavedEdges
  <2> HIDE DEF written
  <2>4. /\ RowInv' /\ CopyInv'
        /\ job'[c].pc = "idle" /\ \A d \in Clients \ {c} : job'[d] = job[d]
        /\ job' \in [Clients -> [pc : {"idle", "promote", "evaluate", "audit"},
                                 base : Object \cup {NoRow}, new : Object \cup {NoRow}]]
    BY <2>1, DropCopy
  <2>5. /\ events' \in Seq(Edge)
        /\ DOMAIN events' = 1..Len(events) + 1 /\ DOMAIN events = 1..Len(events)
        /\ Len(events) \in Nat
        /\ events'[Len(events) + 1] = written
        /\ \A i \in DOMAIN events : events'[i] = events[i]
    BY <2>1, <2>2 DEF IInv, TypeOK
  <2>6. TypeOK'
    BY <2>1, <2>4, <2>5 DEF IInv, TypeOK
  <2>7. ASSUME NEW e, Accounted(e) PROVE Accounted(e)'
    <3>1. CASE \E i \in DOMAIN events : events[i] = e
      BY <2>5, <3>1 DEF Accounted
    <3>2. ASSUME NEW d \in Clients, job[d].pc = "audit", LastEdge(job[d].new) = e
          PROVE  Accounted(e)'
      <4>1. CASE d = c
        BY <2>3, <2>5, <3>2, <4>1 DEF Accounted
      <4>2. CASE d # c
        BY <2>4, <3>2, <4>2 DEF Accounted, LastEdge
      <4> QED
        BY <4>1, <4>2
    <3> QED
      BY <2>7, <3>1, <3>2 DEF Accounted
  <2>8. ASSUME NEW d \in Clients, job'[d].pc # "idle"
        PROVE  AllAccounted(job[d].base, lost)'
    <3>1. AllAccounted(job[d].base, lost) /\ job'[d] = job[d]
      BY <1>0, <2>4, <2>8 DEF AllButLost
    <3> QED
      BY <2>7, <3>1 DEF AllAccounted
  <2>9. row # NoRow => AllAccounted(row, lost)'
    BY <1>0, <2>1, <2>7 DEF AllButLost, AllAccounted
  <2> QED
    BY <1>0, <2>1, <2>4, <2>6, <2>8, <2>9 DEF IInv, AuditInv, AllButLost
<1>7. ASSUME NEW c \in Clients, Die(c) PROVE IInv'
  <2>1. RowInv' /\ CopyInv'
        /\ job' \in [Clients -> [pc : {"idle", "promote", "evaluate", "audit"},
                                 base : Object \cup {NoRow}, new : Object \cup {NoRow}]]
    BY <1>7, DropCopy DEF Die
  <2>2. /\ deaths' = deaths + 1 /\ deaths' \in 0..MaxDeaths /\ deaths \in Nat
        /\ UNCHANGED <<row, events>>
    BY <1>7, ObjectAssumption DEF Die, IInv, TypeOK
  <2>3. job'[c].pc = "idle" /\ \A d \in Clients \ {c} : job'[d] = job[d]
    BY <1>7, DropCopy DEF Die
  <2>4. PICK more : more = lost \cup {LastEdge(job[c].new)}
    OBVIOUS
  <2>5. IsFiniteSet(more) /\ Cardinality(more) <= deaths'
    <3>1. /\ IsFiniteSet(more) /\ Cardinality(lost) \in Nat
          /\ Cardinality(more) = Cardinality(lost) \/ Cardinality(more) = Cardinality(lost) + 1
      BY <1>0, <2>4, FS_AddElement, FS_CardinalityType
    <3> QED
      BY <1>0, <2>2, <3>1
  <2>6. ASSUME NEW e, e \in lost \/ Accounted(e) PROVE e \in more \/ Accounted(e)'
    <3>1. CASE \E i \in DOMAIN events : events[i] = e
      BY <2>2, <3>1 DEF Accounted
    <3>2. ASSUME NEW d \in Clients, job[d].pc = "audit", LastEdge(job[d].new) = e
          PROVE  e \in more \/ Accounted(e)'
      <4>1. CASE d = c
        BY <2>4, <3>2, <4>1
      <4>2. CASE d # c
        <5>1. job'[d] = job[d]
          BY <2>3, <4>2
        <5> QED
          BY <3>2, <5>1 DEF Accounted, LastEdge
      <4> QED
        BY <4>1, <4>2
    <3> QED
      BY <2>4, <2>6, <3>1, <3>2 DEF Accounted
  <2>7. AllButLost(more)'
    <3>1. row # NoRow => AllAccounted(row, more)'
      BY <1>0, <2>2, <2>6 DEF AllButLost, AllAccounted
    <3>2. ASSUME NEW d \in Clients, job'[d].pc # "idle"
          PROVE  AllAccounted(job[d].base, more)'
      <4>1. AllAccounted(job[d].base, lost) /\ job'[d] = job[d]
        BY <1>0, <2>3, <3>2 DEF AllButLost
      <4> QED
        BY <2>6, <4>1 DEF AllAccounted
    <3> QED
      BY <2>2, <3>1, <3>2 DEF AllButLost
  <2>8. AuditInv'
    BY <2>5, <2>7 DEF AuditInv
  <2>9. TypeOK'
    BY <2>1, <2>2 DEF IInv, TypeOK
  <2> QED
    BY <2>1, <2>8, <2>9 DEF IInv
<1>8. CASE UNCHANGED vars
  <2>1. AllButLost(lost)'
    BY <1>0, <1>8 DEF vars, AllButLost, AllAccounted, Accounted, LastEdge
  <2>2. AuditInv'
    BY <1>0, <1>8, <2>1 DEF vars, AuditInv
  <2> QED
    BY <1>8, <2>2 DEF vars, IInv, TypeOK, RowInv, CopyInv, CopyOK, Step
<1> QED
  BY <1>1, <1>2, <1>3, <1>4, <1>5, <1>6, <1>7, <1>8 DEF Next

-----------------------------------------------------------------------------
(* Rows, copies and events are always of the shape the code gives them.     *)
THEOREM TypeCorrect == Spec => []TypeOK
<1>1. IInv => TypeOK
  BY DEF IInv
<1> QED
  BY <1>1, InitIInv, NextIInv, PTL DEF Spec

(* For any number of overlapping and dying requests, the lineage in the row *)
(* leads by legal steps to the state in the row, one per version            *)
(* (objects.py:177-187, objects_store.py:42-51).                            *)
THEOREM LineageAlwaysExplains == Spec => []LineageExplainsState
<1>1. IInv => LineageExplainsState
  <2> SUFFICES ASSUME IInv, row # NoRow
               PROVE  LET n == Len(row.lineage)
                      IN /\ row.version = n + 1
                         /\ row.state = IF n = 0 THEN "draft" ELSE row.lineage[n].to
                         /\ \A i \in 1..n :
                               /\ Legal(row.lineage[i])
                               /\ row.lineage[i].from
                                    = IF i = 1 THEN "draft" ELSE row.lineage[i - 1].to
    BY DEF LineageExplainsState
  <2>1. Explained(row) /\ Len(row.lineage) \in Nat
    BY DEF IInv, RowInv, Object
  <2> QED
    BY <2>1 DEF Explained, StateAfter
<1> QED
  BY <1>1, InitIInv, NextIInv, PTL DEF Spec

(* Nothing leads out of archived, so what is read of a buried object, and   *)
(* what such a request saves, is archived too.                              *)
LEMMA BuriedStays ==
    ASSUME IInv, Buried, [Next]_vars
    PROVE  Buried'
<1> DEFINE Carries(c) == job[c].pc \in {"promote", "evaluate"}
<1>1. /\ row \in Object /\ row.state = "archived" /\ NoRow \notin Object
      /\ \A c \in Clients : Carries(c) => job[c].new \in Object /\ job[c].new.state = "archived"
      /\ \A c \in Clients : Carries(c) => job[c].pc # "idle"
      /\ job \in [Clients -> [pc : {"idle", "promote", "evaluate", "audit"},
                             base : Object \cup {NoRow}, new : Object \cup {NoRow}]]
  BY NoRowAssumption DEF IInv, TypeOK, RowInv, CopyInv, CopyOK, Buried
<1>2. AllowedTransitions["archived"] = {}
  BY DEF AllowedTransitions
<1>3. ASSUME row' = row \/ \E c \in Clients : Carries(c) /\ row' = job[c].new
      PROVE  row' # NoRow /\ row'.state = "archived"
  BY <1>1, <1>3
<1>4. ASSUME NEW c \in Clients,
             job'[c].pc \notin {"promote", "evaluate"} \/ job'[c].new.state = "archived",
             \A d \in Clients \ {c} : job'[d] = job[d]
      PROVE  \A d \in Clients : job'[d].pc \in {"promote", "evaluate"} => job'[d].new.state = "archived"
  BY <1>1, <1>4
<1>5. ASSUME NEW c \in Clients, NEW to \in States, GetToPromote(c, to)
      PROVE  FALSE
  BY <1>1, <1>2, <1>5 DEF GetToPromote, MayPromote
<1>6. ASSUME NEW c \in Clients, GetToEvaluate(c)
      PROVE  Buried'
  <2> DEFINE j == [pc |-> "evaluate", base |-> row, new |-> [row EXCEPT !.eval = TRUE]]
  <2>1. job' = [job EXCEPT ![c] = j] /\ row' = row
    BY <1>6 DEF GetToEvaluate
  <2>2. j.new.state = "archived"
    BY <1>1 DEF Object
  <2> HIDE DEF j
  <2> QED
    BY <1>1, <1>3, <1>4, <2>1, <2>2 DEF Buried
<1>7. ASSUME NEW c \in Clients, SavePromotion(c) \/ SaveEvaluation(c)
      PROVE  Buried'
  <2>1. Carries(c) /\ row' = job[c].new /\ \A d \in Clients \ {c} : job'[d] = job[d]
    BY <1>1, <1>7 DEF SavePromotion, SaveEvaluation
  <2>2. job'[c].pc \notin {"promote", "evaluate"}
    BY <1>1, <1>7 DEF SavePromotion, SaveEvaluation, Idle
  <2> QED
    BY <1>3, <1>4, <2>1, <2>2 DEF Buried
<1>8. ASSUME NEW c \in Clients, WriteEvent(c) \/ Die(c)
      PROVE  Buried'
  <2>1. row' = row /\ job' = [job EXCEPT ![c] = Idle]
    BY <1>8 DEF WriteEvent, Die
  <2> QED
    BY <1>1, <1>3, <1>4, <2>1 DEF Buried, Idle
<1>9. ASSUME NEW c \in Clients, Create(c)
      PROVE  FALSE
  BY <1>1, <1>9 DEF Create
<1>10. CASE UNCHANGED vars
  BY <1>10 DEF vars, Buried
<1> QED
  BY <1>5, <1>6, <1>7, <1>8, <1>9, <1>10 DEF Next

(* However requests overlap and die, once no request under way carries the  *)
(* archived object in another state it is archived for good                 *)
(* (objects.py:19-25, objects_store.py:75-80).                              *)
THEOREM ArchivedIsForGood == Spec => ArchivedForGood
<1>1. IInv /\ [Next]_vars => [Buried => Buried']_vars
  BY BuriedStays
<1> QED
  BY <1>1, InitIInv, NextIInv, PTL DEF Spec, ArchivedForGood

(* Whichever stale copies overwrote the row, the promotions its lineage     *)
(* tells are in the audit table or about to be written by the requests that *)
(* saved them, but for at most one per request that died                    *)
(* (objects_store.py:80-85).                                                *)
THEOREM AuditAlwaysCovers == Spec => []AuditCoversLineage
<1>1. IInv => AuditCoversLineage
  <2> SUFFICES ASSUME IInv, row # NoRow
               PROVE  Cardinality(Edges(row.lineage) \ (Edges(events) \cup Unwritten)) <= deaths
    BY DEF AuditCoversLineage
  <2>1. PICK lost : IsFiniteSet(lost) /\ Cardinality(lost) <= deaths /\ AllButLost(lost)
    BY DEF IInv, AuditInv
  <2> DEFINE missing == Edges(row.lineage) \ (Edges(events) \cup Unwritten)
  <2>2. ASSUME NEW i \in DOMAIN row.lineage, row.lineage[i] \notin lost
        PROVE  row.lineage[i] \in Edges(events) \cup Unwritten
    <3>1. Accounted(row.lineage[i])
      BY <2>1, <2>2 DEF IInv, RowInv, Object, AllButLost, AllAccounted
    <3> QED
      BY <3>1 DEF Accounted, Edges, Unwritten
  <2>3. missing \subseteq lost
    BY <2>2 DEF Edges
  <2> HIDE DEF missing
  <2>4. Cardinality(missing) <= Cardinality(lost) /\ Cardinality(missing) \in Nat
        /\ Cardinality(lost) \in Nat
    BY <2>1, <2>3, FS_Subset, FS_CardinalityType
  <2>5. deaths \in Int
    BY DEF IInv, TypeOK
  <2> QED
    BY <2>1, <2>4, <2>5 DEF missing
<1> QED
  BY <1>1, InitIInv, NextIInv, PTL DEF Spec

-----------------------------------------------------------------------------
(* TradeCache.                                                              *)

Places == {"paging", "inserting", "marking", "writing", "answering"}

Coverages == [from : Windows \cup {Never}, since : 0..Len(time)]

CallInProgress ==
    [at : Places, covered : 0..Len(time), from : Windows, began : 0..Len(time),
     offset : Nat, pages : Nat, out : SUBSET Trades, seen : Coverages]

(* Trades happen in the order of their numbers, and not in the future.      *)
TimeInv ==
    /\ time \in Seq(Nat) /\ now \in Nat
    /\ \A i, j \in Trades : i <= j => time[i] <= time[j]
    /\ \A i \in Trades : time[i] <= now

CallsTyped ==
    /\ cache \subseteq Trades
    /\ coverage \in Coverages
    /\ caller \in [Callers -> CallInProgress \cup {NoCall}]
    /\ \A c \in Callers : caller[c].at \in {"paging", "inserting", "marking", "writing"}
                             => caller[c].covered = caller[c].began
    /\ answer \in [Callers -> [from : Nat, began : 0..Len(time), covered : 0..Len(time),
                                trades : SUBSET Trades]]
    /\ failures \in Nat

Sound == failures = 0 /\ ~capped

(* Whatever is said to be covered is in the cache.                          *)
Holds(cov) == cov.from # Never => Window(cov.from, cov.since) \subseteq cache

(* While it pages, a fetch holds what is newer than its offset: trades that *)
(* are published meanwhile move the pages towards what it has.              *)
FetchInv(c) ==
    /\ caller[c].at = "paging" =>
          {i \in 1..caller[c].began : i > Len(time) - caller[c].offset} \subseteq caller[c].out
    /\ caller[c].at = "inserting" => Window(caller[c].from, caller[c].began) \subseteq caller[c].out
    /\ caller[c].at \in {"marking", "writing", "answering"} =>
          Window(caller[c].from, caller[c].covered) \subseteq cache
    /\ caller[c].at = "writing" => Holds(caller[c].seen)

AnswerInv(c) == Window(answer[c].from, answer[c].covered) \subseteq answer[c].trades

TradeInv ==
    /\ TimeInv /\ CallsTyped
    /\ Sound => Holds(coverage) /\ \A c \in Callers : FetchInv(c) /\ AnswerInv(c)

(* A page that ends a fetch leaves out nothing of the window: it is full    *)
(* and older trades are no newer than its last one, or there are none.      *)
LEMMA LastPageReaches ==
    ASSUME TimeInv, NEW offset \in Nat, NEW from \in Nat,
           \/ Page(offset) = {} \/ ReachesBelow(Page(offset), from)
           \/ Cardinality(Page(offset)) < PageSize,
           NEW i \in Trades, time[i] >= from, i <= Len(time) - offset
    PROVE  i \in Page(offset)
<1> DEFINE n == Len(time)
           last == n - offset - PageSize + 1
<1>1. PageSize \in Nat \ {0} /\ n \in Nat /\ i \in 1..n
  BY TradeCacheAssumption DEF TimeInv, Trades
<1> SUFFICES ASSUME i < last PROVE FALSE
  BY <1>1 DEF Page
<1>2. Page(offset) = last..(n - offset)
  BY <1>1 DEF Page, Trades
<1>3. last \in Page(offset) /\ \A k \in Page(offset) : last <= k
  BY <1>1, <1>2
<1>4. Cardinality(Page(offset)) = PageSize
  <2>1. last \in Int /\ n - offset \in Int
    BY <1>1
  <2>2. Cardinality(last..(n - offset))
           = IF last > n - offset THEN 0 ELSE (n - offset) - last + 1
    BY <2>1, FS_Interval
  <2> QED
    BY <1>1, <1>2, <2>2
<1>5. Min(Page(offset)) = last
  <2>1. Page(offset) \subseteq Int
    BY DEF Page, Trades
  <2>2. ASSUME NEW m \in Page(offset), \A k \in Page(offset) : m <= k PROVE m = last
    <3>1. m <= last /\ last <= m /\ m \in Int /\ last \in Int
      BY <1>3, <2>1, <2>2
    <3> QED
      BY <3>1
  <2> HIDE DEF last
  <2> QED
    BY <1>3, <2>2 DEF Min
<1>6. time[i] <= time[last]
  BY <1>1, <1>2, <1>3 DEF TimeInv, Trades
<1>7. time[last] < from
  BY <1>1, <1>3, <1>4, <1>5 DEF ReachesBelow
<1>8. time[i] \in Nat /\ time[last] \in Nat
  <2>1. last \in 1..n /\ i \in 1..n
    BY <1>1, <1>3 DEF Page, Trades
  <2> HIDE DEF last
  <2> QED
    BY SMTT(30), <2>1 DEF TimeInv
<1> HIDE DEF last
<1> QED
  BY <1>6, <1>7, <1>8

LEMMA TradeInitInv == TradeInit => TradeInv
<1> SUFFICES ASSUME TradeInit PROVE TradeInv
  OBVIOUS
<1>1. TimeInv
  BY DEF TradeInit, TimeInv, Trades
<1>2. CallsTyped
  BY DEF TradeInit, CallsTyped, Coverages, Places, Trades, NoCall, NoAnswer, NoCoverage
<1>3. Holds(coverage) /\ \A c \in Callers : FetchInv(c) /\ AnswerInv(c)
  BY DEF TradeInit, Holds, FetchInv, AnswerInv, Window, NoCall, NoAnswer, NoCoverage
<1> QED
  BY <1>1, <1>2, <1>3 DEF TradeInv

(* What other calls do leaves what a caller relies on as it was: the cache  *)
(* only grows, and trades keep their times.                                 *)
LEMMA OthersKeepFetch ==
    ASSUME TradeInv, Sound, NEW c \in Callers,
           caller'[c] = caller[c], cache \subseteq cache', time' = time
    PROVE  FetchInv(c)'
BY DEF TradeInv, FetchInv, Window, Holds

LEMMA OthersKeepAnswer ==
    ASSUME TradeInv, Sound, NEW c \in Callers, answer'[c] = answer[c], time' = time
    PROVE  AnswerInv(c)'
BY DEF TradeInv, AnswerInv, Window

-----------------------------------------------------------------------------
(* What the steps keep, one action at a time: the types first.              *)

LEMMA PublishKeeps == TradeInv /\ Publish => TradeInv'
<1> SUFFICES ASSUME TradeInv, Publish PROVE TradeInv'
  OBVIOUS
<1> DEFINE n == Len(time)
<1>1. /\ time \in Seq(Nat) /\ now \in Nat /\ n \in Nat
      /\ time' = Append(time, now) /\ Len(time') = n + 1
      /\ \A i \in 1..n : time'[i] = time[i] /\ time[i] \in Nat
      /\ time'[n + 1] = now
  BY DEF TradeInv, TimeInv, Publish
<1>2. UNCHANGED <<now, cache, coverage, caller, answer, failures, capped>>
  BY DEF Publish
<1> HIDE DEF n
<1>3. TimeInv'
  <2>1. time' \in Seq(Nat) /\ now' \in Nat
    BY <1>1, <1>2
  <2>2. ASSUME NEW i \in 1..(n + 1) PROVE time'[i] <= now'
    <3>1. i \in 1..n \/ i = n + 1
      BY <1>1
    <3> QED
      BY <3>1, <1>1, <1>2 DEF TradeInv, TimeInv, Trades, n
  <2>3. ASSUME NEW i \in 1..(n + 1), NEW j \in 1..(n + 1), i <= j PROVE time'[i] <= time'[j]
    <3>1. CASE j = n + 1
      BY <3>1, <2>2, <1>1, <1>2
    <3>2. CASE i \in 1..n /\ j \in 1..n
      BY <3>2, <2>3, <1>1 DEF TradeInv, TimeInv, Trades, n
    <3> QED
      BY <3>1, <3>2, <2>3, <1>1
  <2> QED
    BY <1>1, <2>1, <2>2, <2>3 DEF TimeInv, Trades
<1>4. CallsTyped'
  <2>1. /\ Trades \subseteq Trades' /\ 0..n \subseteq 0..Len(time') /\ Coverages \subseteq Coverages'
    BY <1>1 DEF Trades, Coverages, n
  <2>2. CallInProgress \subseteq CallInProgress'
    BY <2>1 DEF CallInProgress, n
  <2> QED
    BY <1>2, <2>1, <2>2 DEF TradeInv, CallsTyped, n
<1>5. ASSUME Sound' PROVE Holds(coverage)' /\ \A c \in Callers : (FetchInv(c) /\ AnswerInv(c))'
  <2>1. Sound /\ Holds(coverage) /\ \A c \in Callers : FetchInv(c) /\ AnswerInv(c)
    BY <1>2, <1>5 DEF TradeInv, Sound
  <2>2. ASSUME NEW from, NEW k \in 0..n PROVE {i \in 1..k : time'[i] >= from} = Window(from, k)
    BY <1>1 DEF Window
  <2>3. Holds(coverage)'
    BY <1>1, <1>2, <2>1 DEF Holds, Window, TradeInv, CallsTyped, Coverages, n
  <2>4. ASSUME NEW c \in Callers PROVE FetchInv(c)'
    <3>1. CASE caller[c] = NoCall
      BY <1>2, <3>1 DEF FetchInv, NoCall
    <3>2. CASE caller[c] \in CallInProgress
      <4>1. /\ caller[c].began \in 0..n /\ caller[c].covered \in 0..n
            /\ caller[c].offset \in Nat /\ caller[c].seen.since \in 0..n
        BY <3>2 DEF CallInProgress, Coverages, n
      <4>2. caller[c].at = "paging" => FetchInv(c)'
        BY SMTT(30), <1>1, <1>2, <2>1, <4>1 DEF FetchInv, n
      <4>3. caller[c].at # "paging" => FetchInv(c)'
        <5>1. Window(caller[c].from, caller[c].began)' = Window(caller[c].from, caller[c].began)
          BY <1>1, <1>2, <4>1 DEF Window
        <5>2. Window(caller[c].from, caller[c].covered)' = Window(caller[c].from, caller[c].covered)
          BY <1>1, <1>2, <4>1 DEF Window
        <5>3. Holds(caller[c].seen)' <=> Holds(caller[c].seen)
          BY SMTT(30), <1>1, <1>2, <4>1 DEF Holds, Window
        <5> QED
          BY <1>2, <2>1, <5>1, <5>2, <5>3 DEF FetchInv
      <4> QED
        BY <4>2, <4>3
    <3> QED
      BY <3>1, <3>2 DEF TradeInv, CallsTyped
  <2>5. ASSUME NEW c \in Callers PROVE AnswerInv(c)'
    <3>1. answer[c].covered \in 0..n
      BY DEF TradeInv, CallsTyped, n
    <3> QED
      BY <1>1, <1>2, <2>1, <3>1 DEF AnswerInv, Window
  <2> QED
    BY <2>3, <2>4, <2>5
<1> QED
  BY <1>3, <1>4, <1>5 DEF TradeInv

LEMMA IngestKeeps == TradeInv /\ IngestTrades => TradeInv'
<1> SUFFICES ASSUME TradeInv, IngestTrades PROVE TradeInv'
  OBVIOUS
<1>1. UNCHANGED <<time, now, coverage, caller, answer, failures, capped>>
  BY DEF IngestTrades
<1>2. cache \subseteq cache' /\ cache' \subseteq Trades
  BY DEF IngestTrades, TradeInv, CallsTyped
<1>3. TimeInv' /\ CallsTyped'
  BY <1>1, <1>2 DEF TradeInv, TimeInv, CallsTyped, CallInProgress, Coverages, Trades
<1>4. ASSUME Sound' PROVE Holds(coverage)' /\ \A c \in Callers : (FetchInv(c) /\ AnswerInv(c))'
  <2>1. Sound
    BY <1>1, <1>4 DEF Sound
  <2> QED
    BY <1>1, <1>2, <2>1, OthersKeepFetch, OthersKeepAnswer DEF TradeInv, Holds, Window
<1> QED
  BY <1>3, <1>4 DEF TradeInv

(* A step of one call keeps the invariant if it keeps its own part of it.   *)
LEMMA CallStep ==
    ASSUME TradeInv, NEW c \in Callers, NEW w \in CallInProgress \cup {NoCall},
           caller' = [caller EXCEPT ![c] = w],
           w.at \in {"paging", "inserting", "marking", "writing"} => w.covered = w.began,
           UNCHANGED <<time, now>>,
           cache \subseteq cache', cache' \subseteq Trades,
           coverage' \in Coverages, failures' \in Nat,
           answer' \in [Callers -> [from : Nat, began : 0..Len(time), covered : 0..Len(time),
                                    trades : SUBSET Trades]],
           \A d \in Callers : d # c => answer'[d] = answer[d],
           Sound' => Sound /\ (Holds(coverage)' /\ FetchInv(c)' /\ AnswerInv(c)')
    PROVE  TradeInv'
<1>1. caller'[c] = w /\ \A d \in Callers : d # c => caller'[d] = caller[d]
  BY DEF TradeInv, CallsTyped
<1>2. TimeInv'
  BY DEF TradeInv, TimeInv, Trades
<1>3. CallsTyped'
  <2>1. caller' \in [Callers -> CallInProgress \cup {NoCall}]
    BY DEF TradeInv, CallsTyped
  <2>2. Trades' = Trades /\ Coverages' = Coverages /\ CallInProgress' = CallInProgress
    BY DEF Trades, Coverages, CallInProgress
  <2> QED
    BY <1>1, <2>1, <2>2 DEF TradeInv, CallsTyped
<1>4. ASSUME Sound' PROVE Holds(coverage)' /\ \A d \in Callers : (FetchInv(d) /\ AnswerInv(d))'
  <2>1. Sound /\ (Holds(coverage)' /\ FetchInv(c)' /\ AnswerInv(c)')
    BY <1>4
  <2>2. ASSUME NEW d \in Callers, d # c PROVE (FetchInv(d) /\ AnswerInv(d))'
    BY <1>1, <2>1, <2>2, OthersKeepFetch, OthersKeepAnswer
  <2> QED
    BY <2>1, <2>2
<1> QED
  BY <1>2, <1>3, <1>4 DEF TradeInv

(* A call in progress is well typed.                                        *)
LEMMA CallTyped ==
    ASSUME TradeInv, NEW c \in Callers, caller[c].at \in Places
    PROVE  /\ caller[c] \in CallInProgress
           /\ caller[c].at \in {"paging", "inserting", "marking", "writing"} =>
                 caller[c].covered = caller[c].began
BY DEF TradeInv, CallsTyped, NoCall, Places

LEMMA LoadKeeps ==
    ASSUME TradeInv, NEW c \in Callers, NEW from \in Windows, LoadTrades(c, from)
    PROVE  TradeInv'
<1> DEFINE gap == coverage.from = Never \/ coverage.from > from
           w == [at |-> IF gap THEN "paging" ELSE "answering",
                 covered |-> IF gap THEN Len(time) ELSE coverage.since,
                 from |-> from, began |-> Len(time), offset |-> 0, pages |-> 0, out |-> {},
                 seen |-> NoCoverage]
<1>1. /\ caller' = [caller EXCEPT ![c] = w]
      /\ UNCHANGED <<time, now, cache, coverage, answer, failures, capped>>
  BY DEF LoadTrades
<1>2. Len(time) \in Nat /\ Windows \subseteq Nat /\ Never \notin Nat
  BY TradeCacheAssumption DEF TradeInv, TimeInv
<1>3. NoCoverage \in Coverages /\ coverage \in Coverages
  BY <1>2 DEF NoCoverage, Coverages, TradeInv, CallsTyped
<1>4. w \in CallInProgress
  BY <1>2, <1>3 DEF CallInProgress, Places, Coverages
<1>5. w.at \in {"paging", "inserting", "marking", "writing"} => w.covered = w.began
  OBVIOUS
<1>6. caller'[c] = w
  BY <1>1 DEF TradeInv, CallsTyped
<1>7. ASSUME Sound PROVE FetchInv(c)'
  <2>1. CASE gap
    BY <1>1, <1>2, <1>6, <2>1 DEF FetchInv
  <2>2. CASE ~gap
    <3>1. /\ caller'[c].at = "answering" /\ caller'[c].from = from
          /\ caller'[c].covered = coverage.since
      BY <1>6, <2>2
    <3>2. coverage.from \in Nat /\ coverage.from <= from /\ coverage.from # Never
      <4>1. coverage.from # Never /\ ~(coverage.from > from)
        BY <2>2
      <4>2. coverage.from \in Nat /\ from \in Nat
        BY <1>2, <1>3, <4>1 DEF Coverages
      <4> QED
        BY <4>1, <4>2
    <3>3. Window(coverage.from, coverage.since) \subseteq cache
      BY <1>7, <3>2 DEF TradeInv, Holds
    <3>4. \A i \in 1..coverage.since : time[i] \in Nat
      BY <1>2, <1>3 DEF Coverages, TradeInv, TimeInv
    <3>5. Window(from, coverage.since) \subseteq cache
      BY <1>2, <3>2, <3>3, <3>4 DEF Window
    <3> QED
      BY <1>1, <3>1, <3>5 DEF FetchInv, Window
  <2> QED
    BY <2>1, <2>2
<1>8. Sound' => Sound /\ (Holds(coverage)' /\ FetchInv(c)' /\ AnswerInv(c)')
  BY <1>1, <1>7 DEF Sound, TradeInv, Holds, AnswerInv, Window
<1>9. /\ cache' \subseteq Trades /\ failures' \in Nat
      /\ answer' \in [Callers -> [from : Nat, began : 0..Len(time), covered : 0..Len(time),
                                    trades : SUBSET Trades]]
  BY <1>1 DEF TradeInv, CallsTyped
<1> HIDE DEF w
<1> QED
  BY <1>1, <1>3, <1>4, <1>5, <1>8, <1>9, CallStep

(* A step that only moves a call on, within the fetch it makes.             *)
LEMMA PageFailsKeeps ==
    ASSUME TradeInv, NEW c \in Callers, PageFails(c) \/ FetchCapped(c)
    PROVE  TradeInv'
<1> DEFINE w == [caller[c] EXCEPT !.at = "inserting"]
<1>1. /\ caller' = [caller EXCEPT ![c] = w]
      /\ UNCHANGED <<time, now, cache, coverage, answer>>
      /\ caller[c].at = "paging"
  BY DEF PageFails, FetchCapped, At
<1>2. caller[c] \in CallInProgress /\ caller[c].covered = caller[c].began
  BY <1>1, CallTyped DEF Places
<1>3. w \in CallInProgress /\ w.covered = w.began
  BY <1>2 DEF CallInProgress, Places
<1>4. ~Sound'
  BY DEF PageFails, FetchCapped, Sound, TradeInv, CallsTyped
<1>5. /\ cache' \subseteq Trades /\ failures' \in Nat /\ coverage' \in Coverages
      /\ answer' \in [Callers -> [from : Nat, began : 0..Len(time), covered : 0..Len(time),
                                    trades : SUBSET Trades]]
  BY <1>1 DEF TradeInv, CallsTyped, PageFails, FetchCapped
<1> HIDE DEF w
<1> QED
  BY <1>1, <1>3, <1>4, <1>5, CallStep

LEMMA FetchPageKeeps ==
    ASSUME TradeInv, NEW c \in Callers, FetchPage(c)
    PROVE  TradeInv'
<1> DEFINE page == Page(caller[c].offset)
           over == page = {} \/ ReachesBelow(page, caller[c].from) \/ Cardinality(page) < PageSize
           w == [at |-> IF over THEN "inserting" ELSE "paging", covered |-> caller[c].covered,
                 from |-> caller[c].from, began |-> caller[c].began,
                 offset |-> IF over THEN caller[c].offset ELSE caller[c].offset + PageSize,
                 pages |-> caller[c].pages + 1, out |-> caller[c].out \cup page,
                 seen |-> caller[c].seen]
<1>1. /\ UNCHANGED <<time, now, cache, coverage, answer, failures, capped>>
      /\ caller[c].at = "paging"
  BY DEF FetchPage
<1>2. caller[c] \in CallInProgress /\ caller[c].covered = caller[c].began
  BY <1>1, CallTyped DEF Places
<1>3. caller' = [caller EXCEPT ![c] = w]
  <2>1. caller' = [caller EXCEPT ![c] =
                      [[[[caller[c] EXCEPT !.out = @ \cup page]
                            EXCEPT !.pages = @ + 1]
                            EXCEPT !.offset = IF over THEN @ ELSE @ + PageSize]
                            EXCEPT !.at = IF over THEN "inserting" ELSE "paging"]]
    <3> HIDE DEF over, page
    <3>1. caller' = [caller EXCEPT ![c].out = @ \cup page,
                                   ![c].pages = @ + 1,
                                   ![c].offset = IF over THEN @ ELSE @ + PageSize,
                                   ![c].at = IF over THEN "inserting" ELSE "paging"]
      BY DEF FetchPage, over, page
    <3> QED
      BY <3>1, <1>2 DEF CallInProgress, TradeInv, CallsTyped
  <2> HIDE DEF over, page
  <2>2. [[[[caller[c] EXCEPT !.out = @ \cup page]
               EXCEPT !.pages = @ + 1]
               EXCEPT !.offset = IF over THEN @ ELSE @ + PageSize]
               EXCEPT !.at = IF over THEN "inserting" ELSE "paging"] = w
    <3> DEFINE r == caller[c]
               o == r.out \cup page
               g == r.pages + 1
               f == IF over THEN r.offset ELSE r.offset + PageSize
               a == IF over THEN "inserting" ELSE "paging"
    <3>1. r = [at |-> r.at, covered |-> r.covered, from |-> r.from, began |-> r.began,
               offset |-> r.offset, pages |-> r.pages, out |-> r.out, seen |-> r.seen]
      BY <1>2 DEF CallInProgress
    <3>2. /\ [r EXCEPT !.out = @ \cup page] = [r EXCEPT !.out = o]
          /\ [[r EXCEPT !.out = o] EXCEPT !.pages = @ + 1] = [[r EXCEPT !.out = o] EXCEPT !.pages = g]
          /\ [[[r EXCEPT !.out = o] EXCEPT !.pages = g]
                 EXCEPT !.offset = IF over THEN @ ELSE @ + PageSize]
               = [[[r EXCEPT !.out = o] EXCEPT !.pages = g] EXCEPT !.offset = f]
      BY <3>1
    <3> HIDE DEF o, g, f, a
    <3> DEFINE Made(at, offset, pages, out) ==
                  [at |-> at, covered |-> r.covered, from |-> r.from, began |-> r.began,
                   offset |-> offset, pages |-> pages, out |-> out, seen |-> r.seen]
    <3>3. [[[[r EXCEPT !.out = o] EXCEPT !.pages = g] EXCEPT !.offset = f] EXCEPT !.at = a]
             = Made(a, f, g, o)
      <4>1. [r EXCEPT !.out = o] = Made(r.at, r.offset, r.pages, o)
        BY <3>1
      <4>2. [Made(r.at, r.offset, r.pages, o) EXCEPT !.pages = g] = Made(r.at, r.offset, g, o)
        OBVIOUS
      <4>3. [Made(r.at, r.offset, g, o) EXCEPT !.offset = f] = Made(r.at, f, g, o)
        OBVIOUS
      <4>4. [Made(r.at, f, g, o) EXCEPT !.at = a] = Made(a, f, g, o)
        OBVIOUS
      <4> HIDE DEF Made
      <4> QED
        BY <4>1, <4>2, <4>3, <4>4
    <3> QED
      BY <3>2, <3>3 DEF a, o, g, f
  <2> QED
    BY <2>1, <2>2
<1>4. PageSize \in Nat \ {0} /\ Len(time) \in Nat /\ page \subseteq Trades /\ Windows \subseteq Nat
  BY TradeCacheAssumption DEF TradeInv, TimeInv, Page
<1>5. w \in CallInProgress /\ w.covered = w.began
  <2> HIDE DEF over, page
  <2> QED
    BY <1>2, <1>4 DEF CallInProgress, Places
<1>6. caller'[c] = w
  BY <1>3 DEF TradeInv, CallsTyped
<1>7. ASSUME Sound PROVE FetchInv(c)'
  <2>1. {i \in 1..caller[c].began : i > Len(time) - caller[c].offset} \subseteq caller[c].out
    BY <1>1, <1>7 DEF TradeInv, FetchInv
  <2>2. caller[c].began \in 0..Len(time) /\ caller[c].offset \in Nat /\ caller[c].from \in Nat
    BY <1>2, <1>4 DEF CallInProgress
  <2>3. CASE ~over
    <3>1. {i \in 1..caller[c].began : i > Len(time) - (caller[c].offset + PageSize)}
              \subseteq caller[c].out \cup page
      BY <1>4, <2>1, <2>2 DEF Page, Trades
    <3>2. /\ caller'[c].at = "paging" /\ caller'[c].began = caller[c].began
          /\ caller'[c].offset = caller[c].offset + PageSize
          /\ caller'[c].out = caller[c].out \cup page
      BY <1>6, <2>3
    <3> HIDE DEF over, page, w
    <3> QED
      BY <1>1, <3>1, <3>2 DEF FetchInv
  <2>4. CASE over
    <3>1. ASSUME NEW i \in Window(caller[c].from, caller[c].began)
          PROVE  i \in caller[c].out \cup page
      <4>1. i \in 1..caller[c].began /\ i \in Trades /\ time[i] >= caller[c].from
        BY <1>4, <2>2 DEF Window, Trades
      <4>2. CASE i > Len(time) - caller[c].offset
        BY <2>1, <4>1, <4>2
      <4>3. CASE i <= Len(time) - caller[c].offset
        BY <2>2, <2>4, <4>1, <4>3, LastPageReaches DEF TradeInv
      <4> QED
        BY <1>4, <2>2, <4>1, <4>2, <4>3
    <3>2. /\ caller'[c].at = "inserting" /\ caller'[c].began = caller[c].began
          /\ caller'[c].from = caller[c].from
          /\ caller'[c].out = caller[c].out \cup page
      BY <1>6, <2>4
    <3> HIDE DEF over, page, w
    <3>3. Window(caller[c].from, caller[c].began)' \subseteq caller'[c].out
      BY <1>1, <3>1, <3>2 DEF Window
    <3> QED
      BY <3>2, <3>3 DEF FetchInv
  <2> QED
    BY <2>3, <2>4
<1> HIDE DEF page, over, w
<1>8. Sound' => Sound /\ (Holds(coverage)' /\ FetchInv(c)' /\ AnswerInv(c)')
  BY <1>1, <1>7 DEF Sound, TradeInv, Holds, AnswerInv, Window
<1>9. /\ cache' \subseteq Trades /\ failures' \in Nat /\ coverage' \in Coverages
      /\ answer' \in [Callers -> [from : Nat, began : 0..Len(time), covered : 0..Len(time),
                                    trades : SUBSET Trades]]
  BY <1>1 DEF TradeInv, CallsTyped
<1> QED
  BY <1>1, <1>3, <1>5, <1>8, <1>9, CallStep

LEMMA InsertKeeps ==
    ASSUME TradeInv, NEW c \in Callers, InsertTrades(c)
    PROVE  TradeInv'
<1> DEFINE w == [caller[c] EXCEPT !.at = "marking"]
<1>1. /\ caller' = [caller EXCEPT ![c] = w]
      /\ UNCHANGED <<time, now, coverage, answer, failures, capped>>
      /\ caller[c].at = "inserting" /\ cache' = cache \cup caller[c].out
  BY DEF InsertTrades, At
<1>2. caller[c] \in CallInProgress /\ caller[c].covered = caller[c].began
  BY <1>1, CallTyped DEF Places
<1>3. /\ w \in CallInProgress /\ w.covered = w.began /\ w.at = "marking"
      /\ w.from = caller[c].from /\ w.covered = caller[c].began
  BY <1>2 DEF CallInProgress, Places
<1>4. caller'[c] = w
  BY <1>1 DEF TradeInv, CallsTyped
<1>5. /\ cache \subseteq cache' /\ cache' \subseteq Trades
      /\ failures' \in Nat /\ coverage' \in Coverages
      /\ answer' \in [Callers -> [from : Nat, began : 0..Len(time), covered : 0..Len(time),
                                    trades : SUBSET Trades]]
  BY <1>1, <1>2 DEF TradeInv, CallsTyped, CallInProgress
<1> HIDE DEF w
<1>6. ASSUME Sound PROVE FetchInv(c)'
  <2>1. Window(caller[c].from, caller[c].began) \subseteq cache'
    BY <1>1, <1>6 DEF TradeInv, FetchInv
  <2> QED
    BY <1>1, <1>3, <1>4, <2>1 DEF FetchInv, Window
<1>7. Sound' => Sound /\ (Holds(coverage)' /\ FetchInv(c)' /\ AnswerInv(c)')
  BY <1>1, <1>6 DEF Sound, TradeInv, Holds, AnswerInv, Window
<1> QED
  BY <1>1, <1>3, <1>5, <1>7, CallStep

LEMMA ReadKeeps ==
    ASSUME TradeInv, NEW c \in Callers, ReadCoverage(c)
    PROVE  TradeInv'
<1> DEFINE w == [[caller[c] EXCEPT !.seen = coverage] EXCEPT !.at = "writing"]
<1>1. /\ UNCHANGED <<time, now, cache, coverage, answer, failures, capped>>
      /\ caller[c].at = "marking"
  BY DEF ReadCoverage
<1>2. caller[c] \in CallInProgress /\ caller[c].covered = caller[c].began
  BY <1>1, CallTyped DEF Places
<1>3. caller' = [caller EXCEPT ![c] = w]
  BY <1>2 DEF ReadCoverage, CallInProgress, TradeInv, CallsTyped
<1>4. coverage \in Coverages
  BY DEF TradeInv, CallsTyped
<1>5. /\ w \in CallInProgress /\ w.covered = w.began /\ w.at = "writing"
      /\ w.from = caller[c].from /\ w.covered = caller[c].covered /\ w.seen = coverage
  BY <1>2, <1>4 DEF CallInProgress, Places
<1>6. caller'[c] = w
  BY <1>3 DEF TradeInv, CallsTyped
<1>7. /\ cache' \subseteq Trades /\ failures' \in Nat /\ coverage' \in Coverages
      /\ answer' \in [Callers -> [from : Nat, began : 0..Len(time), covered : 0..Len(time),
                                    trades : SUBSET Trades]]
  BY <1>1 DEF TradeInv, CallsTyped
<1> HIDE DEF w
<1>8. ASSUME Sound PROVE FetchInv(c)'
  <2>1. Window(caller[c].from, caller[c].covered) \subseteq cache
    BY <1>1, <1>8 DEF TradeInv, FetchInv
  <2>2. coverage.from # Never => Window(coverage.from, coverage.since) \subseteq cache
    BY <1>8 DEF TradeInv, Holds
  <2> QED
    BY <1>1, <1>5, <1>6, <2>1, <2>2 DEF FetchInv, Holds, Window
<1>9. Sound' => Sound /\ (Holds(coverage)' /\ FetchInv(c)' /\ AnswerInv(c)')
  BY <1>1, <1>8 DEF Sound, TradeInv, Holds, AnswerInv, Window
<1> QED
  BY <1>1, <1>3, <1>5, <1>7, <1>9, CallStep

(* The watermark that is written may be the one a slower call had read, so  *)
(* it may rise again; it is true of what was published at its own moment.   *)
LEMMA WriteKeeps ==
    ASSUME TradeInv, NEW c \in Callers, WriteCoverage(c)
    PROVE  TradeInv'
<1> DEFINE w == [caller[c] EXCEPT !.at = "answering"]
<1>1. /\ caller' = [caller EXCEPT ![c] = w]
      /\ UNCHANGED <<time, now, cache, answer, failures, capped>>
      /\ caller[c].at = "writing"
  BY DEF WriteCoverage, At
<1>2. caller[c] \in CallInProgress /\ caller[c].covered = caller[c].began
  BY <1>1, CallTyped DEF Places
<1>3. /\ w \in CallInProgress /\ w.at = "answering"
      /\ w.from = caller[c].from /\ w.covered = caller[c].covered
  BY <1>2 DEF CallInProgress, Places
<1>4. caller'[c] = w
  BY <1>1 DEF TradeInv, CallsTyped
<1>5. \/ coverage' = caller[c].seen /\ caller[c].seen.from # Never
      \/ coverage' = [from |-> caller[c].from, since |-> caller[c].began]
  BY DEF WriteCoverage
<1>6. coverage' \in Coverages
  BY <1>2, <1>5 DEF CallInProgress, Coverages
<1>7. /\ cache' \subseteq Trades /\ failures' \in Nat
      /\ answer' \in [Callers -> [from : Nat, began : 0..Len(time), covered : 0..Len(time),
                                    trades : SUBSET Trades]]
  BY <1>1 DEF TradeInv, CallsTyped
<1> HIDE DEF w
<1>8. ASSUME Sound PROVE FetchInv(c)' /\ Holds(coverage)'
  <2>1. /\ Window(caller[c].from, caller[c].covered) \subseteq cache
        /\ Holds(caller[c].seen)
    BY <1>1, <1>8 DEF TradeInv, FetchInv
  <2>2. FetchInv(c)'
    BY <1>1, <1>3, <1>4, <2>1 DEF FetchInv, Window
  <2>3. coverage'.from # Never => Window(coverage'.from, coverage'.since) \subseteq cache
    BY <1>2, <1>5, <2>1 DEF Holds
  <2>4. Holds(coverage)'
    BY <1>1, <2>3 DEF Holds, Window
  <2> QED
    BY <2>2, <2>4
<1>9. Sound' => Sound /\ (Holds(coverage)' /\ FetchInv(c)' /\ AnswerInv(c)')
  BY <1>1, <1>8 DEF Sound, TradeInv, AnswerInv, Window
<1> QED
  BY <1>1, <1>3, <1>6, <1>7, <1>9, CallStep

LEMMA AnswerKeeps ==
    ASSUME TradeInv, NEW c \in Callers, FetchTrades(c)
    PROVE  TradeInv'
<1> DEFINE v == [from |-> caller[c].from, began |-> caller[c].began, covered |-> caller[c].covered,
                 trades |-> {i \in cache : time[i] >= caller[c].from}]
<1>1. /\ UNCHANGED <<time, now, cache, coverage, failures, capped>>
      /\ caller[c].at = "answering"
      /\ answer' = [answer EXCEPT ![c] = v]
      /\ caller' = [caller EXCEPT ![c] = NoCall]
  BY DEF FetchTrades
<1>2. caller[c] \in CallInProgress
  BY <1>1, CallTyped DEF Places
<1>3. v \in [from : Nat, began : 0..Len(time), covered : 0..Len(time), trades : SUBSET Trades]
  BY <1>2, TradeCacheAssumption DEF CallInProgress, TradeInv, CallsTyped
<1>4. answer' \in [Callers -> [from : Nat, began : 0..Len(time), covered : 0..Len(time),
                                trades : SUBSET Trades]]
  BY <1>1, <1>3 DEF TradeInv, CallsTyped
<1>5. answer'[c] = v /\ \A d \in Callers : d # c => answer'[d] = answer[d]
  BY <1>1 DEF TradeInv, CallsTyped
<1>6. caller'[c] = NoCall
  BY <1>1 DEF TradeInv, CallsTyped
<1>7. FetchInv(c)'
  BY <1>6 DEF FetchInv, NoCall
<1>8. ASSUME Sound PROVE AnswerInv(c)'
  <2>1. Window(caller[c].from, caller[c].covered) \subseteq cache
    BY <1>1, <1>8 DEF TradeInv, FetchInv
  <2>2. Window(v.from, v.covered) \subseteq v.trades
    BY <2>1 DEF Window
  <2> HIDE DEF v
  <2> QED
    BY <1>1, <1>5, <2>2 DEF AnswerInv, Window
<1>9. Sound' => Sound /\ (Holds(coverage)' /\ FetchInv(c)' /\ AnswerInv(c)')
  BY <1>1, <1>7, <1>8 DEF Sound, TradeInv, Holds, Window
<1>10. /\ cache' \subseteq Trades /\ failures' \in Nat /\ coverage' \in Coverages
  BY <1>1 DEF TradeInv, CallsTyped
<1>11. NoCall.at \notin {"paging", "inserting", "marking", "writing"}
  BY DEF NoCall
<1> HIDE DEF v
<1> QED
  BY <1>1, <1>4, <1>5, <1>9, <1>10, <1>11, CallStep

LEMMA TradeInvStep == TradeInv /\ [TradeNext]_tradeVars => TradeInv'
<1> SUFFICES ASSUME TradeInv, [TradeNext]_tradeVars PROVE TradeInv'
  OBVIOUS
<1>1. CASE UNCHANGED tradeVars
  BY <1>1 DEF tradeVars, TradeInv, TimeInv, CallsTyped, Sound, Holds, FetchInv, AnswerInv, Window,
     Trades, Coverages, CallInProgress
<1>2. CASE Publish
  BY <1>2, PublishKeeps
<1>3. CASE Tick
  <2>1. UNCHANGED <<time, cache, coverage, caller, answer, calls, failures, capped>>
        /\ now' = now + 1
    BY <1>3 DEF Tick
  <2>2. TimeInv'
    <3>1. \A i \in Trades : time[i] \in Nat
      BY DEF TradeInv, TimeInv, Trades
    <3> QED
      BY <2>1, <3>1 DEF TradeInv, TimeInv, Trades
  <2>3. CallsTyped' /\ (Sound' => Holds(coverage)' /\ \A c \in Callers : (FetchInv(c) /\ AnswerInv(c))')
    BY <2>1 DEF TradeInv, CallsTyped, Sound, Holds, FetchInv, AnswerInv, Window,
       Trades, Coverages, CallInProgress
  <2> QED
    BY <2>2, <2>3 DEF TradeInv
<1>4. CASE IngestTrades
  BY <1>4, IngestKeeps
<1>5. ASSUME NEW c \in Callers,
             \/ \E from \in Windows : LoadTrades(c, from)
             \/ FetchPage(c) \/ PageFails(c) \/ FetchCapped(c)
             \/ InsertTrades(c) \/ ReadCoverage(c) \/ WriteCoverage(c) \/ FetchTrades(c)
      PROVE  TradeInv'
  BY <1>5, LoadKeeps, FetchPageKeeps, PageFailsKeeps, InsertKeeps, ReadKeeps, WriteKeeps, AnswerKeeps
<1> QED
  BY <1>1, <1>2, <1>3, <1>4, <1>5 DEF TradeNext

(* The cache holds trades that happened, the watermark is a window callers  *)
(* ask for, and answers are taken from the trades.                          *)
THEOREM TradesWellTyped == TradeSpec => []TradesTyped
<1>1. TradeInv => TradesTyped
  BY DEF TradeInv, CallsTyped, TradesTyped, Coverages, CallInProgress, NoCall, Places
<1> QED
  BY <1>1, TradeInitInv, TradeInvStep, PTL DEF TradeSpec

(* Unless a page failed or a cap was hit, an answer lacks no trade of its   *)
(* window that was published when the fetch began that it relies on.        *)
THEOREM AnswersAreComplete == TradeSpec => []AnswersCompleteUpToFetch
<1>1. TradeInv => AnswersCompleteUpToFetch
  BY DEF TradeInv, Sound, AnswerInv, AnswersCompleteUpToFetch
<1> QED
  BY <1>1, TradeInitInv, TradeInvStep, PTL DEF TradeSpec

=============================================================================
