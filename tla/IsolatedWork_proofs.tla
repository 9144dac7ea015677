------------------------ MODULE IsolatedWork_proofs -------------------------
(* Proofs about IsolatedWork: that a confirmed completion leaves no task     *)
(* process, for any set of processes and any way they fork, and what follows *)
(* of it for the copies that are made of the workspace.                      *)

EXTENDS IsolatedWork, TLAPS

(* Parents of known processes live, but for the guard and the first process. *)
(* The tree has no cycle: some member of any set of living processes has its *)
(* parent outside.  What loses its parent is adopted by a guard that works.  *)
KernelOK ==
  /\ \A p \in Known : parent[p] \in Living \cup {Guard, PidOne}
  /\ \A S \in SUBSET Living : S # {} => \E p \in S : parent[p] \notin S
  /\ guard \in Active => \A p \in Living : parent[p] # PidOne
  /\ guard \in {"none", "reporting", "over"} => Living = {}
  /\ report => guard = "over"

Copying == {"stop", "survey", "pack", "transfer", "clear", "fill", "keep"}
Packed == {"transfer", "clear", "fill", "keep"}
Last == {"dispose", "result", "over"}

(* Nothing is copied before the guard of the model session is over, and      *)
(* nothing writes afterwards.                                                *)
CopyOK ==
  /\ ctl \in {"begin", "prepare"} => guard \in {"none", "over"}
  /\ ctl \in {"prepare", "running", "reading"} => ~completion
  /\ ctl \in {"prepare", "running", "reading", "examine"} => phase # "setup"
  /\ ctl \in {"reading", "examine"} \/ completion => guard = "over"
  /\ ctl \in {"examine"} \cup Copying => completion
  /\ ctl \in Copying => phase = "model" /\ returned # "yes"
  /\ ctl \in Packed => packed = written
  /\ ctl \in {"clear", "fill"} => aim = "workspace"
  /\ ctl = "keep" => aim = "partial"

(* Where a tree that is kept comes from.                                     *)
KeptOK ==
  /\ returned = "yes" =>
       ctl \in Last /\ completion /\ phase = "model" /\ local = written /\ aim = "workspace"
  /\ aim = "partial" =>
       /\ ctl \in Copying \cup Last /\ completion /\ phase = "model" /\ error
       /\ returned # "yes"
  /\ partial # "none" => ctl \in Last
  /\ partial = "ready" => aim = "partial" /\ extracted = written
  /\ ctl = "failing" => error /\ returned # "yes"
  /\ ctl \in {"dispose", "result"} /\ ~error => returned = "yes"
  /\ artifact.status \in Final => ctl = "over" /\ completion /\ WorkIsWhole
  /\ ctl # "over" => artifact.status = "none"

IInv == TypeOK /\ KernelOK /\ CopyOK /\ KeptOK


LEMMA InitInv == ASSUME WorkAssumption PROVE Init => IInv
<1> SUFFICES ASSUME Init PROVE IInv
  OBVIOUS
<1>1. \A p \in Proc : state[p] = "unborn" /\ parent[p] = PidOne
  BY DEF Init
<1>2. Known = {} /\ Living = {}
  BY <1>1 DEF Known, Living
<1>3. TypeOK
  <2>1. state \in [Proc -> Process] /\ parent \in [Proc -> Proc \cup {Guard, PidOne}]
    BY DEF Init, Process
  <2>2. artifact \in [status: Status, tree: {None}]
    BY DEF Init, Status
  <2>3. written \in 0..MaxWrites /\ packed \in Tree /\ local \in Tree \ {None} /\ extracted \in Tree
    BY WorkAssumption DEF Init, Tree, Base, None
  <2> QED
    BY <2>1, <2>2, <2>3 DEF Init, TypeOK, Place
<1>4. KernelOK
  BY <1>2 DEF Init, KernelOK, Active
<1>5. CopyOK
  BY DEF Init, CopyOK, Copying, Packed
<1>6. KeptOK
  BY DEF Init, KeptOK, Copying, Last, WorkIsWhole, Final
<1> QED
  BY <1>3, <1>4, <1>5, <1>6 DEF IInv

-----------------------------------------------------------------------------
(* What the groups of steps do.                                              *)

KernelStep ==
  \/ Supervise \/ GuardDies
  \/ \E p \in Proc : Write(p) \/ Die(p) \/ Reap(p) \/ \E q \in Proc : Fork(p, q)

(* The end of the container, confirmed or not.                               *)
LEMMA CloseResult ==
  ASSUME TypeOK, KernelOK, Close
  PROVE  /\ state' \in [Proc -> Process] /\ guard' \in {guard, "dead"}
         /\ container' \in {container, "removed"}
         /\ UNCHANGED <<parent, root, report, written>>
         /\ guard \in {"none", "over"} => guard' = guard
         /\ KernelOK'
<1>1. CASE Destroyed /\ container' = "removed"
  <2>1. state' \in [Proc -> Process]
    BY <1>1 DEF Destroyed, Process
  <2>2. Known' = {} /\ Living' = {}
    BY <1>1 DEF Destroyed, Known, Living
  <2>3. /\ guard' \in {guard, "dead"} /\ UNCHANGED <<parent, root, report, written>>
        /\ guard \in {"none", "over"} => guard' = guard
        /\ guard' \notin Active
    BY <1>1 DEF Destroyed, Active
  <2>4. KernelOK'
    BY <2>2, <2>3 DEF KernelOK
  <2> QED
    BY <1>1, <2>1, <2>3, <2>4
<1>2. CASE UNCHANGED <<inside, container>>
  <2>1. UNCHANGED <<state, parent, root, guard, report, written, container>>
    BY <1>2 DEF inside, kernel
  <2>2. KernelOK'
    BY <2>1 DEF KernelOK, Known, Living
  <2> QED
    BY <2>1, <2>2 DEF TypeOK
<1> QED
  BY <1>1, <1>2 DEF Close

(* No step of the kernel or the guard touches what the controller holds, and *)
(* once the guard is over they write nothing.                                *)
LEMMA KernelLeaves ==
  ASSUME KernelOK, KernelStep
  PROVE  /\ UNCHANGED <<container, ctl, phase, completion, returned, aim, packed, local, partial,
                        extracted, cancelled, error, artifact>>
         /\ guard \in {"none", "over"} => guard' = guard
         /\ guard = "over" => written' = written
<1>1. ASSUME Supervise \/ GuardDies
      PROVE  guard \notin {"none", "over"} /\ UNCHANGED outside /\ UNCHANGED written
  BY <1>1 DEF Supervise, RootEnds, Terminate, Ask, Report, GuardDies, Active
<1>2. ASSUME NEW p \in Proc, Write(p) PROVE guard # "over" /\ UNCHANGED <<guard, outside>>
  BY <1>2 DEF Write, KernelOK
<1>3. ASSUME NEW p \in Proc, Die(p) \/ Reap(p) \/ \E q \in Proc : Fork(p, q)
      PROVE  UNCHANGED <<guard, written, outside>>
  BY <1>3 DEF Die, Reap, Fork
<1>4. /\ UNCHANGED outside
      /\ guard \in {"none", "over"} => guard' = guard
      /\ guard = "over" => written' = written
  BY <1>1, <1>2, <1>3 DEF KernelStep
<1> QED
  BY <1>4 DEF outside, facts, copies

-----------------------------------------------------------------------------
(* The types.                                                                *)

LEMMA KernelTypes == ASSUME WorkAssumption, TypeOK, KernelOK, KernelStep PROVE TypeOK'
<1>1. state \in [Proc -> Process] /\ parent \in [Proc -> Proc \cup {Guard, PidOne}]
  BY DEF TypeOK
<1>2. state' \in [Proc -> Process]
  <2>1. ASSUME NEW p \in Proc, NEW x \in Process PROVE [state EXCEPT ![p] = x] \in [Proc -> Process]
    BY <1>1, <2>1
  <2>2. [state EXCEPT ![root] = "gone"] \in [Proc -> Process]
    BY <1>1 DEF Process
  <2>3. Killed \in [Proc -> Process]
    BY <1>1 DEF Killed, Process
  <2>4. "alive" \in Process /\ "zombie" \in Process /\ "gone" \in Process
    BY DEF Process
  <2>5. ASSUME Supervise PROVE state' \in [Proc -> Process]
    BY <1>1, <2>1, <2>2, <2>3, <2>4, <2>5
       DEF Supervise, RootEnds, Terminate, Ask, Report, Child, Known, kernel
  <2>6. ASSUME GuardDies \/ \E p \in Proc : Write(p) \/ Die(p) \/ Reap(p) \/ \E q \in Proc : Fork(p, q)
        PROVE  state' \in [Proc -> Process]
    BY <1>1, <2>1, <2>4, <2>6 DEF GuardDies, Write, Die, Reap, Fork, kernel
  <2> QED
    BY <2>5, <2>6 DEF KernelStep
<1>3. parent' \in [Proc -> Proc \cup {Guard, PidOne}]
  <2>1. ASSUME Supervise \/ \E p \in Proc : Write(p) \/ Reap(p) PROVE parent' = parent
    BY <2>1 DEF Supervise, RootEnds, Terminate, Ask, Report, Write, Reap, kernel
  <2>2. ASSUME NEW p \in Proc, NEW q \in Proc, Fork(p, q) PROVE parent' \in [Proc -> Proc \cup {Guard, PidOne}]
    BY <1>1, <2>2 DEF Fork
  <2>3. ASSUME NEW p \in Proc, Die(p) PROVE parent' \in [Proc -> Proc \cup {Guard, PidOne}]
    BY <1>1, <2>3 DEF Die, Heir
  <2>4. ASSUME GuardDies PROVE parent' \in [Proc -> Proc \cup {Guard, PidOne}]
    BY <1>1, <2>4 DEF GuardDies
  <2> QED
    BY <1>1, <2>1, <2>2, <2>3, <2>4 DEF KernelStep
<1>4. root' \in Proc \cup {PidOne} /\ guard' \in Active \cup {"none", "over", "dead"} /\ report' \in BOOLEAN
  <2>1. root \in Proc \cup {PidOne} /\ guard \in Active \cup {"none", "over", "dead"} /\ report \in BOOLEAN
    BY DEF TypeOK
  <2>2. ASSUME Supervise \/ GuardDies 
        PROVE  root' \in Proc \cup {PidOne} /\ guard' \in Active \cup {"none", "over", "dead"} /\ report' \in BOOLEAN
    BY <2>1, <2>2 DEF Supervise, RootEnds, Terminate, Ask, Report, GuardDies, kernel, Active
  <2>3. ASSUME \E p \in Proc : Write(p) \/ Die(p) \/ Reap(p) \/ \E q \in Proc : Fork(p, q)
        PROVE  UNCHANGED <<root, guard, report>>
    BY <2>3 DEF Write, Die, Reap, Fork, kernel
  <2> QED
    BY <2>1, <2>2, <2>3 DEF KernelStep
<1>5. written' \in 0..MaxWrites
  <2>1. written \in 0..MaxWrites
    BY DEF TypeOK
  <2>2. ASSUME NEW p \in Proc, Write(p) PROVE written' \in 0..MaxWrites
    BY <2>1, <2>2, WorkAssumption DEF Write
  <2>3. ASSUME Supervise \/ GuardDies \/ \E p \in Proc : Die(p) \/ Reap(p) \/ \E q \in Proc : Fork(p, q)
        PROVE  written' = written
    BY <2>3 DEF Supervise, RootEnds, Terminate, Ask, Report, GuardDies, Die, Reap, Fork
  <2> QED
    BY <2>1, <2>2, <2>3 DEF KernelStep
<1> QED
  BY <1>2, <1>3, <1>4, <1>5, KernelLeaves DEF TypeOK

(* An exception of the controller.                                           *)
Raising == RunCancelled \/ RunInterrupted \/ Fails

LEMMA RaiseResult ==
  ASSUME TypeOK, KernelOK, Raise
  PROVE  /\ state' \in [Proc -> Process] /\ guard' \in {guard, "dead"}
         /\ container' \in {container, "removed"}
         /\ UNCHANGED <<parent, root, report, written>>
         /\ guard \in {"none", "over"} => guard' = guard
         /\ KernelOK'
         /\ error' = TRUE
         /\ UNCHANGED <<phase, completion, returned, aim, packed, local, extracted, cancelled, artifact>>
         /\ aim = "partial" => partial' = "capture_failed" /\ ctl' = "dispose"
         /\ aim # "partial" => partial' = partial /\ ctl' = "failing"
<1>1. Close
  BY DEF Raise
<1> QED
  BY <1>1, CloseResult DEF Raise, Goto, facts

Quiet == Begin \/ RunReturns \/ ReadReport \/ Examine \/ Survey \/ Pack \/ Transfer \/ Clear \/ Fill
         \/ Retain \/ Keep \/ Refuse \/ Return \/ RetainPartial \/ Cancel

(* Steps of the controller that touch nothing in the container.              *)
LEMMA QuietLeaves ==
  ASSUME KernelOK, Quiet
  PROVE  UNCHANGED <<state, parent, root, guard, report, written, container>> /\ KernelOK'
<1>1. UNCHANGED <<inside, container>>
  BY DEF Quiet, Begin, RunReturns, ReadReport, Examine, Survey, Pack, Transfer, Clear, Fill, Retain,
         Keep, Refuse, Return, RetainPartial, Cancel
<1>2. UNCHANGED <<state, parent, root, guard, report, written, container>>
  BY <1>1 DEF inside, kernel
<1> QED
  BY <1>2 DEF KernelOK, Known, Living

LEMMA NextCases == Next <=> KernelStep \/ Vanish \/ Raising \/ Quiet \/ Stop \/ Dispose \/ \E p \in Proc : Launch(p)
BY DEF Next, KernelStep, Raising, Quiet, Control

LEMMA VanishResult ==
  ASSUME TypeOK, KernelOK, Vanish
  PROVE  /\ state' \in [Proc -> Process] /\ guard' \in {guard, "dead"} /\ container' = "lost"
         /\ guard \in {"none", "over"} => guard' = guard
         /\ UNCHANGED <<parent, root, report, written, ctl, phase, completion, returned, aim, packed,
                        local, partial, extracted, cancelled, error, artifact>>
         /\ KernelOK'
<1>1. state' \in [Proc -> Process]
  BY DEF Vanish, Destroyed, Process
<1>2. Known' = {} /\ Living' = {}
  BY DEF Vanish, Destroyed, Known, Living
<1>3. /\ guard' \in {guard, "dead"} /\ container' = "lost"
      /\ guard \in {"none", "over"} => guard' = guard
      /\ guard' \notin Active
      /\ UNCHANGED <<parent, root, report, written, ctl, phase, completion, returned, aim, packed,
                     local, partial, extracted, cancelled, error, artifact>>
  BY DEF Vanish, Destroyed, Active, facts, copies
<1>4. KernelOK'
  BY <1>2, <1>3 DEF KernelOK
<1> QED
  BY <1>1, <1>3, <1>4

LEMMA TypeStep == ASSUME WorkAssumption, IInv, [Next]_vars PROVE TypeOK'
<1>1. TypeOK /\ KernelOK /\ CopyOK /\ KeptOK
  BY DEF IInv
<1>2. CASE UNCHANGED vars
  BY <1>1, <1>2 DEF vars, inside, kernel, facts, copies, TypeOK
<1>3. CASE KernelStep
  BY <1>1, <1>3, KernelTypes
<1>4. CASE Vanish
  BY <1>1, <1>4, VanishResult DEF TypeOK
<1>5. CASE Raising
  <2>1. Raise
    BY <1>5 DEF Raising, RunCancelled, RunInterrupted, Fails
  <2>2. /\ partial' \in {partial, "capture_failed"} /\ ctl' \in {"dispose", "failing"}
        /\ error' = TRUE
    BY <1>1, <2>1, RaiseResult
  <2> QED
    BY <1>1, <2>1, <2>2, RaiseResult DEF TypeOK, Place
<1>6. CASE Stop
  <2>1. state' \in [Proc -> Process]
    BY <1>1, <1>6 DEF Stop, Killed, TypeOK, Process
  <2> QED
    BY <1>1, <1>6, <2>1 DEF Stop, Goto, facts, copies, TypeOK, Place
<1>7. CASE Dispose
  <2>1. Close /\ error' \in BOOLEAN /\ ctl' = "result" /\ UNCHANGED <<facts, copies, cancelled, artifact>>
    BY <1>1, <1>7 DEF Dispose, Goto, TypeOK
  <2> QED
    BY <1>1, <2>1, CloseResult DEF facts, copies, TypeOK, Place
<1>8. ASSUME NEW p \in Proc, Launch(p) PROVE TypeOK'
  <2>1. state' \in [Proc -> Process] /\ parent' \in [Proc -> Proc \cup {Guard, PidOne}]
    BY <1>1, <1>8 DEF Launch, TypeOK, Process
  <2> QED
    BY <1>1, <1>8, <2>1 DEF Launch, Goto, facts, copies, TypeOK, Place, Active
<1>9. CASE Quiet
  <2>1. UNCHANGED <<state, parent, root, guard, report, written, container>>
    BY <1>1, <1>9, QuietLeaves
  <2>2. ctl' \in Place
    BY <1>1, <1>9 DEF Quiet, Begin, RunReturns, ReadReport, Examine, Survey, Pack, Transfer, Clear, Fill,
       Retain, Keep, Refuse, Return, RetainPartial, Cancel, Goto, TypeOK, Place
  <2>3. phase' \in {"setup", "probe", "model"} /\ completion' \in BOOLEAN /\ returned' \in {"unset", "no", "yes"}
    BY <1>1, <1>9 DEF Quiet, Begin, RunReturns, ReadReport, Examine, Survey, Pack, Transfer, Clear, Fill,
       Retain, Keep, Refuse, Return, RetainPartial, Cancel, facts, TypeOK
  <2>4. cancelled' \in BOOLEAN /\ error' \in BOOLEAN
    BY <1>1, <1>9 DEF Quiet, Begin, RunReturns, ReadReport, Examine, Survey, Pack, Transfer, Clear, Fill,
       Retain, Keep, Refuse, Return, RetainPartial, Cancel, TypeOK
  <2>5. aim' \in {"workspace", "partial"} /\ partial' \in {"none", "ready", "unavailable", "capture_failed"}
    BY <1>1, <1>9 DEF Quiet, Begin, RunReturns, ReadReport, Examine, Survey, Pack, Transfer, Clear, Fill,
       Retain, Keep, Refuse, Return, RetainPartial, Cancel, copies, TypeOK
  <2>6. packed' \in Tree /\ local' \in Tree \ {None} /\ extracted' \in Tree
    <3>1. written \in Nat /\ packed \in Tree /\ local \in Tree \ {None} /\ extracted \in Tree
      BY <1>1, WorkAssumption DEF TypeOK
    <3>2. written \in Tree \ {None} /\ Torn \in Tree \ {None}
      BY <3>1 DEF Tree, None, Torn
    <3>3. ctl = "fill" => packed = written
      BY <1>1 DEF CopyOK, Packed
    <3>4. packed' \in {packed, written} /\ extracted' \in {packed, extracted}
      BY <1>9 DEF Quiet, Begin, RunReturns, ReadReport, Examine, Survey, Pack, Transfer, Clear, Fill,
         Retain, Keep, Refuse, Return, RetainPartial, Cancel, copies
    <3>5. local' \in {local, Torn, written}
      BY <1>9, <3>3 DEF Quiet, Begin, RunReturns, ReadReport, Examine, Survey, Pack, Transfer, Clear, Fill,
         Retain, Keep, Refuse, Return, RetainPartial, Cancel, copies
    <3> QED
      BY <3>1, <3>2, <3>4, <3>5
  <2>7. artifact' \in [status: Final, tree: Tree \ {None}] \cup [status: Status, tree: {None}]
    <3>1. written \in Tree \ {None} /\ local \in Tree \ {None}
      BY <1>1, WorkAssumption DEF TypeOK, Tree, None
    <3>2. CASE Return
      BY <3>1, <3>2 DEF Return, Final
    <3>3. CASE RetainPartial
      <4>1. Ready /\ aim = "partial" => extracted = written
        BY <1>1 DEF Ready, KeptOK
      <4>2. Ready => (IF aim = "partial" THEN extracted ELSE local) \in Tree \ {None}
        BY <3>1, <4>1
      <4> QED
        BY <3>3, <4>2 DEF RetainPartial, Final, Status
    <3>4. CASE UNCHANGED artifact
      BY <1>1, <3>4 DEF TypeOK
    <3>5. Return \/ RetainPartial \/ UNCHANGED artifact
      BY <1>9 DEF Quiet, Begin, RunReturns, ReadReport, Examine, Survey, Pack, Transfer, Clear, Fill,
         Retain, Keep, Refuse, Cancel
    <3> QED
      BY <3>2, <3>3, <3>4, <3>5
  <2> QED
    BY <1>1, <2>1, <2>2, <2>3, <2>4, <2>5, <2>6, <2>7 DEF TypeOK
<1> QED
  BY <1>2, <1>3, <1>4, <1>5, <1>6, <1>7, <1>8, <1>9, NextCases

-----------------------------------------------------------------------------
(* The processes.                                                            *)

(* A guard that has asked and has no child left leaves no process behind: of *)
(* the living, one has its parent outside, and no parent is left outside.    *)
LEMMA NoChildNoProcess ==
  ASSUME KernelOK, guard \in Active, Child = {}
  PROVE  Living = {}
<1> SUFFICES ASSUME Living # {} PROVE FALSE
  OBVIOUS
<1>1. PICK p \in Living : parent[p] \notin Living
  BY DEF KernelOK
<1>2. p \in Known
  BY DEF Living, Known
<1>3. parent[p] \in {Guard, PidOne} /\ parent[p] # PidOne
  BY <1>1, <1>2 DEF KernelOK
<1>4. p \in Child
  BY <1>2, <1>3 DEF Child
<1> QED
  BY <1>4

(* Steps that may end processes, or bury them, and leave parents alone.      *)
LEMMA KernelSame ==
  ASSUME KernelOK, parent' = parent, Living' = Living, Known' \subseteq Known, report' = report,
         guard' \in Active => guard \in Active,
         guard' \in {"none", "reporting", "over"} => Living = {},
         report => guard' = "over"
  PROVE  KernelOK'
<1>1. \A p \in Known' : parent'[p] \in Living' \cup {Guard, PidOne}
  BY DEF KernelOK
<1>2. \A S \in SUBSET Living' : S # {} => \E p \in S : parent'[p] \notin S
  BY DEF KernelOK
<1>3. guard' \in Active => \A p \in Living' : parent'[p] # PidOne
  BY DEF KernelOK
<1> QED
  BY <1>1, <1>2, <1>3 DEF KernelOK

LEMMA SuperviseKeeps == ASSUME TypeOK, KernelOK, Supervise PROVE KernelOK'
<1>1. \A p \in Proc : state[p] \in Process
  BY DEF TypeOK
<1>2. CASE RootEnds
  <2>1. \A p \in Proc : state'[p] = IF p = root THEN "gone" ELSE state[p]
    BY <1>2 DEF RootEnds, TypeOK
  <2>2. Living' = Living
    <3>1. \A p \in Proc : p \in Living' <=> p \in Living
      BY <2>1, <1>2 DEF RootEnds, Living
    <3> QED
      BY <3>1 DEF Living
  <2>3. Known' \subseteq Known
    BY <2>1 DEF Known
  <2> QED
    BY <1>2, <2>2, <2>3, KernelSame DEF RootEnds, Active, KernelOK
<1>3. CASE Terminate
  <2>1. \A p \in Proc : state'[p] = IF state[p] = "alive" THEN "killed" ELSE state[p]
    BY <1>3 DEF Terminate, Killed
  <2>2. Living' = Living /\ Known' = Known
    BY <2>1 DEF Living, Known
  <2> QED
    BY <1>3, <2>2, KernelSame DEF Terminate, Active, KernelOK
<1>4. CASE Ask
  <2>1. guard = "asking" /\ UNCHANGED <<parent, report>> /\ guard' \in Active
    BY <1>4 DEF Ask, Active
  <2>2. CASE Child = {} /\ guard' = "reporting" /\ UNCHANGED state
    <3>1. Living = {}
      BY <2>1, <2>2, NoChildNoProcess DEF Active
    <3>2. Living' = Living /\ Known' = Known
      BY <2>2 DEF Living, Known
    <3> QED
      BY <2>1, <3>1, <3>2, KernelSame DEF Active, KernelOK
  <2>3. CASE guard' = "ending" /\ UNCHANGED state
    <3>1. Living' = Living /\ Known' = Known
      BY <2>3 DEF Living, Known
    <3> QED
      BY <2>1, <2>3, <3>1, KernelSame DEF Active, KernelOK
  <2>4. ASSUME NEW p \in Child, state[p] = "zombie", state' = [state EXCEPT ![p] = "gone"], guard' = guard
        PROVE  KernelOK'
    <3>1. \A q \in Proc : state'[q] = IF q = p THEN "gone" ELSE state[q]
      BY <2>4 DEF TypeOK, Child, Known
    <3>2. \A q \in Proc : q \in Living' <=> q \in Living
      BY <3>1, <2>4 DEF Living
    <3>3. Living' = Living
      BY <3>2 DEF Living
    <3>4. Known' \subseteq Known
      BY <3>1 DEF Known
    <3> QED
      BY <2>1, <2>4, <3>3, <3>4, KernelSame DEF Active, KernelOK
  <2> QED
    BY <1>4, <2>2, <2>3, <2>4 DEF Ask
<1>5. CASE Report
  <2>1. guard = "reporting" /\ guard' = "over" /\ UNCHANGED <<state, parent>> /\ report' = TRUE
    BY <1>5 DEF Report, kernel
  <2>2. Living' = {} /\ Living = {}
    BY <2>1 DEF KernelOK, Living
  <2>3. Known' = Known
    BY <2>1 DEF Known
  <2> QED
    BY <2>1, <2>2, <2>3 DEF KernelOK, Active
<1> QED
  BY <1>2, <1>3, <1>4, <1>5 DEF Supervise

LEMMA DieKeeps == ASSUME WorkAssumption, TypeOK, KernelOK, NEW p \in Proc, Die(p) PROVE KernelOK'
<1>1. \A q \in Proc : state'[q] = IF q = p THEN "zombie" ELSE state[q]
  BY DEF Die, TypeOK
<1>2. \A q \in Proc : parent'[q] = IF parent[q] = p THEN Heir ELSE parent[q]
  BY DEF Die
<1>3. p \in Living /\ UNCHANGED <<guard, report>>
  BY DEF Die
<1>4. Living' = Living \ {p} /\ Known' = Known
  BY <1>1, <1>3 DEF Living, Known
<1>5. Heir \in {Guard, PidOne} /\ (guard \in Active => Heir = Guard)
  BY DEF Heir
<1>6. \A q \in Known' : parent'[q] \in Living' \cup {Guard, PidOne}
  <2>1. \A q \in Known : q \in Proc /\ parent[q] \in Living \cup {Guard, PidOne}
    BY DEF KernelOK, Known
  <2> QED
    BY <2>1, <1>2, <1>4, <1>5
<1>7. ASSUME NEW S \in SUBSET Living', S # {} PROVE \E q \in S : parent'[q] \notin S
  <2>1. PICK q \in S : parent[q] \notin S
    BY <1>4, <1>7 DEF KernelOK
  <2>2. S \subseteq Proc /\ q \in Proc
    BY DEF Living
  <2>3. Heir \notin S
    BY <1>5, <2>2, WorkAssumption
  <2> QED
    BY <2>1, <2>2, <2>3, <1>2
<1>8. guard' \in Active => \A q \in Living' : parent'[q] # PidOne
  <2>1. \A q \in Living : q \in Proc
    BY DEF Living
  <2> QED
    BY <2>1, <1>2, <1>3, <1>4, <1>5, WorkAssumption DEF KernelOK
<1> QED
  BY <1>3, <1>4, <1>6, <1>7, <1>8 DEF KernelOK

LEMMA ForkKeeps ==
  ASSUME WorkAssumption, TypeOK, KernelOK, NEW p \in Proc, NEW q \in Proc, Fork(p, q)
  PROVE  KernelOK'
<1>1. \A x \in Proc : state'[x] = IF x = q THEN "alive" ELSE state[x]
  BY DEF Fork, TypeOK
<1>2. \A x \in Proc : parent'[x] = IF x = q THEN p ELSE parent[x]
  BY DEF Fork, TypeOK
<1>3. p \in Living /\ q \notin Known /\ q \notin Living /\ UNCHANGED <<guard, report>>
  BY DEF Fork, Known, Living
<1>4. Living' = Living \cup {q} /\ Known' = Known \cup {q}
  BY <1>1 DEF Living, Known
<1>5. Living \subseteq Known /\ Known \subseteq Proc
  BY DEF Living, Known
<1>6. \A x \in Known' : parent'[x] \in Living' \cup {Guard, PidOne}
  BY <1>2, <1>3, <1>4, <1>5 DEF KernelOK
<1>7. ASSUME NEW S \in SUBSET Living', S # {} PROVE \E x \in S : parent'[x] \notin S
  <2>1. CASE S \ {q} = {}
    <3>1. S = {q} /\ parent'[q] = p /\ p # q
      BY <1>2, <1>3, <1>7, <2>1
    <3> QED
      BY <3>1
  <2>2. CASE S \ {q} # {}
    <3>1. PICK x \in S \ {q} : parent[x] \notin S \ {q}
      BY <1>4, <2>2 DEF KernelOK
    <3>2. x \in Known /\ x # q
      BY <1>4, <1>5, <3>1
    <3>3. parent[x] # q
      BY <1>3, <3>2, WorkAssumption DEF KernelOK
    <3> QED
      BY <1>2, <1>5, <3>1, <3>2, <3>3
  <2> QED
    BY <2>1, <2>2
<1>8. guard' \in Active => \A x \in Living' : parent'[x] # PidOne
  BY <1>2, <1>3, <1>4, <1>5, WorkAssumption DEF KernelOK
<1>9. guard' \notin {"none", "reporting", "over"} /\ (report' => guard' = "over")
  BY <1>3 DEF KernelOK
<1> QED
  BY <1>6, <1>7, <1>8, <1>9 DEF KernelOK

LEMMA KernelInvariant == ASSUME WorkAssumption, IInv, [Next]_vars PROVE KernelOK'
<1>1. TypeOK /\ KernelOK /\ CopyOK
  BY DEF IInv
<1>2. CASE UNCHANGED vars
  <2>1. UNCHANGED <<state, parent, guard, report>>
    BY <1>2 DEF vars, inside, kernel
  <2> QED
    BY <1>1, <2>1 DEF KernelOK, Known, Living
<1>3. CASE Supervise
  BY <1>1, <1>3, SuperviseKeeps
<1>4. CASE GuardDies
  <2>1. guard \in Active /\ guard' = "dead" /\ UNCHANGED <<state, report>>
    BY <1>4 DEF GuardDies
  <2>2. \A p \in Proc : parent'[p] = IF parent[p] = Guard THEN PidOne ELSE parent[p]
    BY <1>4 DEF GuardDies
  <2>3. Living' = Living /\ Known' = Known /\ Known \subseteq Proc /\ Living \subseteq Proc
    BY <2>1 DEF Living, Known
  <2>4. \A p \in Known' : parent'[p] \in Living' \cup {Guard, PidOne}
    BY <1>1, <2>2, <2>3 DEF KernelOK
  <2>5. ASSUME NEW S \in SUBSET Living', S # {} PROVE \E p \in S : parent'[p] \notin S
    <3>1. PICK p \in S : parent[p] \notin S
      BY <1>1, <2>3, <2>5 DEF KernelOK
    <3> QED
      BY <2>2, <2>3, <3>1, WorkAssumption
  <2>6. ~report'
    BY <1>1, <2>1 DEF KernelOK, Active
  <2> QED
    BY <2>1, <2>4, <2>5, <2>6 DEF KernelOK, Active
<1>5. ASSUME NEW p \in Proc, Write(p) PROVE KernelOK'
  <2>1. UNCHANGED <<state, parent, guard, report>>
    BY <1>5 DEF Write, kernel
  <2> QED
    BY <1>1, <2>1 DEF KernelOK, Known, Living
<1>6. ASSUME NEW p \in Proc, Reap(p) PROVE KernelOK'
  <2>1. \A q \in Proc : state'[q] = IF q = p THEN "gone" ELSE state[q]
    BY <1>1, <1>6 DEF Reap, TypeOK
  <2>2. \A q \in Proc : q \in Living' <=> q \in Living
    BY <2>1, <1>6 DEF Reap, Living
  <2>3. Living' = Living
    BY <2>2 DEF Living
  <2>4. Known' \subseteq Known
    BY <2>1 DEF Known
  <2> QED
    BY <1>1, <1>6, <2>3, <2>4, KernelSame DEF Reap, KernelOK
<1>7. CASE Vanish
  BY <1>1, <1>7, VanishResult
<1>8. CASE Raising
  <2>1. Raise
    BY <1>8 DEF Raising, RunCancelled, RunInterrupted, Fails
  <2> QED
    BY <1>1, <2>1, RaiseResult
<1>9. CASE Quiet
  BY <1>1, <1>9, QuietLeaves
<1>10. CASE Stop
  <2>1. \A p \in Proc : state'[p] = IF state[p] = "alive" THEN "killed" ELSE state[p]
    BY <1>10 DEF Stop, Killed
  <2>2. Living' = Living /\ Known' = Known
    BY <2>1 DEF Living, Known
  <2> QED
    BY <1>1, <1>10, <2>2, KernelSame DEF Stop, KernelOK
<1>11. CASE Dispose
  BY <1>1, <1>11, CloseResult DEF Dispose
<1>12. ASSUME NEW p \in Proc, Launch(p) PROVE KernelOK'
  <2>1. guard \in {"none", "over"} /\ guard' = "waiting" /\ report' = FALSE
    BY <1>1, <1>12 DEF Launch, CopyOK
  <2>2. Living = {}
    BY <1>1, <2>1 DEF KernelOK
  <2>3. \A x \in Proc : state'[x] = IF x = p THEN "alive" ELSE state[x]
    BY <1>1, <1>12 DEF Launch, TypeOK
  <2>4. \A x \in Proc : parent'[x] = IF x = p THEN Guard ELSE parent[x]
    BY <1>1, <1>12 DEF Launch, TypeOK
  <2>5. Living' = {p} /\ Known' = Known \cup {p} /\ Known \subseteq Proc
    BY <2>2, <2>3 DEF Living, Known
  <2>6. \A x \in Known' : parent'[x] \in Living' \cup {Guard, PidOne}
    BY <1>1, <2>2, <2>4, <2>5 DEF KernelOK
  <2>7. ASSUME NEW S \in SUBSET Living', S # {} PROVE \E x \in S : parent'[x] \notin S
    BY <2>4, <2>5, <2>7, WorkAssumption
  <2>8. \A x \in Living' : parent'[x] # PidOne
    BY <2>4, <2>5, WorkAssumption
  <2> QED
    BY <2>1, <2>6, <2>7, <2>8 DEF KernelOK
<1> QED
  BY <1>1, <1>2, <1>3, <1>4, <1>5, <1>6, <1>7, <1>8, <1>9, <1>10, <1>11, <1>12, NextCases, DieKeeps,
     ForkKeeps DEF KernelStep

-----------------------------------------------------------------------------
(* The controller: when a copy is made, and what becomes of it.              *)

LEMMA CopyInvariant == ASSUME WorkAssumption, IInv, [Next]_vars PROVE CopyOK'
<1>1. TypeOK /\ KernelOK /\ CopyOK /\ KeptOK
  BY DEF IInv
<1>2. CASE UNCHANGED vars
  <2>1. UNCHANGED <<guard, written, ctl, phase, completion, returned, aim, packed, local, partial, extracted,
                    error, artifact>>
    BY <1>2 DEF vars, inside, facts, copies
  <2> QED
    BY <1>1, <2>1 DEF CopyOK, Copying, Packed
<1>3. CASE KernelStep
  <2>1. /\ UNCHANGED <<ctl, phase, completion, returned, aim, packed, local, partial, extracted, error, artifact>>
        /\ guard \in {"none", "over"} => guard' = guard
        /\ completion => written' = written
    BY <1>1, <1>3, KernelLeaves DEF CopyOK
  <2> QED
    BY <1>1, <2>1 DEF CopyOK, Copying, Packed
<1>4. CASE Vanish
  BY <1>1, <1>4, VanishResult DEF CopyOK, Copying, Packed
<1>5. CASE Raising
  <2>1. Raise /\ ctl \notin {"failing", "keep", "dispose", "result", "over"}
    BY <1>5 DEF Raising, RunCancelled, RunInterrupted, Fails
  <2>2. /\ UNCHANGED <<written, phase, completion, returned, aim, packed, local, extracted, artifact>>
        /\ guard \in {"none", "over"} => guard' = guard
        /\ error' = TRUE
        /\ aim = "partial" => partial' = "capture_failed" /\ ctl' = "dispose"
        /\ aim # "partial" => partial' = partial /\ ctl' = "failing"
    BY <1>1, <2>1, RaiseResult
  <2> QED
    BY <1>1, <2>1, <2>2 DEF CopyOK, Copying, Packed
<1>6. CASE Stop
  BY <1>1, <1>6 DEF Stop, Goto, facts, copies, CopyOK, Copying, Packed
<1>7. CASE Dispose
  <2>1. /\ UNCHANGED <<written, phase, completion, returned, aim, packed, local, partial, extracted, artifact>>
        /\ guard \in {"none", "over"} => guard' = guard
        /\ ctl = "dispose" /\ ctl' = "result"
    BY <1>1, <1>7, CloseResult DEF Dispose, Goto, facts, copies
  <2> QED
    BY <1>1, <2>1 DEF CopyOK, Copying, Packed
<1>8. ASSUME NEW p \in Proc, Launch(p) PROVE CopyOK'
  BY <1>1, <1>8 DEF Launch, Goto, facts, copies, CopyOK, Copying, Packed
<1>9. CASE Quiet
  <2>1. UNCHANGED <<guard, report, written>>
    BY <1>1, <1>9, QuietLeaves
  <2>2. CASE Begin
    BY <1>1, <2>1, <2>2 DEF Begin, Goto, facts, copies, CopyOK, KernelOK, Copying, Packed
  <2>3. CASE RunReturns
    BY <1>1, <2>1, <2>3 DEF RunReturns, Goto, facts, copies, CopyOK, KernelOK, Copying, Packed
  <2>4. CASE ReadReport
    BY <1>1, <2>1, <2>4 DEF ReadReport, Goto, facts, copies, CopyOK, KernelOK, Copying, Packed
  <2>5. CASE Examine
    BY <1>1, <2>1, <2>5 DEF Examine, TypeOK, Goto, facts, copies, CopyOK, KernelOK, Copying, Packed
  <2>6. CASE Survey
    BY <1>1, <2>1, <2>6 DEF Survey, Goto, facts, copies, CopyOK, KernelOK, Copying, Packed
  <2>7. CASE Pack
    BY <1>1, <2>1, <2>7 DEF Pack, Goto, facts, copies, CopyOK, KernelOK, Copying, Packed
  <2>8. CASE Transfer
    BY <1>1, <2>1, <2>8 DEF Transfer, TypeOK, Goto, facts, copies, CopyOK, KernelOK, Copying, Packed
  <2>9. CASE Clear
    BY <1>1, <2>1, <2>9 DEF Clear, Goto, facts, copies, CopyOK, KernelOK, Copying, Packed
  <2>10. CASE Fill
    BY <1>1, <2>1, <2>10 DEF Fill, Goto, facts, copies, CopyOK, KernelOK, Copying, Packed
  <2>11. CASE Retain
    BY <1>1, <2>1, <2>11 DEF Retain, Eligible, Goto, facts, copies, CopyOK, KernelOK, Copying, Packed
  <2>12. CASE Keep
    BY <1>1, <2>1, <2>12 DEF Keep, Goto, facts, copies, CopyOK, KernelOK, Copying, Packed
  <2>13. CASE Refuse
    BY <1>1, <2>1, <2>13 DEF Refuse, Goto, facts, copies, CopyOK, KernelOK, Copying, Packed
  <2>14. CASE Return
    BY <1>1, <2>1, <2>14 DEF Return, Goto, facts, copies, CopyOK, KernelOK, Copying, Packed
  <2>15. CASE RetainPartial
    BY <1>1, <2>1, <2>15 DEF RetainPartial, Goto, facts, copies, CopyOK, KernelOK, Copying, Packed
  <2>16. CASE Cancel
    BY <1>1, <2>1, <2>16 DEF Cancel, facts, copies, CopyOK, Copying, Packed
  <2> QED
    BY <1>9, <2>2, <2>3, <2>4, <2>5, <2>6, <2>7, <2>8, <2>9, <2>10, <2>11, <2>12, <2>13, <2>14, <2>15, <2>16 DEF Quiet
<1> QED
  BY <1>2, <1>3, <1>4, <1>5, <1>6, <1>7, <1>8, <1>9, NextCases

LEMMA KeptInvariant == ASSUME WorkAssumption, IInv, [Next]_vars PROVE KeptOK'
<1>1. TypeOK /\ KernelOK /\ CopyOK /\ KeptOK
  BY DEF IInv
<1>2. CASE UNCHANGED vars
  <2>1. UNCHANGED <<guard, written, ctl, phase, completion, returned, aim, packed, local, partial, extracted,
                    error, artifact>>
    BY <1>2 DEF vars, inside, facts, copies
  <2> QED
    BY <1>1, <2>1 DEF KeptOK, Copying, Packed, Last, WorkIsWhole, Final
<1>3. CASE KernelStep
  <2>1. /\ UNCHANGED <<ctl, phase, completion, returned, aim, packed, local, partial, extracted, error, artifact>>
        /\ guard \in {"none", "over"} => guard' = guard
        /\ completion => written' = written
    BY <1>1, <1>3, KernelLeaves DEF CopyOK
  <2> QED
    BY <1>1, <2>1 DEF CopyOK, KeptOK, Copying, Packed, Last, WorkIsWhole, Final
<1>4. CASE Vanish
  BY <1>1, <1>4, VanishResult DEF KeptOK, Copying, Packed, Last, WorkIsWhole, Final
<1>5. CASE Raising
  <2>1. Raise /\ ctl \notin {"failing", "keep", "dispose", "result", "over"}
    BY <1>5 DEF Raising, RunCancelled, RunInterrupted, Fails
  <2>2. /\ UNCHANGED <<written, phase, completion, returned, aim, packed, local, extracted, artifact>>
        /\ guard \in {"none", "over"} => guard' = guard
        /\ error' = TRUE
        /\ aim = "partial" => partial' = "capture_failed" /\ ctl' = "dispose"
        /\ aim # "partial" => partial' = partial /\ ctl' = "failing"
    BY <1>1, <2>1, RaiseResult
  <2> QED
    BY <1>1, <2>1, <2>2 DEF CopyOK, KeptOK, Copying, Packed, Last, WorkIsWhole, Final
<1>6. CASE Stop
  BY <1>1, <1>6 DEF Stop, Goto, facts, copies, CopyOK, KeptOK, Copying, Packed, Last, WorkIsWhole, Final
<1>7. CASE Dispose
  <2>1. /\ UNCHANGED <<written, phase, completion, returned, aim, packed, local, partial, extracted, artifact>>
        /\ guard \in {"none", "over"} => guard' = guard
        /\ ctl = "dispose" /\ ctl' = "result"
    BY <1>1, <1>7, CloseResult DEF Dispose, Goto, facts, copies
  <2>2. error => error'
    BY <1>7 DEF Dispose
  <2> QED
    BY <1>1, <2>1, <2>2 DEF CopyOK, KeptOK, Copying, Packed, Last, WorkIsWhole, Final
<1>8. ASSUME NEW p \in Proc, Launch(p) PROVE KeptOK'
  BY <1>1, <1>8 DEF Launch, Goto, facts, copies, CopyOK, KeptOK, Copying, Packed, Last, WorkIsWhole, Final
<1>9. CASE Quiet
  <2>1. UNCHANGED <<guard, report, written>>
    BY <1>1, <1>9, QuietLeaves
  <2>2. CASE Begin
    BY <1>1, <2>1, <2>2 DEF Begin, Goto, facts, copies, CopyOK, KeptOK, Copying, Packed, Last, WorkIsWhole, Final
  <2>3. CASE RunReturns
    BY <1>1, <2>1, <2>3 DEF RunReturns, Goto, facts, copies, CopyOK, KeptOK, Copying, Packed, Last, WorkIsWhole, Final
  <2>4. CASE ReadReport
    BY <1>1, <2>1, <2>4 DEF ReadReport, Goto, facts, copies, CopyOK, KeptOK, Copying, Packed, Last, WorkIsWhole, Final
  <2>5. CASE Examine
    BY <1>1, <2>1, <2>5 DEF Examine, Goto, facts, copies, CopyOK, KeptOK, Copying, Packed, Last, WorkIsWhole, Final
  <2>6. CASE Survey
    BY <1>1, <2>1, <2>6 DEF Survey, Goto, facts, copies, CopyOK, KeptOK, Copying, Packed, Last, WorkIsWhole, Final
  <2>7. CASE Pack
    BY <1>1, <2>1, <2>7 DEF Pack, Goto, facts, copies, CopyOK, KeptOK, Copying, Packed, Last, WorkIsWhole, Final
  <2>8. CASE Transfer
    BY <1>1, <2>1, <2>8 DEF Transfer, Goto, facts, copies, CopyOK, KeptOK, Copying, Packed, Last, WorkIsWhole, Final
  <2>9. CASE Clear
    BY <1>1, <2>1, <2>9 DEF Clear, Goto, facts, copies, CopyOK, KeptOK, Copying, Packed, Last, WorkIsWhole, Final
  <2>10. CASE Fill
    BY <1>1, <2>1, <2>10 DEF Fill, Goto, facts, copies, CopyOK, KeptOK, Copying, Packed, Last, WorkIsWhole, Final
  <2>11. CASE Retain
    BY <1>1, <2>1, <2>11 DEF Retain, Eligible, Goto, facts, copies, CopyOK, KeptOK, Copying, Packed, Last, WorkIsWhole, Final
  <2>12. CASE Keep
    BY <1>1, <2>1, <2>12 DEF Keep, Goto, facts, copies, CopyOK, KeptOK, Copying, Packed, Last, WorkIsWhole, Final
  <2>13. CASE Refuse
    BY <1>1, <2>1, <2>13 DEF Refuse, Goto, facts, copies, CopyOK, KeptOK, Copying, Packed, Last, WorkIsWhole, Final
  <2>14. CASE Return
    BY <1>1, <2>1, <2>14 DEF Return, Goto, facts, copies, CopyOK, KeptOK, Copying, Packed, Last, WorkIsWhole, Final
  <2>15. CASE RetainPartial
    <3>1. /\ UNCHANGED <<phase, completion, returned, aim, local, partial, extracted, error>>
          /\ ctl = "result" /\ ctl' = "over"
      BY <2>15 DEF RetainPartial, Goto, facts, copies
    <3>2. ASSUME artifact'.status \in Final
          PROVE  phase = "model" /\ completion /\ artifact'.tree = written
      <4>1. Ready /\ phase = "model" /\ completion
        BY <2>15, <3>2 DEF RetainPartial, Final
      <4>2. artifact' = [status |-> "saved", tree |-> IF aim = "partial" THEN extracted ELSE local]
        BY <2>15, <3>2, <4>1 DEF RetainPartial, Final
      <4>3. IF aim = "partial" THEN extracted = written ELSE local = written
        BY <1>1, <4>1 DEF Ready, KeptOK
      <4> QED
        BY <4>1, <4>2, <4>3
    <3> QED
      BY <1>1, <2>1, <3>1, <3>2 DEF KeptOK, Copying, Last, WorkIsWhole
  <2>16. CASE Cancel
    BY <1>1, <2>1, <2>16 DEF Cancel, facts, copies, KeptOK, Copying, Packed, Last, WorkIsWhole, Final
  <2> QED
    BY <1>9, <2>2, <2>3, <2>4, <2>5, <2>6, <2>7, <2>8, <2>9, <2>10, <2>11, <2>12, <2>13, <2>14, <2>15, <2>16 DEF Quiet
<1> QED
  BY <1>2, <1>3, <1>4, <1>5, <1>6, <1>7, <1>8, <1>9, NextCases

-----------------------------------------------------------------------------
(* Everything the theorems below rest on is an invariant.                    *)
THEOREM Invariance == ASSUME WorkAssumption PROVE Spec => []IInv
<1>1. Init => IInv
  BY InitInv
<1>2. IInv /\ [Next]_vars => IInv'
  BY TypeStep, KernelInvariant, CopyInvariant, KeptInvariant DEF IInv
<1> QED
  BY <1>1, <1>2, PTL DEF Spec

(* An artifact has a tree if and only if there is something to keep.         *)
THEOREM TypeCorrect == ASSUME WorkAssumption PROVE Spec => []TypeOK
<1>1. IInv => TypeOK
  BY DEF IInv
<1> QED
  BY <1>1, Invariance, PTL

(* run_guarded: a confirmed completion leaves no task process alive, however *)
(* processes fork, die, detach and escape signals.                           *)
THEOREM Stopped == ASSUME WorkAssumption PROVE Spec => []ConfirmedMeansStopped
<1>1. IInv => ConfirmedMeansStopped
  BY DEF IInv, CopyOK, KernelOK, ConfirmedMeansStopped
<1> QED
  BY <1>1, Invariance, PTL

(* native_process_guard: nothing is written while a report stands.           *)
THEOREM ReportIsLast == ASSUME WorkAssumption PROVE Spec => NothingWrittenAfterReport
<1>1. IInv /\ [Next]_vars => [report /\ report' => written' = written]_vars
  <2> SUFFICES ASSUME IInv, Next, report, report' PROVE written' = written
    BY DEF vars, inside
  <2>1. TypeOK /\ KernelOK /\ guard = "over"
    BY DEF IInv, KernelOK
  <2>2. CASE KernelStep
    BY <2>1, <2>2, KernelLeaves
  <2>3. CASE Raising
    BY <2>1, <2>3, RaiseResult DEF Raising, RunCancelled, RunInterrupted, Fails
  <2>4. CASE Vanish \/ Dispose
    BY <2>1, <2>4, VanishResult, CloseResult DEF Dispose
  <2>5. CASE Quiet
    BY <2>1, <2>5, QuietLeaves
  <2>6. CASE Stop \/ \E p \in Proc : Launch(p)
    BY <2>6 DEF Stop, Launch
  <2> QED
    BY <2>2, <2>3, <2>4, <2>5, <2>6, NextCases
<1> QED
  BY <1>1, Invariance, PTL DEF Spec, NothingWrittenAfterReport

(* _copy_workspace, _retain_partial: what is returned or kept is the last    *)
(* state of the workspace of the model session.                              *)
THEOREM Whole == ASSUME WorkAssumption PROVE Spec => []WorkIsWhole
<1>1. IInv => WorkIsWhole
  BY DEF IInv, KeptOK, WorkIsWhole
<1> QED
  BY <1>1, Invariance, PTL

(* While the controller is at work the engine has been given nothing.        *)
LEMMA NotYet == ASSUME TypeOK, KeptOK, ctl # "over" PROVE Invocation!Undecided
<1>1. artifact.status = "none"
  BY DEF KeptOK
<1>2. artifact \in [status: Final, tree: Tree \ {None}] \cup [status: Status, tree: {None}]
  BY DEF TypeOK
<1>3. artifact \in [status: Status, tree: {None}]
  BY <1>1, <1>2 DEF Final
<1>4. artifact = [status |-> "none", tree |-> None]
  BY <1>1, <1>3
<1> QED
  BY <1>4 DEF Invocation!Undecided

(* What the engine cannot tell from nothing at all.                         *)
LEMMA Unnoticed ==
  ASSUME UNCHANGED <<phase, completion, written, artifact>>
  PROVE  [Invocation!Next]_(Invocation!vars)
BY DEF Invocation!vars

(* Task processes write before their end is confirmed, and then no more.     *)
LEMMA WorkStep ==
  ASSUME TypeOK, KernelOK, CopyOK, KernelStep PROVE [Invocation!Next]_(Invocation!vars)
<1>1. UNCHANGED <<phase, completion, artifact>> /\ (guard = "over" => written' = written)
  BY KernelLeaves
<1>2. written' = written \/ written' = written + 1
  <2>1. ASSUME Supervise \/ GuardDies PROVE written' = written
    BY <2>1 DEF Supervise, RootEnds, Terminate, Ask, Report, GuardDies
  <2>2. ASSUME NEW p \in Proc, Write(p) PROVE written' = written + 1
    BY <2>2 DEF Write
  <2>3. ASSUME NEW p \in Proc, Die(p) \/ Reap(p) \/ \E q \in Proc : Fork(p, q)
        PROVE  written' = written
    BY <2>3 DEF Die, Reap, Fork
  <2> QED
    BY <2>1, <2>2, <2>3 DEF KernelStep
<1>3. CASE written' = written
  BY <1>1, <1>3, Unnoticed
<1>4. CASE written' = written + 1 /\ written' # written
  <2>1. ~completion
    BY <1>1, <1>4 DEF CopyOK
  <2>2. Invocation!Work
    BY <1>1, <1>4, <2>1 DEF Invocation!Work
  <2> QED
    BY <2>2 DEF Invocation!Next
<1> QED
  BY <1>2, <1>3, <1>4

(* The controller begins a session, confirms its end and decides once.       *)
LEMMA DecisionStep ==
  ASSUME IInv, Begin \/ ReadReport \/ Return \/ RetainPartial
  PROVE  [Invocation!Next]_(Invocation!vars)
<1>1. TypeOK /\ CopyOK /\ KeptOK
  BY DEF IInv
<1>2. ctl # "over" /\ UNCHANGED written
  BY DEF Begin, ReadReport, Return, RetainPartial, inside
<1>3. Invocation!Undecided
  BY <1>1, <1>2, NotYet
<1>4. CASE Begin
  <2>1. Invocation!Begin
    BY <1>2, <1>3, <1>4 DEF Begin, Invocation!Begin
  <2> QED
    BY <2>1 DEF Invocation!Next
<1>5. CASE ReadReport
  <2>1. phase # "setup"
    BY <1>1, <1>5 DEF ReadReport, CopyOK
  <2>2. Invocation!Confirm
    BY <1>2, <1>3, <1>5, <2>1 DEF ReadReport, Invocation!Confirm
  <2> QED
    BY <2>2 DEF Invocation!Next
<1>6. CASE Return
  <2>1. /\ artifact' = [status |-> "returned", tree |-> local]
        /\ UNCHANGED <<phase, completion>>
    BY <1>6 DEF Return, facts
  <2>2. completion /\ phase = "model" /\ local = written
    BY <1>1, <1>6 DEF Return, KeptOK
  <2>3. Invocation!HandOver
    BY <1>2, <1>3, <2>1, <2>2 DEF Invocation!HandOver
  <2> QED
    BY <2>3 DEF Invocation!Next
<1>7. CASE RetainPartial
  <2>1. UNCHANGED <<phase, completion>>
    BY <1>7 DEF RetainPartial, facts
  <2>2. CASE Ready /\ phase = "model" /\ completion
            /\ artifact' = [status |-> "saved", tree |-> IF aim = "partial" THEN extracted ELSE local]
    <3>1. (IF aim = "partial" THEN extracted ELSE local) = written
      BY <1>1, <2>2 DEF Ready, KeptOK
    <3>2. Invocation!HandOver
      BY <1>2, <1>3, <2>1, <2>2, <3>1 DEF Invocation!HandOver
    <3> QED
      BY <3>2 DEF Invocation!Next
  <2>3. CASE \E status \in {"unavailable", "capture_failed"} :
               artifact' = [status |-> status, tree |-> None]
    <3>1. Invocation!Decline
      BY <1>2, <1>3, <2>1, <2>3 DEF Invocation!Decline
    <3> QED
      BY <3>1 DEF Invocation!Next
  <2> QED
    BY <1>7, <2>2, <2>3 DEF RetainPartial
<1> QED
  BY <1>4, <1>5, <1>6, <1>7

(* The invocation keeps its contract with the engine: one workspace, whole,  *)
(* of the model session, handed over when nothing can write to it any more   *)
(* (run_guarded, _copy_workspace, _retain_partial).                          *)
THEOREM Refinement == ASSUME WorkAssumption PROVE Spec => InvocationKept
<1>1. Init => Invocation!Init
  BY DEF Init, Invocation!Init, Invocation!Undecided
<1>2. IInv /\ [Next]_vars => [Invocation!Next]_(Invocation!vars)
  <2> SUFFICES ASSUME IInv, [Next]_vars PROVE [Invocation!Next]_(Invocation!vars)
    OBVIOUS
  <2>1. TypeOK /\ KernelOK /\ CopyOK /\ KeptOK
    BY DEF IInv
  <2>2. CASE KernelStep
    BY <2>1, <2>2, WorkStep
  <2>3. CASE Begin \/ ReadReport \/ Return \/ RetainPartial
    BY <2>3, DecisionStep
  <2>4. CASE Vanish
    BY <2>1, <2>4, VanishResult, Unnoticed
  <2>5. CASE Raising
    BY <2>1, <2>5, RaiseResult, Unnoticed DEF Raising, RunCancelled, RunInterrupted, Fails
  <2>6. CASE Quiet /\ ~(Begin \/ ReadReport \/ Return \/ RetainPartial)
    BY <2>6, Unnoticed DEF Quiet, RunReturns, Examine, Survey, Pack, Transfer, Clear, Fill, Retain,
       Keep, Refuse, Cancel, inside, facts, copies
  <2>7. CASE Dispose
    BY <2>1, <2>7, CloseResult, Unnoticed DEF Dispose, facts
  <2>8. CASE Stop \/ \E p \in Proc : Launch(p)
    BY <2>8, Unnoticed DEF Stop, Launch, facts
  <2>9. CASE UNCHANGED vars
    BY <2>9, Unnoticed DEF vars, inside, facts
  <2> QED
    BY <2>2, <2>3, <2>4, <2>5, <2>6, <2>7, <2>8, <2>9, NextCases
<1> QED
  BY <1>1, <1>2, Invariance, PTL DEF Spec, InvocationKept, Invocation!Spec

=============================================================================
