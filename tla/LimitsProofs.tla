---------------------------- MODULE LimitsProofs ----------------------------
(***************************************************************************)
(* Theorems about LimitsLoading, for any tasks, geos and limits.           *)
(***************************************************************************)
EXTENDS LimitsLoading, TLAPS

\* The maps are functions of the keys, which TypeOK says of their entries only.
Shape ==
    /\ db \in [Keys -> AnyItem \cup {NoItem, Deleted}]
    /\ limits \in [Keys -> AnyItem \cup {NoItem}]
    /\ loader \in [pc : {"tick", "tasks", "lock", "fill"},
                   read : [Keys -> AnyItem \cup {NoItem}], todo : SUBSET Uids]

\* Geos are never without a row.
GeosExist == \A g \in Geos : db[g] \in Items[g]

\* Unless they were read in part once: all geos are read,
GeosRead == cut \/ loader.pc = "tick" \/ \A g \in Geos : loader.read[g] # NoItem

GeosLoaded == \A g \in Geos : limits[g] # NoItem

\* limitsMap has all geos as soon as it has anything,
GeosFirst ==
    /\ cut \/ GeosLoaded \/ \A k \in Keys : limits[k] = NoItem
    /\ loader.pc = "lock" => Unpublished
    /\ Filling /\ ~Unpublished => cut \/ GeosLoaded

\* and a cps that overrides was read of an entry, so after the geos were loaded.
CpsIsLoaded ==
    /\ disp.pc = "above" /\ disp.cps > 0 => cut \/ GeosLoaded
    /\ disp.pc \in {"zero", "write"} => cut \/ GeosLoaded

IInv == /\ TypeOK /\ Shape
        /\ GeosExist /\ GeosRead /\ GeosFirst
        /\ CpsIsLoaded /\ OverrideIsConfigured

LEMMA NoItemIsNone == \A k \in Keys : /\ NoItem \notin Items[k] /\ Deleted \notin Items[k]
                                      /\ Items[k] \subseteq AnyItem
                                      /\ \A item \in Items[k] : item.cps \in Nat
<1>1. ASSUME NEW k \in Keys
      PROVE  Items[k] \subseteq [nlines : Nat, cps : Nat]
  BY ItemData
<1>2. ASSUME NEW k \in Keys PROVE Items[k] \subseteq AnyItem
  BY DEF AnyItem
<1>. QED
  BY <1>1, <1>2, Fresh

LEMMA CpsType == TypeOK => \A k \in Keys : Cps(k) \in Nat
  BY NoItemIsNone DEF TypeOK, Cps

LEMMA NewestOne ==
  ASSUME NEW tasks \in SUBSET Uids, NEW u, NEW v, Newest(tasks, u), Newest(tasks, v)
  PROVE  u = v
<1>1. u \in Uids /\ v \in Uids /\ TaskId[u] \in Nat /\ TaskId[v] \in Nat
      /\ TaskId[u] <= TaskId[v] /\ TaskId[v] <= TaskId[u]
  BY TaskData DEF Newest
<1>2. TaskId[u] = TaskId[v]
  BY <1>1
<1>. QED
  BY <1>1, <1>2, TaskData

LEMMA InitLimits == Init => IInv
<1> SUFFICES ASSUME Init PROVE IInv
  OBVIOUS
<1>1. TypeOK
  <2>1. \A k \in Keys : db[k] \in Items[k] \cup {NoItem, Deleted}
    BY DEF Init, Keys
  <2>2. disp \in [pc : DispPcs, todo : SUBSET Uids, cps : Nat, clear : BOOLEAN]
        /\ disp.pc = "task"
    BY DEF Init, IdleDisp, DispPcs
  <2>3. /\ loader.pc = "tick" /\ loader.todo = {}
        /\ \A k \in Keys : loader.read[k] = NoItem /\ limits[k] = NoItem
    BY DEF Init, IdleLoader
  <2>4. work \in [Uids -> Nat \cup {NoItem}] /\ faults \in 0..MaxFaults
    BY FaultBound DEF Init
  <2>5. cut \in BOOLEAN
    BY DEF Init
  <2>. QED
    BY <2>1, <2>2, <2>3, <2>4, <2>5 DEF TypeOK
<1>2. Shape
  <2>1. db \in [Keys -> AnyItem \cup {NoItem, Deleted}]
    BY DEF Init
  <2>2. limits \in [Keys -> AnyItem \cup {NoItem}]
    BY DEF Init
  <2>3. loader \in [pc : {"tick", "tasks", "lock", "fill"},
                    read : [Keys -> AnyItem \cup {NoItem}], todo : SUBSET Uids]
    BY DEF Init, IdleLoader
  <2>. QED
    BY <2>1, <2>2, <2>3 DEF Shape
<1>3. GeosExist /\ GeosRead /\ GeosFirst /\ CpsIsLoaded /\ OverrideIsConfigured
  BY DEF Init, GeosExist, GeosRead, GeosFirst, CpsIsLoaded, OverrideIsConfigured, IdleLoader,
         IdleDisp, Filling, At
<1>. QED
  BY <1>1, <1>2, <1>3 DEF IInv

\* Operators change rows of the database and nothing else.
LEMMA StepOperator == IInv /\ Operator => IInv'
<1> SUFFICES ASSUME IInv, Operator PROVE IInv'
  OBVIOUS
<1>1. UNCHANGED <<limits, loader, disp, work, faults, cut>>
  BY DEF Operator, Upload, EditBranch, EditGeo, Delete
<1>2. PICK k \in Keys : \E item \in Items[k] \cup {Deleted} :
        /\ db' = [db EXCEPT ![k] = item]
        /\ k \in Geos => item \in Items[k]
  <2>1. ASSUME NEW u \in Uids,
               Delete(u) \/ \E item \in Items[u] : Upload(u, item) \/ EditBranch(u, item)
        PROVE  \E item \in Items[u] \cup {Deleted} : db' = [db EXCEPT ![u] = item]
    BY <2>1 DEF Upload, EditBranch, Delete
  <2>2. ASSUME NEW g \in Geos, \E item \in Items[g] : EditGeo(g, item)
        PROVE  \E item \in Items[g] : db' = [db EXCEPT ![g] = item]
    BY <2>2 DEF EditGeo
  <2>. QED
    BY <2>1, <2>2, KeysDisjoint DEF Operator, Keys
<1>3. PICK item \in Items[k] \cup {Deleted} :
        /\ db' = [db EXCEPT ![k] = item]
        /\ k \in Geos => item \in Items[k]
  BY <1>2
<1>4. db \in [Keys -> AnyItem \cup {NoItem, Deleted}]
  BY DEF IInv, Shape
<1>5. \A j \in Keys : db'[j] = IF j = k THEN item ELSE db[j]
  BY <1>3, <1>4
<1>6. db' \in [Keys -> AnyItem \cup {NoItem, Deleted}]
  BY <1>3, <1>4, NoItemIsNone
<1>7. TypeOK'
  BY <1>1, <1>3, <1>5 DEF IInv, TypeOK
<1>8. GeosExist'
  BY <1>3, <1>5 DEF IInv, GeosExist, Keys
<1>. QED
  BY <1>1, <1>6, <1>7, <1>8 DEF IInv, Shape, GeosRead, GeosFirst, GeosLoaded, CpsIsLoaded,
     OverrideIsConfigured, Unpublished, Filling, At

LEMMA StepLoader == IInv /\ (Loader \/ FetchFails \/ FetchGeosPart) => IInv'
<1> SUFFICES ASSUME IInv, Loader \/ FetchFails \/ FetchGeosPart PROVE IInv'
  OBVIOUS
<1>a. /\ loader \in [pc : {"tick", "tasks", "lock", "fill"},
                     read : [Keys -> AnyItem \cup {NoItem}], todo : SUBSET Uids]
      /\ Geos \subseteq Keys /\ Uids \subseteq Keys /\ Existing \subseteq Uids
  BY DEF IInv, Shape, Keys, Existing
<1>b. /\ IdleLoader.pc = "tick" /\ IdleLoader.todo = {}
      /\ \A k \in Keys : IdleLoader.read[k] = NoItem
      /\ IdleLoader \in [pc : {"tick", "tasks", "lock", "fill"},
                         read : [Keys -> AnyItem \cup {NoItem}], todo : SUBSET Uids]
  BY DEF IdleLoader
<1>1. CASE FetchGeos
  <2> DEFINE r == [k \in Keys |-> IF k \in Geos THEN db[k] ELSE NoItem]
  <2>1. r \in [Keys -> AnyItem \cup {NoItem}] /\ \A k \in Keys : r[k] \in Items[k] \cup {NoItem}
    BY <1>a, NoItemIsNone DEF IInv, GeosExist
  <2>2. \A g \in Geos : r[g] # NoItem
    BY <1>a, NoItemIsNone DEF IInv, GeosExist
  <2>3. loader' = [IdleLoader EXCEPT !.pc = "tasks", !.read = r]
        /\ UNCHANGED <<db, limits, disp, work, faults, cut>>
    BY <1>1 DEF FetchGeos
  <2> HIDE DEF r
  <2>4. loader' = [pc |-> "tasks", read |-> r, todo |-> {}]
    BY <2>3 DEF IdleLoader
  <2>a. loader'.pc = "tasks" /\ loader'.read = r /\ loader'.todo = {}
        /\ loader' \in [pc : {"tick", "tasks", "lock", "fill"},
                        read : [Keys -> AnyItem \cup {NoItem}], todo : SUBSET Uids]
    BY <2>1, <2>4
  <2>5. TypeOK' /\ Shape'
    BY <2>1, <2>3, <2>a DEF IInv, TypeOK, Shape
  <2>6. GeosRead'
    BY <2>2, <2>4 DEF GeosRead
  <2>. QED
    BY <2>3, <2>4, <2>5, <2>6 DEF IInv, GeosExist, GeosFirst, GeosLoaded, CpsIsLoaded,
       OverrideIsConfigured, Unpublished, Filling, At
<1>2. CASE FetchTasks
  <2> DEFINE r == [k \in Keys |-> IF k \in Uids THEN RowOf(k) ELSE loader.read[k]]
  <2>1. /\ r \in [Keys -> AnyItem \cup {NoItem}]
        /\ \A k \in Keys : r[k] \in Items[k] \cup {NoItem}
        /\ \A u \in Uids : r[u] # NoItem <=> u \in Existing
    <3>1. ASSUME NEW u \in Uids
          PROVE  /\ RowOf(u) \in Items[u] \cup {NoItem}
                 /\ RowOf(u) # NoItem <=> u \in Existing
      BY <1>a, NoItemIsNone DEF RowOf, Existing
    <3>2. \A k \in Keys : r[k] = IF k \in Uids THEN RowOf(k) ELSE loader.read[k]
      OBVIOUS
    <3>3. \A k \in Keys : r[k] \in Items[k] \cup {NoItem}
      BY <3>1, <3>2 DEF IInv, TypeOK
    <3>4. \A u \in Uids : r[u] # NoItem <=> u \in Existing
      BY <3>1, <3>2, <1>a
    <3>5. r \in [Keys -> AnyItem \cup {NoItem}]
      <4>1. \A k \in Keys : r[k] \in AnyItem \cup {NoItem}
        BY <3>3, NoItemIsNone
      <4>. QED
        BY <4>1
    <3>. QED
      BY <3>3, <3>4, <3>5
  <2>2. cut \/ \A g \in Geos : r[g] # NoItem
    BY <1>2, <1>a, KeysDisjoint DEF FetchTasks, IInv, GeosRead
  <2>3. /\ loader' = [loader EXCEPT !.pc = "lock", !.todo = Existing, !.read = r]
        /\ UNCHANGED <<db, limits, disp, work, faults, cut>>
    BY <1>2 DEF FetchTasks
  <2> HIDE DEF r
  <2>4. loader' = [pc |-> "lock", read |-> r, todo |-> Existing]
    BY <2>3, <1>a
  <2>5. TypeOK' /\ Shape'
    BY <2>1, <2>3, <2>4, <1>a DEF IInv, TypeOK, Shape
  <2>6. GeosRead' /\ Unpublished'
    <3>1. Unpublished'
      BY <2>1, <2>4, <1>a DEF Unpublished
    <3>2. GeosRead'
      BY <2>2, <2>3, <2>4 DEF GeosRead
    <3>. QED
      BY <3>1, <3>2
  <2>. QED
    BY <2>3, <2>4, <2>5, <2>6 DEF IInv, GeosExist, GeosFirst, GeosLoaded, CpsIsLoaded,
       OverrideIsConfigured, Filling, At
<1>3. CASE FetchFails
  <2>1. loader' = IdleLoader /\ UNCHANGED <<db, limits, disp, work, cut>> /\ faults' \in 0..MaxFaults
    BY <1>3, FaultBound DEF FetchFails, IInv, TypeOK
  <2>2. TypeOK' /\ Shape'
    BY <2>1, <1>b DEF IInv, TypeOK, Shape
  <2>. QED
    BY <2>1, <2>2, <1>b DEF IInv, GeosExist, GeosRead, GeosFirst, GeosLoaded, CpsIsLoaded,
       OverrideIsConfigured, Unpublished, Filling, At
<1>4. CASE Lock
  <2>1. /\ loader' = [loader EXCEPT !.pc = "fill"] /\ loader.pc = "lock"
        /\ UNCHANGED <<db, limits, work, faults, cut>>
        /\ disp' = [disp EXCEPT !.clear = FALSE]
    BY <1>4 DEF Lock
  <2>2. /\ loader'.pc = "fill" /\ loader'.read = loader.read /\ loader'.todo = loader.todo
        /\ loader' \in [pc : {"tick", "tasks", "lock", "fill"},
                        read : [Keys -> AnyItem \cup {NoItem}], todo : SUBSET Uids]
    BY <2>1, <1>a
  <2>3. /\ disp'.pc = disp.pc /\ disp'.todo = disp.todo /\ disp'.cps = disp.cps
        /\ disp' \in [pc : DispPcs, todo : SUBSET Uids, cps : Nat, clear : BOOLEAN]
    BY <2>1 DEF IInv, TypeOK
  <2>4. TypeOK' /\ Shape'
    BY <2>1, <2>2, <2>3 DEF IInv, TypeOK, Shape
  <2>5. Unpublished'
    BY <2>1, <2>2 DEF IInv, GeosFirst, Unpublished
  <2>. QED
    BY <2>1, <2>2, <2>3, <2>4, <2>5 DEF IInv, GeosExist, GeosRead, GeosFirst, GeosLoaded,
       CpsIsLoaded, OverrideIsConfigured, At
<1>5. ASSUME NEW u \in Uids, Put(u) PROVE IInv'
  <2> DEFINE before == IF Unpublished
                       THEN [k \in Keys |-> IF k \in Geos THEN loader.read[k] ELSE NoItem]
                       ELSE limits
  <2>1. /\ loader.pc = "fill" /\ u \in loader.todo
        /\ limits' = [before EXCEPT ![u] = loader.read[u]]
        /\ loader' = [loader EXCEPT !.todo = @ \ {u}]
        /\ UNCHANGED <<db, disp, work, faults, cut>>
    BY <1>5 DEF Put, Filling, Newest
  <2>2. /\ before \in [Keys -> AnyItem \cup {NoItem}]
        /\ \A k \in Keys : before[k] \in Items[k] \cup {NoItem}
        /\ cut \/ \A g \in Geos : before[g] # NoItem
    <3>1. CASE Unpublished
      BY <3>1, <2>1, <1>a DEF IInv, TypeOK, GeosRead
    <3>2. CASE ~Unpublished
      BY <3>2, <2>1, <1>a DEF IInv, TypeOK, Shape, GeosFirst, GeosLoaded, Filling
    <3>. QED
      BY <3>1, <3>2
  <2> HIDE DEF before
  <2>3. /\ limits' \in [Keys -> AnyItem \cup {NoItem}]
        /\ \A k \in Keys : limits'[k] \in Items[k] \cup {NoItem}
        /\ cut \/ GeosLoaded'
    <3>1. u \in Keys /\ loader.read[u] \in Items[u] \cup {NoItem}
          /\ loader.read[u] \in AnyItem \cup {NoItem}
      BY <1>a DEF IInv, TypeOK
    <3>2. \A k \in Keys : limits'[k] = IF k = u THEN loader.read[u] ELSE before[k]
      BY <2>1, <2>2
    <3>3. limits' \in [Keys -> AnyItem \cup {NoItem}]
      BY <2>1, <2>2, <3>1
    <3>4. cut \/ GeosLoaded'
      BY <2>2, <3>2, <1>a, KeysDisjoint DEF GeosLoaded
    <3>. QED
      BY <2>2, <3>1, <3>2, <3>3, <3>4
  <2>4. /\ loader'.pc = "fill" /\ loader'.read = loader.read /\ loader'.todo = loader.todo \ {u}
        /\ loader' \in [pc : {"tick", "tasks", "lock", "fill"},
                        read : [Keys -> AnyItem \cup {NoItem}], todo : SUBSET Uids]
    BY <2>1, <1>a
  <2>5. TypeOK' /\ Shape'
    BY <2>1, <2>3, <2>4 DEF IInv, TypeOK, Shape
  <2>6. GeosExist' /\ GeosRead' /\ GeosFirst' /\ CpsIsLoaded' /\ OverrideIsConfigured'
    BY <2>1, <2>3, <2>4 DEF IInv, GeosExist, GeosRead, GeosFirst, CpsIsLoaded,
       OverrideIsConfigured, At
  <2>. QED
    BY <2>5, <2>6 DEF IInv
<1>6. CASE Unlock
  <2>1. loader' = IdleLoader /\ UNCHANGED <<db, limits, disp, work, faults, cut>>
    BY <1>6 DEF Unlock
  <2>2. TypeOK' /\ Shape'
    BY <2>1, <1>b DEF IInv, TypeOK, Shape
  <2>. QED
    BY <2>1, <2>2, <1>b DEF IInv, GeosExist, GeosRead, GeosFirst, GeosLoaded, CpsIsLoaded,
       OverrideIsConfigured, Unpublished, Filling, At
<1>7. CASE FetchGeosPart
  <2>1. PICK part \in SUBSET Geos :
          loader' = [IdleLoader EXCEPT !.pc = "tasks",
                       !.read = [k \in Keys |-> IF k \in part THEN db[k] ELSE NoItem]]
    BY <1>7 DEF FetchGeosPart
  <2> DEFINE r == [k \in Keys |-> IF k \in part THEN db[k] ELSE NoItem]
  <2>2. r \in [Keys -> AnyItem \cup {NoItem}] /\ \A k \in Keys : r[k] \in Items[k] \cup {NoItem}
    BY <1>a, NoItemIsNone DEF IInv, GeosExist
  <2>3. loader' = [IdleLoader EXCEPT !.pc = "tasks", !.read = r]
    BY <2>1
  <2> HIDE DEF r
  <2>4. loader' = [pc |-> "tasks", read |-> r, todo |-> {}]
    BY <2>3 DEF IdleLoader
  <2>5. loader'.pc = "tasks" /\ loader'.read = r /\ loader'.todo = {}
        /\ loader' \in [pc : {"tick", "tasks", "lock", "fill"},
                        read : [Keys -> AnyItem \cup {NoItem}], todo : SUBSET Uids]
    BY <2>2, <2>4
  <2>6. /\ cut' = TRUE /\ db' = db /\ limits' = limits /\ disp' = disp /\ work' = work
        /\ faults' \in 0..MaxFaults
    <3>1. cut' = TRUE /\ db' = db /\ limits' = limits /\ disp' = disp /\ work' = work
      BY <1>7 DEF FetchGeosPart
    <3>2. faults' \in 0..MaxFaults
      <4>1. faults < MaxFaults /\ faults' = faults + 1
        BY <1>7 DEF FetchGeosPart
      <4>2. faults \in 0..MaxFaults
        BY DEF IInv, TypeOK
      <4>. QED
        BY <4>1, <4>2, FaultBound
    <3>. QED
      BY <3>1, <3>2
  <2>7. TypeOK' /\ Shape'
    BY <2>2, <2>5, <2>6 DEF IInv, TypeOK, Shape
  <2>. QED
    BY <2>5, <2>6, <2>7 DEF IInv, GeosExist, GeosRead, GeosFirst, CpsIsLoaded,
       OverrideIsConfigured, Filling
<1>. QED
  BY <1>1, <1>2, <1>3, <1>4, <1>5, <1>6, <1>7 DEF Loader

-----------------------------------------------------------------------------
(* The dispatcher.                                                         *)

\* It moves on within a task.
LEMMA StepPc ==
  ASSUME IInv, NEW pc \in DispPcs, NEW n \in Nat, disp.todo # {},
         disp'.pc = pc, disp'.todo = disp.todo, disp'.cps = n,
         disp' \in [pc : DispPcs, todo : SUBSET Uids, cps : Nat, clear : BOOLEAN],
         work' \in [Uids -> Nat \cup {NoItem}], UNCHANGED <<db, limits, loader, faults, cut>>,
         pc = "above" /\ n > 0 => cut \/ GeosLoaded,
         pc \in {"zero", "write"} => cut \/ GeosLoaded,
         pc = "write" => cut \/ \A u \in Uids : Newest(disp.todo, u) =>
                            \E item \in Items[TaskGeo[u]] : item.cps = 0
  PROVE  IInv'
<1>1. TypeOK' /\ Shape'
  BY DEF IInv, TypeOK, Shape
<1>2. GeosExist' /\ GeosRead' /\ GeosFirst'
  BY DEF IInv, GeosExist, GeosRead, GeosFirst, GeosLoaded, Unpublished, Filling
<1>3. CpsIsLoaded'
  BY DEF CpsIsLoaded, GeosLoaded
<1>4. OverrideIsConfigured'
  BY DEF OverrideIsConfigured, At, Newest
<1>. QED
  BY <1>1, <1>2, <1>3, <1>4 DEF IInv

\* It begins a pass, or leaves a task.
LEMMA StepTask ==
  ASSUME IInv, disp'.pc = "task",
         disp' \in [pc : DispPcs, todo : SUBSET Uids, cps : Nat, clear : BOOLEAN],
         work' \in [Uids -> Nat \cup {NoItem}], UNCHANGED <<db, limits, loader, faults, cut>>
  PROVE  IInv'
<1>1. TypeOK' /\ Shape'
  BY DEF IInv, TypeOK, Shape
<1>2. GeosExist' /\ GeosRead' /\ GeosFirst'
  BY DEF IInv, GeosExist, GeosRead, GeosFirst, GeosLoaded, Unpublished, Filling
<1>3. CpsIsLoaded' /\ OverrideIsConfigured'
  BY DEF CpsIsLoaded, OverrideIsConfigured, At
<1>. QED
  BY <1>1, <1>2, <1>3 DEF IInv

LEMMA StepDispatcher == IInv /\ Dispatcher => IInv'
<1> SUFFICES ASSUME IInv, Dispatcher PROVE IInv'
  OBVIOUS
<1>a. /\ disp \in [pc : DispPcs, todo : SUBSET Uids, cps : Nat, clear : BOOLEAN]
      /\ work \in [Uids -> Nat \cup {NoItem}]
      /\ DispPcs = {"task", "cps", "add", "branch", "above", "zero", "write"}
  BY DEF IInv, TypeOK, DispPcs
<1>b. \A k \in Keys : Cps(k) \in Nat
  BY CpsType DEF IInv
<1>c. Uids \subseteq Keys /\ Geos \subseteq Keys
  BY DEF Keys
<1>d. ASSUME NEW pc \in DispPcs, Goto(pc)
      PROVE  /\ disp'.pc = pc /\ disp'.todo = disp.todo /\ disp'.cps = disp.cps
             /\ disp' \in [pc : DispPcs, todo : SUBSET Uids, cps : Nat, clear : BOOLEAN]
  BY <1>a, <1>d DEF Goto
<1>e. ASSUME NEW u \in Uids, Done(u)
      PROVE  /\ disp'.pc = "task"
             /\ disp' \in [pc : DispPcs, todo : SUBSET Uids, cps : Nat, clear : BOOLEAN]
  BY <1>a, <1>e DEF Done
<1>f. \A pc : \A u : At(pc, u) => disp.pc = pc /\ u \in disp.todo
  BY DEF At, Newest
<1>1. CASE Tick
  <2>1. disp' = [pc |-> "task", todo |-> Existing, cps |-> 0, clear |-> ~Filling]
    BY <1>1 DEF Tick, IdleDisp
  <2>2. disp'.pc = "task"
        /\ disp' \in [pc : DispPcs, todo : SUBSET Uids, cps : Nat, clear : BOOLEAN]
    BY <2>1, <1>a DEF Existing, Filling
  <2>. QED
    BY <1>1, <1>a, <2>2, StepTask DEF Tick
<1>2. ASSUME NEW u \in Uids, FindEntry(u) PROVE IInv'
  <2>1. PICK pc \in {"cps", "branch"} : Goto(pc)
    BY <1>2 DEF FindEntry
  <2>. QED
    BY <1>2, <1>a, <1>d, <1>f, <2>1, StepPc DEF FindEntry
<1>3. ASSUME NEW u \in Uids, ReadCps(u, "cps", "add") PROVE IInv'
  <2>1. /\ disp'.pc = "add" /\ disp'.todo = disp.todo /\ disp'.cps = Cps(u)
        /\ disp' \in [pc : DispPcs, todo : SUBSET Uids, cps : Nat, clear : BOOLEAN]
    BY <1>3, <1>a, <1>b, <1>c DEF ReadCps
  <2>. QED
    BY <1>3, <1>a, <1>b, <1>c, <1>f, <2>1, StepPc DEF ReadCps
<1>4. ASSUME NEW u \in Uids, AddEntry(u) PROVE IInv'
  <2>1. /\ disp'.pc = "branch" /\ disp'.todo = disp.todo /\ disp'.cps = 0
        /\ disp' \in [pc : DispPcs, todo : SUBSET Uids, cps : Nat, clear : BOOLEAN]
    BY <1>4, <1>a DEF AddEntry
  <2>2. work' \in [Uids -> Nat \cup {NoItem}]
    BY <1>4, <1>a DEF AddEntry
  <2>. QED
    BY <1>4, <1>a, <1>f, <2>1, <2>2, StepPc DEF AddEntry
<1>5. ASSUME NEW u \in Uids, ReadBranchCps(u) PROVE IInv'
  <2>1. /\ disp'.pc = "above" /\ disp'.todo = disp.todo /\ disp'.cps = Cps(u)
        /\ disp' \in [pc : DispPcs, todo : SUBSET Uids, cps : Nat, clear : BOOLEAN]
    BY <1>5, <1>a, <1>b, <1>c DEF ReadBranchCps, ReadCps
  <2>2. Cps(u) > 0 => cut \/ GeosLoaded
    BY <1>c DEF Cps, IInv, GeosFirst
  <2>3. disp.todo # {} /\ UNCHANGED <<db, limits, loader, work, faults, cut>>
    BY <1>5, <1>f DEF ReadBranchCps, ReadCps
  <2>. QED
    BY <1>a, <1>b, <1>c, <2>1, <2>2, <2>3, StepPc
<1>6. ASSUME NEW u \in Uids, CompareGeoCps(u) PROVE IInv'
  <2>1. CASE Done(u)
    BY <1>6, <2>1, <1>a, <1>e, StepTask DEF CompareGeoCps
  <2>2. CASE disp.cps > Cps(TaskGeo[u]) /\ Goto("zero")
    <3>1. TaskGeo[u] \in Keys
      BY TaskData, <1>c
    <3>2. disp.cps > 0
      BY <2>2, <3>1, <1>a, <1>b
    <3>3. (cut \/ GeosLoaded) /\ disp.todo # {} /\ UNCHANGED <<db, limits, loader, work, faults, cut>>
      BY <1>6, <3>2, <1>f DEF CompareGeoCps, IInv, CpsIsLoaded
    <3>. QED
      BY <2>2, <3>3, <1>a, <1>d, StepPc
  <2>. QED
    BY <1>6, <2>1, <2>2 DEF CompareGeoCps
<1>7. ASSUME NEW u \in Uids, GeoCpsOpen(u) PROVE IInv'
  <2>1. CASE Done(u)
    BY <1>7, <2>1, <1>a, <1>e, StepTask DEF GeoCpsOpen
  <2>2. CASE Cps(TaskGeo[u]) = 0 /\ Goto("write")
    <3>1. TaskGeo[u] \in Geos /\ TaskGeo[u] \in Keys
      BY TaskData, <1>c
    <3>2. (cut \/ GeosLoaded) /\ disp.todo # {} /\ UNCHANGED <<db, limits, loader, work, faults, cut>>
      BY <1>7, <1>f DEF GeoCpsOpen, IInv, CpsIsLoaded
    <3>3. \/ cut
          \/ limits[TaskGeo[u]] \in Items[TaskGeo[u]] /\ limits[TaskGeo[u]].cps = 0
      <4>1. limits[TaskGeo[u]] \in Items[TaskGeo[u]] \cup {NoItem}
        BY <3>1 DEF IInv, TypeOK
      <4>2. GeosLoaded => limits[TaskGeo[u]] # NoItem
        BY <3>1 DEF GeosLoaded
      <4>3. limits[TaskGeo[u]] # NoItem => limits[TaskGeo[u]].cps = 0
        BY <2>2 DEF Cps
      <4>. QED
        BY <3>2, <4>1, <4>2, <4>3
    <3>4. ASSUME NEW v \in Uids, Newest(disp.todo, v)
          PROVE  cut \/ \E item \in Items[TaskGeo[v]] : item.cps = 0
      <4>1. u = v
        BY <1>7, <1>a, <3>4, NewestOne DEF GeoCpsOpen, At
      <4>. QED
        BY <3>3, <4>1
    <3>. QED
      BY <2>2, <3>2, <3>4, <1>a, <1>d, StepPc
  <2>. QED
    BY <1>7, <2>1, <2>2 DEF GeoCpsOpen
<1>8. ASSUME NEW u \in Uids, WriteCps(u) PROVE IInv'
  <2>1. work' \in [Uids -> Nat \cup {NoItem}]
    BY <1>8, <1>a, <1>b, <1>c DEF WriteCps
  <2>. QED
    BY <1>8, <2>1, <1>e, StepTask DEF WriteCps
<1>. QED
  BY <1>1, <1>2, <1>3, <1>4, <1>5, <1>6, <1>7, <1>8 DEF Dispatcher

LEMMA StepLimits == IInv /\ [Next]_vars => IInv'
<1>1. IInv /\ UNCHANGED vars => IInv'
  BY DEF vars, IInv, TypeOK, Shape, GeosExist, GeosRead, GeosFirst, GeosLoaded, CpsIsLoaded,
         OverrideIsConfigured, Unpublished, Filling, At
<1>. QED
  BY <1>1, StepOperator, StepLoader, StepDispatcher DEF Next

(***************************************************************************)
(* Every entry of limitsMap, at any moment of a load, is one its branch or *)
(* geo was configured with.                                                *)
(***************************************************************************)
THEOREM LimitsTypeCorrect == Spec => []TypeOK
<1>1. IInv => TypeOK
  BY DEF IInv
<1>. QED
  BY <1>1, InitLimits, StepLimits, PTL DEF Spec

(***************************************************************************)
(* Reading limitsMap three times while it is replaced and filled never     *)
(* makes a branch override a cps its geo always had, while geos are read   *)
(* whole.                                                                  *)
(***************************************************************************)
THEOREM NoPhantomOverride == Spec => []OverrideIsConfigured
<1>1. IInv => OverrideIsConfigured
  BY DEF IInv
<1>. QED
  BY <1>1, InitLimits, StepLimits, PTL DEF Spec

====
