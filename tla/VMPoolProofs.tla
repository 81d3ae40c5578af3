---------------------------- MODULE VMPoolProofs ----------------------------
(* What the expectations of a pool promise, proved for any number of        *)
(* replicas, edits, requests and faults.                                    *)
EXTENDS VMPool, FiniteSetTheorems, TLAPS

\* where a reconcile can be
Pcs == {"check", "create", "delete", "status"}

\* The fields of a reconcile have their types.
LEMMA WorkFields ==
    ASSUME NEW x \in Work
    PROVE  /\ x.pc \in Pcs /\ x.desired \in Nat /\ x.old \in Statuses \cup {None} /\ x.current \in BOOLEAN
           /\ x.members \in SUBSET VMs /\ x.terminating \in SUBSET VMs /\ x.n \in Nat
           /\ x.victims \in SUBSET VMs /\ x.again \in BOOLEAN
    BY Zenon DEF Work, Pcs

\* The fields of a pool have their types.
LEMMA PoolFields ==
    ASSUME NEW p \in Pools
    PROVE  p.replicas \in Nat /\ p.status \in Statuses \cup {None}
    BY Zenon DEF Pools

\* Outdating a reconcile changes nothing that it does to replicas.
LEMMA OutdatedKeeps ==
    ASSUME w \in Work \cup {None}, w' = Outdated
    PROVE  /\ w' \in Work \cup {None}
           /\ w = None => w' = None
           /\ w # None => /\ w' \in Work
                          /\ w'.pc = w.pc /\ w'.n = w.n /\ w'.members = w.members /\ w'.victims = w.victims
<1>1. CASE w # None /\ pool' # pool
  <2>1. w \in Work /\ w' = [w EXCEPT !.current = FALSE]
    BY <1>1 DEF Outdated
  <2>2. [w EXCEPT !.current = FALSE] \in Work
    BY <2>1, Zenon DEF Work
  <2>3. /\ [w EXCEPT !.current = FALSE].pc = w.pc /\ [w EXCEPT !.current = FALSE].n = w.n
        /\ [w EXCEPT !.current = FALSE].members = w.members
        /\ [w EXCEPT !.current = FALSE].victims = w.victims
    BY <2>1, Zenon DEF Work
  <2> QED BY <1>1, <2>1, <2>2, <2>3
<1>2. CASE ~(w # None /\ pool' # pool)
  BY <1>2 DEF Outdated
<1> QED BY <1>1, <1>2

\* A change of a replica that takes it forward keeps the events in order.
LEMMA PutOrdered ==
    ASSUME TypeOK, Ordered, NEW v \in VMs, NEW x \in Changes, Rank(vm[v]) < Rank(x),
           PutVM(v, x), cvm' = cvm
    PROVE  Ordered'
<1> DEFINE N == Len(events)
<1>1. /\ events' = Append(events, <<v, x>>) /\ N \in Nat
      /\ Len(events') = N + 1 /\ events'[N + 1] = <<v, x>>
      /\ \A i \in 1..N : events'[i] = events[i]
  BY DEF TypeOK, PutVM
<1>2. /\ vm'[v] = x /\ \A u \in VMs \ {v} : vm'[u] = vm[u]
      /\ vm[v] \in States /\ cvm[v] \in States
  BY DEF TypeOK, PutVM
<1>3. \A i \in 1..N : events[i][1] \in VMs /\ events[i][2] \in Changes
  BY DEF TypeOK
<1>4. Rank(cvm[v]) <= Rank(vm[v])
  <2>1. CASE vm[v] = cvm[v]
    BY <2>1, <1>2 DEF States, Changes, Rank
  <2>2. CASE vm[v] # cvm[v]
    <3>1. PICK i \in 1..N : events[i] = <<v, vm[v]>>
      BY <2>2, Zenon DEF Ordered
    <3> QED BY <3>1, <1>2 DEF Ordered, States, Changes, Rank
  <2> QED BY <2>1, <2>2
<1>5. \A i \in 1..Len(events') : /\ Rank(cvm'[events'[i][1]]) < Rank(events'[i][2])
                                 /\ Rank(events'[i][2]) <= Rank(vm'[events'[i][1]])
  <2> TAKE i \in 1..Len(events')
  <2>1. CASE i = N + 1
    BY <2>1, <1>1, <1>2, <1>4 DEF States, Changes, Rank
  <2>2. CASE i \in 1..N
    <3>1. Rank(cvm[events[i][1]]) < Rank(events[i][2]) /\ Rank(events[i][2]) <= Rank(vm[events[i][1]])
      BY <2>2 DEF Ordered
    <3>2. CASE events[i][1] = v
      BY <3>1, <3>2, <2>2, <1>1, <1>2, <1>3 DEF States, Changes, Rank
    <3>3. CASE events[i][1] # v
      BY <3>1, <3>3, <2>2, <1>1, <1>2, <1>3
    <3> QED BY <3>2, <3>3
  <2> QED BY <2>1, <2>2, <1>1
<1>6. \A i, j \in 1..Len(events') :
         i < j /\ events'[i][1] = events'[j][1] => Rank(events'[i][2]) < Rank(events'[j][2])
  <2> SUFFICES ASSUME NEW i \in 1..Len(events'), NEW j \in 1..Len(events'), i < j, events'[i][1] = events'[j][1]
               PROVE  Rank(events'[i][2]) < Rank(events'[j][2])
    OBVIOUS
  <2>1. i \in 1..N
    BY <1>1
  <2>2. CASE j = N + 1
    <3>1. events[i][1] = v /\ Rank(events[i][2]) <= Rank(vm[v])
      BY <2>1, <2>2, <1>1 DEF Ordered
    <3> QED BY <3>1, <2>1, <2>2, <1>1, <1>2, <1>3 DEF States, Changes, Rank
  <2>3. CASE j \in 1..N
    BY <2>1, <2>3, <1>1 DEF Ordered
  <2> QED BY <2>2, <2>3, <1>1, SMTT(60)
<1>7. \A u \in VMs : vm'[u] # cvm'[u] => \E i \in 1..Len(events') : events'[i] = <<u, vm'[u]>>
  <2> SUFFICES ASSUME NEW u \in VMs, vm'[u] # cvm'[u]
               PROVE  \E i \in 1..Len(events') : events'[i] = <<u, vm'[u]>>
    BY Zenon
  <2>1. CASE u = v
    BY <2>1, <1>1, <1>2
  <2>2. CASE u # v
    <3>1. PICK i \in 1..N : events[i] = <<u, vm[u]>>
      BY <2>2, <1>2, Zenon DEF Ordered
    <3> QED BY <3>1, <2>2, <1>1, <1>2, SMTT(60)
  <2> QED BY <2>1, <2>2
<1> QED BY <1>5, <1>6, <1>7, Zenon DEF Ordered

\* The cache never runs ahead of what happened, and catches up when nothing is under way.
LEMMA Behind ==
    ASSUME TypeOK, Ordered
    PROVE  /\ \A v \in VMs : vm[v] \in States /\ cvm[v] \in States /\ Rank(cvm[v]) <= Rank(vm[v])
           /\ events = <<>> => cvm = vm
<1>1. \A v \in VMs : vm[v] \in States /\ cvm[v] \in States
  BY DEF TypeOK
<1>2. ASSUME NEW v \in VMs PROVE Rank(cvm[v]) <= Rank(vm[v])
  <2>1. CASE vm[v] = cvm[v]
    BY <2>1, <1>1 DEF States, Changes, Rank
  <2>2. CASE vm[v] # cvm[v]
    <3>1. PICK i \in 1..Len(events) : events[i] = <<v, vm[v]>>
      BY <2>2, SMTT(60) DEF Ordered
    <3> QED BY <3>1, <1>1 DEF Ordered, States, Changes, Rank
  <2> QED BY <2>1, <2>2
<1>3. ASSUME events = <<>> PROVE cvm = vm
  <2>1. Len(events) = 0
    BY <1>3
  <2>2. \A v \in VMs : vm[v] = cvm[v]
    BY <2>1 DEF Ordered
  <2> QED BY <2>2 DEF TypeOK
<1> QED BY <1>1, <1>2, <1>3

\* A change that reaches the cache takes it forward, in order.
LEMMA SyncOrdered ==
    ASSUME TypeOK, Ordered, SyncVM
    PROVE  Ordered' /\ \A v \in VMs : Rank(cvm[v]) <= Rank(cvm'[v])
<1> DEFINE N == Len(events)
<1>1. /\ N \in Nat /\ N > 0 /\ Head(events) = events[1]
      /\ events' = Tail(events) /\ Len(events') = N - 1
      /\ \A i \in 1..(N - 1) : events'[i] = events[i + 1]
  BY DEF TypeOK, SyncVM
<1>2. PICK u \in VMs, x \in Changes : events[1] = <<u, x>>
  BY <1>1 DEF TypeOK
<1>3. /\ cvm'[u] = x /\ \A v \in VMs \ {u} : cvm'[v] = cvm[v]
      /\ vm' = vm /\ \A v \in VMs : cvm[v] \in States /\ vm[v] \in States
  BY <1>1, <1>2 DEF TypeOK, SyncVM, objects
<1>4. \A i \in 1..N : events[i][1] \in VMs /\ events[i][2] \in Changes
  BY DEF TypeOK
<1>5. Rank(cvm[u]) < Rank(x)
  BY <1>1, <1>2 DEF Ordered
<1>6. \A v \in VMs : Rank(cvm[v]) <= Rank(cvm'[v])
  BY <1>3, <1>5 DEF States, Changes, Rank
<1>7. \A i \in 1..Len(events') : /\ Rank(cvm'[events'[i][1]]) < Rank(events'[i][2])
                                 /\ Rank(events'[i][2]) <= Rank(vm'[events'[i][1]])
  <2> TAKE i \in 1..Len(events')
  <2>1. i \in 1..(N - 1) /\ i + 1 \in 1..N /\ 1 \in 1..N /\ 1 < i + 1 /\ events'[i] = events[i + 1]
    BY <1>1
  <2>2. /\ Rank(cvm[events[i + 1][1]]) < Rank(events[i + 1][2])
        /\ Rank(events[i + 1][2]) <= Rank(vm[events[i + 1][1]])
    BY <2>1 DEF Ordered
  <2>3. CASE events[i + 1][1] = u
    <3>1. Rank(x) < Rank(events[i + 1][2])
      BY <2>1, <2>3, <1>2 DEF Ordered
    <3> QED BY <3>1, <2>1, <2>2, <2>3, <1>3
  <2>4. CASE events[i + 1][1] # u
    BY <2>1, <2>2, <2>4, <1>3, <1>4
  <2> QED BY <2>3, <2>4
<1>8. \A i, j \in 1..Len(events') :
         i < j /\ events'[i][1] = events'[j][1] => Rank(events'[i][2]) < Rank(events'[j][2])
  <2> SUFFICES ASSUME NEW i \in 1..Len(events'), NEW j \in 1..Len(events'), i < j, events'[i][1] = events'[j][1]
               PROVE  Rank(events'[i][2]) < Rank(events'[j][2])
    OBVIOUS
  <2>1. /\ i + 1 \in 1..N /\ j + 1 \in 1..N /\ i + 1 < j + 1
        /\ events'[i] = events[i + 1] /\ events'[j] = events[j + 1]
    BY <1>1
  <2> QED BY <2>1, SMTT(60) DEF Ordered
<1>9. \A v \in VMs : vm'[v] # cvm'[v] => \E i \in 1..Len(events') : events'[i] = <<v, vm'[v]>>
  <2> SUFFICES ASSUME NEW v \in VMs, vm'[v] # cvm'[v]
               PROVE  \E i \in 1..Len(events') : events'[i] = <<v, vm'[v]>>
    BY Zenon
  <2>1. vm[v] # cvm[v]
    <3>1. CASE v = u
      <4>1. Rank(x) <= Rank(vm[u])
        BY <1>1, <1>2 DEF Ordered
      <4> QED BY <4>1, <3>1, <1>3, <1>5 DEF States, Changes, Rank
    <3>2. CASE v # u
      BY <3>2, <1>3
    <3> QED BY <3>1, <3>2
  <2>2. PICK i \in 1..N : events[i] = <<v, vm[v]>>
    BY <2>1, Zenon DEF Ordered
  <2>3. i # 1
    BY <2>2, <1>2, <1>3
  <2>4. i - 1 \in 1..(N - 1) /\ events'[i - 1] = events[i]
    BY <2>3, <1>1
  <2> QED BY <2>2, <2>4, <1>1, <1>3, Zenon
<1> QED BY <1>6, <1>7, <1>8, <1>9, Zenon DEF Ordered

-----------------------------------------------------------------------------
(* Types.                                                                   *)

\* Writing a pool keeps the types of the pool and of the events for its cache.
LEMMA PutPoolType ==
    ASSUME TypeOK, NEW p \in Pools, PutPool(p)
    PROVE  pool' \in Pools /\ pevents' \in Seq(Pools)
    BY DEF TypeOK, PutPool

\* Changing a replica keeps the types of the replicas and of their events.
LEMMA PutVMType ==
    ASSUME TypeOK, NEW v \in VMs, NEW x \in Changes, PutVM(v, x)
    PROVE  vm' \in [VMs -> States] /\ events' \in Seq(VMs \X Changes)
    BY DEF TypeOK, PutVM, States

\* So does marking one for deletion.
LEMMA MarkVMType ==
    ASSUME TypeOK, NEW v \in VMs, MarkVM(v)
    PROVE  vm' \in [VMs -> States] /\ events' \in Seq(VMs \X Changes)
<1>1. "terminating" \in Changes
  BY DEF Changes
<1> QED BY <1>1, PutVMType DEF MarkVM, TypeOK

\* Reading the pool and listing its members keeps the types.
LEMMA StartType == ASSUME TypeOK, Start PROVE TypeOK'
<1>1. w' \in Work
  <2>1. cpool.replicas \in Nat /\ cpool.status \in Statuses \cup {None}
    BY PoolFields DEF TypeOK
  <2>2. (pevents = <<>>) \in BOOLEAN
    OBVIOUS
  <2>3. {v \in VMs : Exists(cvm[v])} \in SUBSET VMs /\ {v \in VMs : cvm[v] = "terminating"} \in SUBSET VMs /\ {} \in SUBSET VMs
    OBVIOUS
  <2> QED BY <2>1, <2>2, <2>3 DEF Start, Work
<1> QED BY <1>1, Zenon DEF TypeOK, Start, objects, caches, exp, watcher, bounds

\* The list of a reconcile, counted.
LEMMA Listed ==
    ASSUME TypeOK, w # None
    PROVE  /\ IsFiniteSet(w.members) /\ Cardinality(w.members) \in Nat
           /\ IsFiniteSet(w.terminating) /\ Cardinality(w.terminating) \in Nat
<1>1. w \in Work
  BY DEF TypeOK
<1>2. w.members \subseteq VMs /\ w.terminating \subseteq VMs
  BY <1>1, WorkFields
<1>3. IsFiniteSet(VMs)
  BY VMPoolAssumption
<1> QED BY <1>2, <1>3, FS_Subset, FS_CardinalityType

\* pickVictims chooses among the candidates.
LEMMA VictimsListed ==
    ASSUME NEW c, NEW n, NEW S \in PickVictims(c, n)
    PROVE  S \subseteq c
    BY DEF PickVictims

\* What the check decides: to wait, to create, to delete or to be content.
LEMMA CheckCases ==
    ASSUME TypeOK, Check
    PROVE  /\ w \in Work /\ w.pc = "check" /\ UNCHANGED <<objects, caches, watcher, queued, req, mine, bounds>>
           /\ \/ w' = [w EXCEPT !.pc = "status", !.again = TRUE] /\ UNCHANGED exp
              \/ w' = [w EXCEPT !.pc = "status"] /\ UNCHANGED exp
              \/ /\ Satisfied
                 /\ \E n \in Nat \ {0} : ScaleUp(n)
              \/ /\ Satisfied
                 /\ \E S \in SUBSET w.members :
                      /\ ExpectDeletions(S)
                      /\ w' = [w EXCEPT !.pc = IF S = {} THEN "status" ELSE "delete", !.victims = S]
<1>1. w \in Work /\ w # None /\ w.pc = "check"
  BY DEF TypeOK, Check
<1>2. Cardinality(w.members) \in Nat /\ w.desired \in Nat
  BY <1>1, Listed, WorkFields
<1> DEFINE live == Cardinality(w.members)
<1>3. CASE ~Satisfied
  BY <1>1, <1>3 DEF Check
<1>4. CASE Satisfied /\ live < w.desired
  <2>1. ScaleUp(w.desired - live)
    BY <1>4 DEF Check
  <2>2. w.desired - live \in Nat \ {0}
    BY <1>2, <1>4
  <2> QED BY <1>1, <1>4, <2>1, <2>2, Zenon DEF Check
<1>5. CASE Satisfied /\ live > w.desired
  <2>1. ScaleDown(live - w.desired)
    BY <1>2, <1>5 DEF Check
  <2>2. PICK S \in PickVictims(w.members \ w.terminating, (live - w.desired) - Cardinality(w.terminating)) :
           /\ ExpectDeletions(S)
           /\ w' = [w EXCEPT !.pc = IF S = {} THEN "status" ELSE "delete", !.victims = S]
    BY <2>1, Zenon DEF ScaleDown
  <2>3. S \in SUBSET w.members
    BY <2>2, VictimsListed
  <2> QED BY <1>1, <1>5, <2>2, <2>3, Zenon DEF Check
<1>6. CASE Satisfied /\ ~(live < w.desired) /\ ~(live > w.desired)
  BY <1>1, <1>6, Zenon DEF Check
<1> QED BY <1>3, <1>4, <1>5, <1>6, Zenon

\* Updates of the reconcile in flight, field by field.
LEMMA SetAgain ==
    ASSUME NEW x \in Work, NEW pc \in Pcs, NEW b \in BOOLEAN
    PROVE  /\ [x EXCEPT !.pc = pc, !.again = b] \in Work
           /\ [x EXCEPT !.pc = pc, !.again = b].pc = pc
           /\ [x EXCEPT !.pc = pc, !.again = b].n = x.n
           /\ [x EXCEPT !.pc = pc, !.again = b].members = x.members
           /\ [x EXCEPT !.pc = pc, !.again = b].victims = x.victims
    BY Zenon DEF Work, Pcs

\* The same when only the place changes.
LEMMA SetPc ==
    ASSUME NEW x \in Work, NEW pc \in Pcs
    PROVE  /\ [x EXCEPT !.pc = pc] \in Work
           /\ [x EXCEPT !.pc = pc].pc = pc
           /\ [x EXCEPT !.pc = pc].n = x.n
           /\ [x EXCEPT !.pc = pc].members = x.members
           /\ [x EXCEPT !.pc = pc].victims = x.victims
    BY ZenonT(60) DEF Work, Pcs

\* The effect of the check on the reconcile and on the expectations.
LEMMA CheckEffect ==
    ASSUME TypeOK, Check
    PROVE  /\ w \in Work /\ w # None /\ w' \in Work /\ w'.members = w.members
           /\ UNCHANGED <<objects, caches, watcher, queued, req, mine, bounds>>
           /\ \/ w'.pc = "status" /\ w'.victims = w.victims /\ UNCHANGED exp
              \/ /\ Satisfied /\ w'.pc = "create" /\ w'.n \in Nat \ {0} /\ w'.victims = w.victims
                 /\ creations' = creations + w'.n /\ deletions' = deletions /\ expired' = FALSE
              \/ /\ Satisfied /\ w'.pc = "delete" /\ w'.victims \in SUBSET w.members
                 /\ deletions' = deletions \cup w'.victims /\ creations' = creations /\ expired' = FALSE
              \/ /\ w'.pc = "status" /\ w'.victims = {} /\ UNCHANGED <<creations, expired>>
                 /\ deletions' = deletions
<1>1. w \in Work /\ w # None
  BY CheckCases, Zenon DEF Check
<1>2. "status" \in Pcs /\ "create" \in Pcs /\ "delete" \in Pcs
  BY DEF Pcs
<1>3. CASE w' = [w EXCEPT !.pc = "status", !.again = TRUE] /\ UNCHANGED exp
  <2>1. /\ w' \in Work /\ w'.pc = "status" /\ w'.n = w.n
        /\ w'.members = w.members /\ w'.victims = w.victims
    BY <1>1, <1>2, <1>3, SetAgain, ZenonT(60)
  <2> QED BY <1>1, <1>3, <2>1, CheckCases
<1>4. CASE w' = [w EXCEPT !.pc = "status"] /\ UNCHANGED exp
  <2>1. /\ w' \in Work /\ w'.pc = "status" /\ w'.n = w.n
        /\ w'.members = w.members /\ w'.victims = w.victims
    BY <1>1, <1>2, <1>4, SetPc, ZenonT(60)
  <2> QED BY <1>1, <1>4, <2>1, CheckCases
<1>5. CASE Satisfied /\ \E n \in Nat \ {0} : ScaleUp(n)
  <2>1. PICK n \in Nat \ {0} : ScaleUp(n)
    BY <1>5
  <2>2. w' = [w EXCEPT !.pc = "create", !.n = n] /\ n \in Nat
    BY <2>1 DEF ScaleUp
  <2>3. w' \in Work /\ w'.pc = "create" /\ w'.n = n /\ w'.members = w.members /\ w'.victims = w.victims
    <3>1. /\ [w EXCEPT !.pc = "create", !.n = n] \in Work
          /\ [w EXCEPT !.pc = "create", !.n = n].pc = "create"
          /\ [w EXCEPT !.pc = "create", !.n = n].n = n
          /\ [w EXCEPT !.pc = "create", !.n = n].members = w.members
          /\ [w EXCEPT !.pc = "create", !.n = n].victims = w.victims
      BY <1>1, n \in Nat, Zenon DEF Work
    <3> QED BY <2>2, <3>1, Zenon
  <2> QED BY <1>1, <1>5, <2>1, <2>3, CheckCases, Zenon DEF ScaleUp, ExpectCreations
<1>6. CASE Satisfied /\ \E S \in SUBSET w.members :
                 /\ ExpectDeletions(S)
                 /\ w' = [w EXCEPT !.pc = IF S = {} THEN "status" ELSE "delete", !.victims = S]
  <2>1. PICK S \in SUBSET w.members :
                 /\ ExpectDeletions(S)
                 /\ w' = [w EXCEPT !.pc = IF S = {} THEN "status" ELSE "delete", !.victims = S]
    BY <1>6, Zenon
  <2>2. S \in SUBSET VMs /\ (IF S = {} THEN "status" ELSE "delete") \in Pcs
    BY <1>1, <1>2, <2>1, WorkFields
  <2>3. /\ w' \in Work /\ w'.pc = (IF S = {} THEN "status" ELSE "delete")
        /\ w'.members = w.members /\ w'.victims = S
    <3> DEFINE pc == IF S = {} THEN "status" ELSE "delete"
    <3>1. w' = [w EXCEPT !.pc = pc, !.victims = S]
      BY <2>1, Zenon
    <3>0. w \in Work /\ pc \in Pcs /\ S \in SUBSET VMs
      BY <1>1, <2>2, Zenon
    <3> HIDE DEF pc
    <3>2. /\ [w EXCEPT !.pc = pc, !.victims = S] \in Work
          /\ [w EXCEPT !.pc = pc, !.victims = S].pc = pc
          /\ [w EXCEPT !.pc = pc, !.victims = S].members = w.members
          /\ [w EXCEPT !.pc = pc, !.victims = S].victims = S
      BY <3>0, Zenon DEF Work, Pcs
    <3>3. w' \in Work /\ w'.pc = pc /\ w'.members = w.members /\ w'.victims = S
      BY <3>1, <3>2, ZenonT(60)
    <3> QED BY <3>3, Zenon DEF pc
  <2> QED BY <1>1, <1>6, <2>1, <2>3, CheckCases, ZenonT(60) DEF ExpectDeletions
<1> QED BY <1>3, <1>4, <1>5, <1>6, CheckCases, ZenonT(60)

\* Acting on the expectations keeps the types.
LEMMA CheckType == ASSUME TypeOK, Check PROVE TypeOK'
<1>1. w' \in Work /\ creations' \in Nat /\ deletions' \subseteq VMs /\ expired' \in BOOLEAN
  <2>1. w.members \subseteq VMs
    BY CheckEffect, WorkFields
  <2>2. w'.n \in Nat
    BY CheckEffect, WorkFields
  <2>3. creations' \in Nat
    <3>1. creations' = creations \/ creations' = creations + w'.n
      BY CheckEffect, Zenon DEF exp
    <3> QED BY <3>1, <2>2 DEF TypeOK
  <2>6. deletions' \subseteq VMs
    <3>1. deletions' = deletions \/ (deletions' = deletions \cup w'.victims /\ w'.victims \in SUBSET w.members)
      BY CheckEffect, Zenon DEF exp
    <3> QED BY <3>1, <2>1 DEF TypeOK
  <2>4. expired' = expired \/ expired' = FALSE
    BY CheckEffect, Zenon DEF exp
  <2>5. expired' \in BOOLEAN
    BY <2>4, Zenon DEF TypeOK
  <2> QED BY <2>3, <2>5, <2>6, CheckEffect
<1> QED BY <1>1, CheckEffect, Zenon DEF TypeOK, objects, caches, watcher, bounds

\* A failure costs nothing or one.
LEMMA CostType == ASSUME NEW b PROVE Cost(b) \in Nat
    BY DEF Cost

\* The effect of a call to create a replica.
LEMMA CreateEffect ==
    ASSUME TypeOK, Counted, Create
    PROVE  /\ w \in Work /\ w # None /\ w.pc = "create" /\ w.n \in Nat \ {0}
           /\ w' \in Work /\ w'.n = w.n - 1 /\ w'.members = w.members /\ w'.victims = w.victims
           /\ w'.pc = IF w.n = 1 THEN "status" ELSE "create"
           /\ \/ CreationObserved /\ UNCHANGED <<vm, events>>
              \/ creations' = creations /\ \E v \in VMs : vm[v] = "none" /\ PutVM(v, "live")
           /\ UNCHANGED <<policy, pool, cpool, pevents, cvm, deletions, expired, watcher, queued, req, mine, edits>>
           /\ faults' \in Nat
<1>1. w \in Work /\ w # None /\ w.pc = "create" /\ w.n \in Nat \ {0}
  BY WorkFields DEF TypeOK, Create, Counted
<1>2. PICK failed \in May("create") :
         /\ IF failed
            THEN CreationObserved /\ UNCHANGED <<vm, events>>
            ELSE /\ UNCHANGED creations
                 /\ \E v \in VMs : /\ vm[v] = "none"
                                   /\ \A u \in VMs : vm[u] = "none" => v <= u
                                   /\ PutVM(v, "live")
         /\ w' = [w EXCEPT !.n = w.n - 1, !.pc = IF w.n = 1 THEN "status" ELSE w.pc,
                           !.again = w.again \/ failed]
         /\ faults' = faults + Cost(failed)
  BY Zenon DEF Create
<1>3. /\ w.n - 1 \in Nat /\ (w.again \/ failed) \in BOOLEAN
      /\ (IF w.n = 1 THEN "status" ELSE w.pc) \in Pcs
  BY <1>1, WorkFields DEF Pcs
<1>4. /\ w' \in Work /\ w'.n = w.n - 1 /\ w'.members = w.members /\ w'.victims = w.victims
      /\ w'.pc = IF w.n = 1 THEN "status" ELSE w.pc
  <2> DEFINE pc == IF w.n = 1 THEN "status" ELSE w.pc
             n == w.n - 1
             b == w.again \/ failed
  <2>0. w \in Work /\ pc \in Pcs /\ n \in Nat /\ b \in BOOLEAN
    BY <1>1, <1>3, Zenon
  <2>1. w' = [w EXCEPT !.n = n, !.pc = pc, !.again = b]
    BY <1>2, Zenon
  <2> HIDE DEF pc, n, b
  <2>2. /\ [w EXCEPT !.n = n, !.pc = pc, !.again = b] \in Work
        /\ [w EXCEPT !.n = n, !.pc = pc, !.again = b].pc = pc
        /\ [w EXCEPT !.n = n, !.pc = pc, !.again = b].n = n
        /\ [w EXCEPT !.n = n, !.pc = pc, !.again = b].members = w.members
        /\ [w EXCEPT !.n = n, !.pc = pc, !.again = b].victims = w.victims
    BY <2>0, Zenon DEF Work, Pcs
  <2>3. /\ w' \in Work /\ w'.n = n /\ w'.members = w.members /\ w'.victims = w.victims /\ w'.pc = pc
    BY <2>1, <2>2, Zenon
  <2> QED BY <2>3, Zenon DEF pc, n
<1>5. faults' \in Nat
  BY <1>2, CostType DEF TypeOK
<1>6. \/ CreationObserved /\ UNCHANGED <<vm, events>>
      \/ creations' = creations /\ \E v \in VMs : vm[v] = "none" /\ PutVM(v, "live")
  BY <1>2
<1> QED BY <1>1, <1>4, <1>5, <1>6 DEF Create

\* A call to create a replica keeps the types, since one is still to be made.
LEMMA CreateType == ASSUME TypeOK, Counted, Create PROVE TypeOK'
<1>1. vm' \in [VMs -> States] /\ events' \in Seq(VMs \X Changes) /\ creations' \in Nat
  <2>1. CASE CreationObserved /\ UNCHANGED <<vm, events>>
    BY <2>1 DEF TypeOK, CreationObserved
  <2>2. CASE creations' = creations /\ \E v \in VMs : vm[v] = "none" /\ PutVM(v, "live")
    <3>1. "live" \in Changes
      BY DEF Changes
    <3> QED BY <2>2, <3>1, PutVMType DEF TypeOK
  <2> QED BY <2>1, <2>2, CreateEffect
<1> QED BY <1>1, CreateEffect, SMTT(60) DEF TypeOK, watcher

\* The effect of a call to delete a replica.
LEMMA DeleteEffect ==
    ASSUME TypeOK, Delete
    PROVE  /\ w \in Work /\ w # None /\ w.pc = "delete" /\ w' \in Work /\ w'.n = w.n /\ w'.members = w.members
           /\ \E v \in w.victims :
                /\ v \in VMs /\ w'.victims = w.victims \ {v}
                /\ w'.pc = IF w.victims = {v} THEN "status" ELSE "delete"
                /\ \/ DeletionObserved(v) /\ UNCHANGED <<vm, events, mine>>
                   \/ vm[v] # "gone" /\ MarkVM(v) /\ mine' = mine \cup {v} /\ deletions' = deletions
           /\ UNCHANGED <<policy, pool, cpool, pevents, cvm, creations, expired, watcher, queued, req, edits>>
           /\ faults' \in Nat
<1>1. w \in Work /\ w # None /\ w.pc = "delete"
  BY DEF TypeOK, Delete
<1>2. PICK v \in w.victims, failed \in May("delete") :
         /\ IF failed \/ vm[v] = "gone"
            THEN DeletionObserved(v) /\ UNCHANGED <<vm, events, mine>>
            ELSE MarkVM(v) /\ mine' = mine \cup {v} /\ UNCHANGED deletions
         /\ w' = [w EXCEPT !.victims = w.victims \ {v}, !.pc = IF w.victims = {v} THEN "status" ELSE w.pc,
                           !.again = w.again \/ failed]
         /\ faults' = faults + Cost(failed)
  BY Zenon DEF Delete
<1>3. /\ v \in VMs /\ w.victims \ {v} \in SUBSET VMs /\ (w.again \/ failed) \in BOOLEAN
      /\ (IF w.victims = {v} THEN "status" ELSE w.pc) \in Pcs
  BY <1>1, WorkFields DEF Pcs
<1>4. /\ w' \in Work /\ w'.n = w.n /\ w'.members = w.members /\ w'.victims = w.victims \ {v}
      /\ w'.pc = IF w.victims = {v} THEN "status" ELSE w.pc
  <2> DEFINE pc == IF w.victims = {v} THEN "status" ELSE w.pc
             S == w.victims \ {v}
             b == w.again \/ failed
  <2>0. w \in Work /\ pc \in Pcs /\ S \in SUBSET VMs /\ b \in BOOLEAN
    BY <1>1, <1>3, Zenon
  <2>1. w' = [w EXCEPT !.victims = S, !.pc = pc, !.again = b]
    BY <1>2, Zenon
  <2> HIDE DEF pc, S, b
  <2>2. /\ [w EXCEPT !.victims = S, !.pc = pc, !.again = b] \in Work
        /\ [w EXCEPT !.victims = S, !.pc = pc, !.again = b].pc = pc
        /\ [w EXCEPT !.victims = S, !.pc = pc, !.again = b].n = w.n
        /\ [w EXCEPT !.victims = S, !.pc = pc, !.again = b].members = w.members
        /\ [w EXCEPT !.victims = S, !.pc = pc, !.again = b].victims = S
    BY <2>0, Zenon DEF Work, Pcs
  <2>3. w' \in Work /\ w'.n = w.n /\ w'.members = w.members /\ w'.victims = S /\ w'.pc = pc
    BY <2>1, <2>2, Zenon
  <2> QED BY <2>3, Zenon DEF pc, S
<1>5. faults' \in Nat
  BY <1>2, CostType DEF TypeOK
<1>6. \/ DeletionObserved(v) /\ UNCHANGED <<vm, events, mine>>
      \/ vm[v] # "gone" /\ MarkVM(v) /\ mine' = mine \cup {v} /\ deletions' = deletions
  BY <1>2, ZenonT(60)
<1> QED BY <1>1, <1>3, <1>4, <1>5, <1>6 DEF Delete

\* A call to delete a replica keeps the types.
LEMMA DeleteType == ASSUME TypeOK, Delete PROVE TypeOK'
<1>1. /\ vm' \in [VMs -> States] /\ events' \in Seq(VMs \X Changes)
      /\ deletions' \subseteq VMs /\ mine' \subseteq VMs
  BY DeleteEffect, MarkVMType DEF TypeOK, DeletionObserved
<1> QED BY <1>1, DeleteEffect, SMTT(60) DEF TypeOK, watcher

\* Writing the status keeps the types.
LEMMA UpdateStatusType == ASSUME TypeOK, UpdateStatus PROVE TypeOK'
<1> DEFINE status == [n |-> Cardinality(w.members), of |-> w.desired]
           p == IF status # w.old /\ w.current THEN [pool EXCEPT !.status = status] ELSE pool
<1>1. w \in Work /\ w # None
  BY DEF TypeOK, UpdateStatus
<1>2. status \in Statuses
  BY <1>1, Listed, WorkFields DEF Statuses
<1> HIDE DEF status
<1>3. [pool EXCEPT !.status = status] \in Pools
  BY <1>2, SMTT(60) DEF TypeOK, Pools
<1>4. p \in Pools
  BY <1>3 DEF TypeOK
<1>5. PutPool(p) /\ w' = None /\ queued' \in BOOLEAN
  BY DEF UpdateStatus, status
<1>6. pool' \in Pools /\ pevents' \in Seq(Pools)
  BY <1>4, <1>5, PutPoolType
<1> QED BY <1>5, <1>6 DEF TypeOK, UpdateStatus, exp, watcher, bounds

\* The caches, the watcher, the clock and the process.
LEMMA InformerType ==
    ASSUME TypeOK, SyncPool \/ SyncVM \/ (\E v \in VMs : CreateEvent(v) \/ DeleteEvent(v)) \/ OtherEvent \/ Expire
    PROVE  TypeOK'
<1>1. CASE SyncPool
  BY <1>1 DEF TypeOK, SyncPool, objects, exp, watcher, bounds
<1>2. CASE SyncVM
  <2>1. Head(events) \in VMs \X Changes /\ Tail(events) \in Seq(VMs \X Changes)
    BY <1>2, SMTT(20), ZenonT(20), SMTT(40) DEF TypeOK, SyncVM
  <2>2. queued' \in BOOLEAN
    BY <1>2, ZenonT(60) DEF SyncVM
  <2> QED BY <1>2, <2>1, <2>2, SMTT(30) DEF TypeOK, SyncVM, objects, exp, watcher, bounds, States
<1>3. ASSUME NEW v \in VMs, CreateEvent(v) PROVE TypeOK'
  BY <1>3 DEF TypeOK, CreateEvent, CreationObserved, objects, caches, bounds
<1>4. ASSUME NEW v \in VMs, DeleteEvent(v) PROVE TypeOK'
  BY <1>4 DEF TypeOK, DeleteEvent, DeletionObserved, objects, caches, bounds
<1>5. CASE OtherEvent
  BY <1>5 DEF TypeOK, OtherEvent, objects, caches, exp, watcher, bounds
<1>6. CASE Expire
  BY <1>6 DEF TypeOK, Expire, objects, caches, watcher, bounds
<1> QED BY <1>1, <1>2, <1>3, <1>4, <1>5, <1>6

\* A broken watch and a restart keep the types.
LEMMA FaultType == ASSUME TypeOK, Relist \/ Restart PROVE TypeOK'
<1>1. <<>> \in Seq(VMs \X Changes) /\ <<>> \in Seq(Pools)
  OBVIOUS
<1>2. CASE Relist
  <2>1. queued' \in BOOLEAN
    BY <1>2, Zenon DEF Relist
  <2> QED BY <1>1, <1>2, <2>1 DEF TypeOK, Relist, objects, exp, bounds
<1>3. CASE Restart
  <2>1. cpool' \in Pools /\ pevents' \in Seq(Pools) /\ cvm' \in [VMs -> States] /\ events' \in Seq(VMs \X Changes)
    BY <1>1, <1>3 DEF TypeOK, Restart
  <2>2. creations' \in Nat /\ deletions' \subseteq VMs /\ {expired, queued}' \subseteq BOOLEAN /\ w' = None
    BY <1>3, Zenon DEF Restart
  <2>3. told' \subseteq VMs /\ buried' \subseteq VMs /\ faults' \in Nat
    BY <1>3 DEF TypeOK, Restart
  <2>4. UNCHANGED <<policy, pool, vm, req, mine, edits>>
    BY <1>3 DEF Restart, objects
  <2> QED BY <2>1, <2>2, <2>3, <2>4 DEF TypeOK
<1> QED BY <1>2, <1>3

\* Scaling, deleting a replica and its end keep the types.
LEMMA UserType ==
    ASSUME TypeOK, Scale \/ DeleteVM \/ \E v \in VMs : VMGone(v)
    PROVE  TypeOK'
<1>0. "terminating" \in Changes /\ "gone" \in Changes
  BY DEF Changes
<1>1. CASE Scale
  <2>1. PICK n \in 0..MaxReplicas : PutPool([pool EXCEPT !.replicas = n])
    BY <1>1 DEF Scale
  <2>2. [pool EXCEPT !.replicas = n] \in Pools
    <3>1. n \in Nat /\ pool \in Pools
      BY VMPoolAssumption DEF TypeOK
    <3> QED BY <3>1 DEF Pools
  <2>3. pool' \in Pools /\ pevents' \in Seq(Pools)
    BY <2>1, <2>2, PutPoolType
  <2>4. w' \in Work \cup {None}
    BY <1>1, OutdatedKeeps, SMTT(30) DEF TypeOK, Scale
  <2> QED BY <1>1, <2>3, <2>4, SMTT(60) DEF TypeOK, Scale, exp, watcher
<1>2. CASE DeleteVM
  <2>1. vm' \in [VMs -> States] /\ events' \in Seq(VMs \X Changes)
    BY <1>0, <1>2, PutVMType, SMTT(30) DEF DeleteVM
  <2> QED BY <1>2, <2>1 DEF TypeOK, DeleteVM, exp, watcher
<1>3. ASSUME NEW v \in VMs, VMGone(v) PROVE TypeOK'
  <2>1. vm' \in [VMs -> States] /\ events' \in Seq(VMs \X Changes)
    BY <1>0, <1>3, PutVMType DEF VMGone
  <2> QED BY <1>3, <2>1, Zenon DEF TypeOK, VMGone, exp, watcher, bounds
<1> QED BY <1>1, <1>2, <1>3

\* The steps of scaleDownWith keep the types.
LEMMA RequestType ==
    ASSUME TypeOK, NEW r \in Requests, Validate(r) \/ ScaleDownWith(r)
    PROVE  TypeOK'
<1> DEFINE Req == [pc : {"delete", "shrink", "done"}, target : VMs]
<1>0. req \in [Requests -> Req \cup {None}]
  BY DEF TypeOK
<1>1. CASE Validate(r)
  <2>1. PICK v \in VMs : req' = [req EXCEPT ![r] = [pc |-> "delete", target |-> v]]
    BY <1>1, Zenon DEF Validate
  <2>2. [pc |-> "delete", target |-> v] \in Req
    OBVIOUS
  <2>3. req' \in [Requests -> Req \cup {None}]
    BY <1>0, <2>1, <2>2, Zenon
  <2> QED BY <1>1, <2>3 DEF TypeOK, Validate, objects, caches, exp, watcher
<1>2. ASSUME req[r] # None, NEW pc \in {"delete", "shrink", "done"}, req' = [req EXCEPT ![r].pc = pc]
      PROVE  req' \in [Requests -> Req \cup {None}]
  <2>1. req[r] \in Req
    BY <1>0, <1>2
  <2>2. [req[r] EXCEPT !.pc = pc] \in Req
    BY <2>1, Zenon
  <2>3. req' = [req EXCEPT ![r] = [req[r] EXCEPT !.pc = pc]]
    BY <1>2, Zenon
  <2> QED BY <1>0, <2>2, <2>3, Zenon
<1>3. CASE DeleteTarget(r)
  <2>1. PICK failed \in May("request") :
           /\ IF failed THEN UNCHANGED <<vm, events>> ELSE MarkVM(req[r].target)
           /\ req' = [req EXCEPT ![r].pc = IF failed THEN "done" ELSE "shrink"]
           /\ faults' = faults + Cost(failed)
    BY <1>3, Zenon DEF DeleteTarget
  <2>2. req[r] # None /\ req[r].target \in VMs
    BY <1>0, <1>3 DEF DeleteTarget
  <2>3. vm' \in [VMs -> States] /\ events' \in Seq(VMs \X Changes)
    BY <2>1, <2>2, MarkVMType DEF TypeOK
  <2>4. req' \in [Requests -> Req \cup {None}]
    <3> DEFINE pc == IF failed THEN "done" ELSE "shrink"
    <3>1. pc \in {"delete", "shrink", "done"} /\ req' = [req EXCEPT ![r].pc = pc]
      BY <2>1, Zenon
    <3> QED BY <1>2, <2>2, <3>1, Zenon
  <2>5. faults' \in Nat
    BY <2>1, CostType DEF TypeOK
  <2> QED BY <1>3, <2>3, <2>4, <2>5 DEF TypeOK, DeleteTarget, exp, watcher
<1>4. CASE Shrink(r)
  <2>1. PICK failed \in May("request") :
           /\ PutPool(IF failed \/ pool.replicas = 0 THEN pool ELSE [pool EXCEPT !.replicas = @ - 1])
           /\ faults' = faults + Cost(failed)
    BY <1>4 DEF Shrink
  <2>2. (IF failed \/ pool.replicas = 0 THEN pool ELSE [pool EXCEPT !.replicas = @ - 1]) \in Pools
    <3>1. CASE failed \/ pool.replicas = 0
      BY <3>1, Zenon DEF TypeOK
    <3>2. CASE ~(failed \/ pool.replicas = 0)
      <4>1. pool \in Pools /\ pool.replicas - 1 \in Nat
        BY <3>2, PoolFields, SMTT(20), ZenonT(20), SMTT(40) DEF TypeOK
      <4>2. [pool EXCEPT !.replicas = pool.replicas - 1] \in Pools
        BY <4>1 DEF Pools
      <4> QED BY <3>2, <4>2, ZenonT(60)
    <3> QED BY <3>1, <3>2
  <2>3. pool' \in Pools /\ pevents' \in Seq(Pools)
    BY <2>1, <2>2, PutPoolType
  <2>4. req' \in [Requests -> Req \cup {None}]
    <3>1. req[r] # None /\ "done" \in {"delete", "shrink", "done"} /\ req' = [req EXCEPT ![r].pc = "done"]
      BY <1>4, Zenon DEF Shrink
    <3> QED BY <1>2, <3>1, Zenon
  <2>5. faults' \in Nat
    BY <2>1, CostType DEF TypeOK
  <2>6. w' \in Work \cup {None}
    BY <1>4, OutdatedKeeps DEF TypeOK, Shrink
  <2> QED BY <1>4, <2>3, <2>4, <2>5, <2>6 DEF TypeOK, Shrink, exp, watcher
<1> QED BY <1>1, <1>3, <1>4 DEF ScaleDownWith

-----------------------------------------------------------------------------
(* The inductive invariant.                                                 *)

\* the invariant without the types
Rest == Counted /\ Ordered /\ Known /\ Removed

\* What Counted compares are numbers.
LEMMA CountedTypes ==
    ASSUME TypeOK
    PROVE  IsFiniteSet(Untold) /\ Cardinality(Untold) \in Nat /\ Left \in Nat /\ creations \in Nat
<1>1. IsFiniteSet(Untold)
  BY VMPoolAssumption, FS_Subset DEF Untold
<1>2. w # None => w.n \in Nat
  BY WorkFields DEF TypeOK
<1> QED BY <1>1, <1>2, FS_CardinalityType DEF Left, TypeOK

\* Steps that leave the replicas, their cache and the expectations alone.
LEMMA FrameRest ==
    ASSUME TypeOK, Rest, UNCHANGED <<vm, cvm, events, told, creations, deletions, expired, mine>>,
           \/ w' = None
           \/ /\ w # None /\ w'.pc = w.pc /\ w'.n = w.n
              /\ w'.members = w.members /\ w'.victims = w.victims
    PROVE  Rest'
<1>1. Counted'
  <2>1. Untold' = Untold
    BY DEF Untold
  <2>2. CASE w' = None
    BY <2>1, <2>2, CountedTypes DEF Rest, Counted, Left
  <2>3. CASE w # None /\ w'.pc = w.pc /\ w'.n = w.n
    BY <2>1, <2>3, CountedTypes DEF Rest, Counted, Left
  <2> QED BY <2>2, <2>3
<1>2. Ordered'
  BY ZenonT(60) DEF Rest, Ordered
<1>3. Known'
  BY DEF Rest, Known
<1>4. Removed'
  BY DEF Rest, Removed, Unseen
<1> QED BY <1>1, <1>2, <1>3, <1>4 DEF Rest

\* A replica is marked for deletion, or goes.
LEMMA MoveOnRest ==
    ASSUME TypeOK, Rest, NEW v \in VMs, NEW x \in {"terminating", "gone"}, vm[v] \in {"live", "terminating"},
           Rank(vm[v]) < Rank(x), PutVM(v, x),
           UNCHANGED <<cvm, told, creations, deletions, expired, mine, w>>
    PROVE  Rest'
<1>1. vm'[v] = x /\ \A u \in VMs \ {v} : vm'[u] = vm[u]
  BY DEF TypeOK, PutVM
<1>2. Counted'
  <2>1. Untold' = Untold
    BY <1>1 DEF Untold
  <2> QED BY <2>1 DEF Rest, Counted, Left
<1>3. Ordered'
  <2>1. x \in Changes
    BY DEF Changes
  <2> QED BY <2>1, PutOrdered DEF Rest
<1>4. Known'
  BY DEF Rest, Known
<1>5. Removed'
  <2>1. \A u \in mine : vm'[u] \in {"terminating", "gone"}
    BY <1>1 DEF Rest, Removed, TypeOK
  <2> QED BY <2>1 DEF Rest, Removed, Unseen
<1> QED BY <1>2, <1>3, <1>4, <1>5 DEF Rest

\* A request to delete marks a live replica and changes no other.
LEMMA MarkRest ==
    ASSUME TypeOK, Rest, NEW v \in VMs, MarkVM(v),
           UNCHANGED <<cvm, told, creations, deletions, expired, mine, w>>
    PROVE  Rest'
<1>1. CASE vm[v] = "live"
  BY <1>1, MoveOnRest DEF MarkVM, Rank
<1>2. CASE vm[v] # "live"
  BY <1>2, FrameRest DEF MarkVM
<1> QED BY <1>1, <1>2

\* The invariant holds when the pool is new.
LEMMA InitRest == ASSUME Init PROVE TypeOK /\ Rest
<1>1. TypeOK
  <2>1. pool \in Pools
    BY VMPoolAssumption DEF Init, Pools
  <2>2. vm \in [VMs -> States] /\ cvm \in [VMs -> States]
    BY DEF Init, States
  <2>3. req \in [Requests -> [pc : {"delete", "shrink", "done"}, target : VMs] \cup {None}]
    BY Zenon DEF Init
  <2>4. pevents \in Seq(Pools) /\ events \in Seq(VMs \X Changes) /\ creations \in Nat /\ edits \in Nat /\ faults \in Nat
    BY DEF Init
  <2>5. {expired, queued} \subseteq BOOLEAN /\ w \in Work \cup {None}
    BY Zenon DEF Init
  <2> QED BY <2>1, <2>2, <2>3, <2>4, <2>5, SMTT(30) DEF Init, TypeOK
<1>2. Untold = {} /\ Cardinality({}) = 0 /\ Left = 0
  BY FS_EmptySet DEF Init, Untold, Left
<1>3. Counted
  BY <1>2 DEF Init, Counted
<1>4. Len(events) = 0
  BY SMTT(30) DEF Init
<1>5. Ordered
  <2>1. \A i \in 1 .. Len(events) : FALSE
    BY <1>4
  <2>2. \A v \in VMs : vm[v] = cvm[v]
    BY Zenon DEF Init
  <2> QED BY <2>1, <2>2, Zenon DEF Ordered
<1>6. Known /\ Removed
  BY Zenon DEF Init, Known, Removed
<1> QED BY <1>1, <1>3, <1>5, <1>6 DEF Rest

\* The list only has replicas that are in the cache.
LEMMA StartRest == ASSUME TypeOK, Rest, Start PROVE Rest'
<1>1. /\ w'.pc = "check" /\ w'.members = {v \in VMs : Exists(cvm[v])} /\ w'.victims = {}
      /\ w = None /\ UNCHANGED <<vm, cvm, events, told, creations, deletions, expired, mine>>
  <2>1. w'.pc = "check" /\ w'.members = {v \in VMs : Exists(cvm[v])} /\ w'.victims = {} /\ w = None
    BY Zenon DEF Start
  <2> QED BY <2>1 DEF Start, objects, caches, exp, watcher
<1>2. Counted'
  <2>1. Untold' = Untold /\ Left' = 0
    BY <1>1 DEF Untold, Left
  <2> QED BY <1>1, <2>1, CountedTypes DEF Rest, Counted
<1>3. Ordered'
  BY <1>1, ZenonT(60) DEF Rest, Ordered
<1>4. Known'
  BY <1>1 DEF Rest, Known, Exists
<1>5. Removed'
  BY <1>1 DEF Rest, Removed, Unseen
<1> QED BY <1>2, <1>3, <1>4, <1>5 DEF Rest

\* The check acts only when no earlier deletion is out of sight.
LEMMA CheckRest == ASSUME TypeOK, Rest, Check PROVE Rest'
<1>1. /\ w # None /\ w.pc = "check" /\ w \in Work /\ w'.members = w.members /\ w' \in Work
      /\ UNCHANGED <<vm, cvm, events, told, mine>>
  BY CheckEffect, Zenon DEF Check, objects, caches, watcher
<1>2. Untold' = Untold
  BY <1>1 DEF Untold
<1>3. Counted'
  <2>1. Left = 0
    BY <1>1 DEF Left
  <2>2. \/ w'.pc = "create" /\ w'.n \in Nat \ {0} /\ creations' = creations + w'.n
        \/ w'.pc # "create" /\ creations' = creations
    BY CheckEffect, ZenonT(60) DEF exp
  <2> QED BY <1>2, <2>1, <2>2, CountedTypes DEF Rest, Counted, Left
<1>4. Ordered'
  BY <1>1 DEF Rest, Ordered
<1>5. Known'
  <2>1. w'.victims \subseteq w.members
    BY <1>1, CheckEffect, Zenon DEF Rest, Known
  <2> QED BY <1>1, <2>1 DEF Rest, Known
<1>6. Removed'
  <2>1. CASE w'.pc # "delete"
    <3>1. deletions \subseteq deletions' /\ (expired' = expired \/ expired' = FALSE)
      BY <2>1, CheckEffect, ZenonT(60) DEF exp
    <3> QED BY <1>1, <2>1, <3>1 DEF Rest, Removed, Unseen
  <2>2. CASE w'.pc = "delete"
    <3>1. Satisfied /\ deletions' = deletions \cup w'.victims /\ expired' = FALSE
      BY <2>2, CheckEffect
    <3>2. \A v \in mine : ~Unseen(v)
      BY <3>1 DEF Rest, Removed, Satisfied
    <3> QED BY <1>1, <3>1, <3>2 DEF Rest, Removed, Unseen
  <2> QED BY <2>1, <2>2
<1> QED BY <1>3, <1>4, <1>5, <1>6 DEF Rest

\* A replica that is created moves from those still to be made to those not yet told.
LEMMA CreateRest == ASSUME TypeOK, Rest, Create PROVE Rest'
<1>0. Counted
  BY DEF Rest
<1>1. /\ w # None /\ w.pc = "create" /\ w.n \in Nat \ {0} /\ w'.n = w.n - 1
      /\ w'.members = w.members /\ w'.victims = w.victims /\ w'.pc = IF w.n = 1 THEN "status" ELSE "create"
      /\ UNCHANGED <<cvm, told, deletions, expired, mine>>
  BY <1>0, CreateEffect DEF watcher
<1>2. Left = w.n /\ Left' \in Nat /\ Left' <= w.n - 1 /\ (w'.pc = "create" => w'.n > 0)
  <2>1. Left = w.n
    BY <1>1 DEF Left
  <2>2. CASE w.n = 1
    BY <2>1, <2>2, <1>1 DEF Left
  <2>3. CASE w.n # 1
    BY <2>1, <2>3, <1>1, SMTT(30) DEF Left
  <2> QED BY <2>2, <2>3
<1>3. CASE CreationObserved /\ UNCHANGED <<vm, events>>
  <2>1. Untold' = Untold
    BY <1>1, <1>3 DEF Untold
  <2>2. Counted'
    BY <1>0, <1>2, <1>3, <2>1, CountedTypes DEF Counted, CreationObserved
  <2>3. Ordered'
    BY <1>1, <1>3, ZenonT(60) DEF Rest, Ordered
  <2>4. Known'
    BY <1>1, <1>3, SMTT(30) DEF Rest, Known
  <2>5. Removed'
    BY <1>1, <1>3 DEF Rest, Removed, Unseen
  <2> QED BY <2>2, <2>3, <2>4, <2>5 DEF Rest
<1>4. CASE creations' = creations /\ \E v \in VMs : vm[v] = "none" /\ PutVM(v, "live")
  <2>1. PICK v \in VMs : vm[v] = "none" /\ PutVM(v, "live")
    BY <1>4
  <2>2. vm'[v] = "live" /\ \A u \in VMs \ {v} : vm'[u] = vm[u]
    BY <2>1 DEF TypeOK, PutVM
  <2>3. Cardinality(Untold') \in Nat /\ Cardinality(Untold') <= Cardinality(Untold) + 1
    <3>1. Untold' = Untold \/ (Untold' = Untold \cup {v} /\ v \notin Untold)
      BY <1>1, <2>1, <2>2 DEF Untold
    <3> QED BY <3>1, CountedTypes, FS_AddElement, SMTT(30)
  <2>4. Counted'
    BY <1>0, <1>2, <1>4, <2>3, CountedTypes DEF Counted
  <2>5. Ordered'
    BY <1>1, <2>1, PutOrdered DEF Rest, Changes, Rank
  <2>6. Known'
    BY <1>1 DEF Rest, Known
  <2>7. Removed'
    <3>1. \A u \in mine : vm'[u] \in {"terminating", "gone"}
      BY <2>1, <2>2, SMTT(30) DEF Rest, Removed, TypeOK
    <3> QED BY <1>1, <3>1, SMTT(30) DEF Rest, Removed, Unseen
  <2> QED BY <2>4, <2>5, <2>6, <2>7 DEF Rest
<1> QED BY <1>0, <1>3, <1>4, CreateEffect

\* A replica that is deleted was expected to go before.
LEMMA DeleteRest == ASSUME TypeOK, Rest, Delete PROVE Rest'
<1>1. PICK v \in w.victims :
         /\ v \in VMs /\ w'.victims = w.victims \ {v}
         /\ w'.pc = IF w.victims = {v} THEN "status" ELSE "delete"
         /\ \/ DeletionObserved(v) /\ UNCHANGED <<vm, events, mine>>
            \/ vm[v] # "gone" /\ MarkVM(v) /\ mine' = mine \cup {v} /\ deletions' = deletions
  BY DeleteEffect, SMTT(30)
<1>2. /\ w # None /\ w.pc = "delete" /\ w'.members = w.members
      /\ UNCHANGED <<cvm, told, creations, expired>>
  BY DeleteEffect, SMTT(30) DEF watcher
<1>3. /\ ~expired /\ (v \in deletions \/ cvm[v] = "gone") /\ (v \in mine => ~Unseen(v))
      /\ v \in w.members /\ cvm[v] # "none" /\ w.victims \subseteq w.members
  BY <1>1, <1>2 DEF Rest, Removed, Known
<1>4. Left = 0 /\ Left' = 0 /\ w'.pc # "create"
  BY <1>1, <1>2, SMTT(30) DEF Left
<1>5. Known'
  BY <1>1, <1>2, <1>3 DEF Rest, Known
<1>6. CASE DeletionObserved(v) /\ UNCHANGED <<vm, events, mine>>
  <2>1. Untold' = Untold
    BY <1>2, <1>6 DEF Untold
  <2>2. Counted'
    BY <1>2, <1>4, <2>1 DEF Rest, Counted
  <2>3. Ordered'
    BY <1>2, <1>6, ZenonT(60) DEF Rest, Ordered
  <2>4. deletions' = deletions \ {v}
    BY <1>6, SMTT(30) DEF DeletionObserved
  <2>5. Removed'
    BY <1>1, <1>2, <1>3, <1>6, <2>4, ZenonT(20) DEF Rest, Removed, Unseen
  <2> QED BY <1>5, <2>2, <2>3, <2>5 DEF Rest
<1>7. CASE vm[v] # "gone" /\ MarkVM(v) /\ mine' = mine \cup {v} /\ deletions' = deletions
  <2>1. vm[v] \in {"live", "terminating"}
    BY <1>1, <1>3, <1>7, Behind, SMTT(30) DEF Rest, States, Changes, Rank
  <2>2. vm'[v] = "terminating" /\ \A u \in VMs \ {v} : vm'[u] = vm[u]
    BY <1>1, <1>7, <2>1, SMTT(30) DEF MarkVM, PutVM, TypeOK
  <2>3. Untold' = Untold
    BY <1>2, <2>1, <2>2 DEF Untold
  <2>4. Counted'
    BY <1>2, <1>4, <2>3 DEF Rest, Counted
  <2>5. Ordered'
    <3>1. CASE vm[v] = "live"
      BY <1>1, <1>2, <1>7, <3>1, PutOrdered, SMTT(20), ZenonT(20), SMTT(40) DEF Rest, MarkVM, Changes, Rank
    <3>2. CASE vm[v] # "live"
      BY <1>2, <1>7, <3>2, ZenonT(60) DEF Rest, MarkVM, Ordered
    <3> QED BY <3>1, <3>2, SMTT(30)
  <2>6. Removed'
    <3>1. \A u \in mine' : vm'[u] \in {"terminating", "gone"}
      BY <1>7, <2>2, ZenonT(20) DEF Rest, Removed, TypeOK
    <3>2. \A u \in mine' : Unseen(u)' => u \in deletions'
      BY <1>2, <1>3, <1>7, ZenonT(20) DEF Rest, Removed, Unseen
    <3>3. \A u \in w'.victims : (u \in deletions' \/ cvm'[u] = "gone") /\ (u \in mine' => ~Unseen(u)')
      BY <1>1, <1>2, <1>7, Zenon DEF Rest, Removed, Unseen
    <3> QED BY <1>2, <1>3, <3>1, <3>2, <3>3, ZenonT(60) DEF Removed
  <2> QED BY <1>5, <2>4, <2>5, <2>6 DEF Rest
<1> QED BY <1>1, <1>6, <1>7, SMTT(30)

\* The cache moves on; what it showed before, or later, it still shows.
LEMMA SyncRest == ASSUME TypeOK, Rest, SyncVM PROVE Rest'
<1>1. UNCHANGED <<vm, told, creations, deletions, expired, mine, w>>
  BY DEF SyncVM, objects, exp, watcher
<1>2. /\ Ordered'
      /\ \A v \in VMs : Rank(cvm[v]) <= Rank(cvm'[v]) /\ cvm[v] \in States /\ cvm'[v] \in States
  <2>1. TypeOK'
    BY InformerType
  <2> QED BY <2>1, SyncOrdered DEF Rest, TypeOK
<1>3. \A v \in VMs : /\ cvm[v] # "none" => cvm'[v] # "none"
                     /\ cvm[v] = "gone" => cvm'[v] = "gone"
                     /\ ~Unseen(v) => ~Unseen(v)'
  BY <1>2 DEF Unseen, Rank, States, Changes
<1>4. Counted'
  <2>1. Untold' = Untold /\ Left' = Left
    BY <1>1 DEF Untold, Left
  <2> QED BY <1>1, <2>1 DEF Rest, Counted
<1>5. w # None => w.members \subseteq VMs /\ w.victims \subseteq VMs
  BY WorkFields, SMTT(30) DEF TypeOK
<1>6. Known'
  BY <1>1, <1>3, <1>5, SMTT(30) DEF Rest, Known, TypeOK
<1>7. Removed'
  BY <1>1, <1>3, <1>5, Zenon DEF Rest, Removed, TypeOK
<1> QED BY <1>2, <1>4, <1>6, <1>7 DEF Rest

\* The watcher settles one creation for the one replica it was told of.
LEMMA CreateEventRest == ASSUME TypeOK, Rest, NEW v \in VMs, CreateEvent(v) PROVE Rest'
<1>1. /\ cvm[v] # "none" /\ v \notin told /\ told' = told \cup {v} /\ CreationObserved
      /\ UNCHANGED <<vm, cvm, events, deletions, expired, mine, w>>
  BY DEF CreateEvent, objects, caches
<1>2. vm[v] # "none"
  BY <1>1, Behind DEF Rest, Rank, States, Changes
<1>3. Cardinality(Untold') \in Nat /\ Cardinality(Untold') = Cardinality(Untold) - 1
  <2>1. v \in Untold /\ Untold' = Untold \ {v}
    BY <1>1, <1>2 DEF Untold
  <2>2. Cardinality(Untold \ {v}) = Cardinality(Untold) - 1
    BY <2>1, CountedTypes, FS_RemoveElement, Zenon
  <2>3. IsFiniteSet(Untold \ {v})
    BY CountedTypes, FS_Subset
  <2> QED BY <2>1, <2>2, <2>3, FS_CardinalityType, SMTT(30)
<1>4. Counted'
  <2>1. Left' = Left
    BY <1>1 DEF Left
  <2> QED BY <1>1, <1>3, <2>1, CountedTypes DEF Rest, Counted, CreationObserved
<1>5. Ordered'
  BY <1>1, ZenonT(60) DEF Rest, Ordered
<1>6. Known' /\ Removed'
  BY <1>1 DEF Rest, Known, Removed, Unseen
<1> QED BY <1>4, <1>5, <1>6 DEF Rest

\* The watcher settles a deletion that the cache shows.
LEMMA DeleteEventRest == ASSUME TypeOK, Rest, NEW v \in VMs, DeleteEvent(v) PROVE Rest'
<1>1. /\ cvm[v] = "gone" /\ deletions' = deletions \ {v}
      /\ UNCHANGED <<vm, cvm, events, told, creations, expired, mine, w>>
  BY DEF DeleteEvent, DeletionObserved, objects, caches
<1>2. Counted'
  <2>1. Untold' = Untold /\ Left' = Left
    BY <1>1, SMTT(30) DEF Untold, Left
  <2> QED BY <1>1, <2>1 DEF Rest, Counted
<1>3. Ordered'
  BY <1>1, ZenonT(60) DEF Rest, Ordered
<1>4. Known'
  BY <1>1, SMTT(30) DEF Rest, Known
<1>5. Removed'
  BY <1>1, Zenon DEF Rest, Removed, Unseen
<1> QED BY <1>2, <1>3, <1>4, <1>5 DEF Rest

\* Nothing is out of sight when expectations expire, unless the watch is slow.
LEMMA ExpireRest == ASSUME SlowWatch = FALSE, TypeOK, Rest, Expire PROVE Rest'
<1>1. w = None /\ events = <<>> /\ UNCHANGED <<vm, cvm, events, told, creations, deletions, mine, w>>
  BY DEF Expire, Delivered, objects, caches, watcher
<1>2. \A v \in mine : ~Unseen(v)
  BY <1>1, Behind DEF Rest, Removed, Unseen
<1>3. Counted'
  <2>1. Untold' = Untold /\ Left' = Left
    BY <1>1, SMTT(30) DEF Untold, Left
  <2> QED BY <1>1, <2>1 DEF Rest, Counted
<1>4. Ordered'
  BY <1>1 DEF Rest, Ordered
<1>5. Known'
  BY <1>1 DEF Rest, Known
<1>6. Removed'
  BY <1>1, <1>2, Zenon DEF Rest, Removed, Unseen
<1> QED BY <1>3, <1>4, <1>5, <1>6 DEF Rest

\* A cache that equals the objects is in order and shows every deletion.
LEMMA Refilled ==
    ASSUME TypeOK, Rest, cvm' = vm, events' = <<>>, UNCHANGED <<vm, mine>>
    PROVE  Ordered' /\ \A v \in mine' : vm'[v] \in {"terminating", "gone"} /\ ~Unseen(v)'
<1>1. Len(events') = 0
  BY SMTT(30)
<1>2. Ordered'
  BY <1>1 DEF Ordered
<1> QED BY <1>2 DEF Rest, Removed, Unseen

\* A broken watch may leave the counter of creations too high, never too low.
LEMMA RelistRest == ASSUME TypeOK, Rest, Relist PROVE Rest'
<1>1. /\ cvm' = vm /\ events' = <<>> /\ told \subseteq told'
      /\ told' = told \cup {v \in VMs : cvm[v] = "none" /\ vm[v] = "gone"}
      /\ UNCHANGED <<vm, creations, deletions, expired, mine, w>>
  BY DEF Relist, objects, exp
<1>2. \A v \in VMs : /\ cvm[v] # "none" => vm[v] # "none"
                     /\ cvm[v] = "gone" => vm[v] = "gone"
  BY Behind DEF Rest, Rank, States, Changes
<1>3. Counted'
  <2>1. Untold' \subseteq Untold /\ Left' = Left
    BY <1>1 DEF Untold, Left
  <2>2. IsFiniteSet(Untold) /\ Cardinality(Untold) \in Nat
    BY CountedTypes
  <2>3. Cardinality(Untold') <= Cardinality(Untold) /\ IsFiniteSet(Untold')
    BY <2>1, <2>2, FS_Subset
  <2>4. Cardinality(Untold') \in Nat
    BY <2>3, FS_CardinalityType
  <2> QED BY <1>1, <2>1, <2>2, <2>3, <2>4, CountedTypes, SMTT(30) DEF Rest, Counted
<1>4. Ordered' /\ \A v \in mine' : vm'[v] \in {"terminating", "gone"} /\ ~Unseen(v)'
  BY <1>1, Refilled, SMTT(30)
<1>5. w # None => w.members \subseteq VMs /\ w.victims \subseteq VMs
  BY WorkFields DEF TypeOK
<1>6. Known'
  BY <1>1, <1>2, <1>5, SMTT(20), ZenonT(20), SMTT(40) DEF Rest, Known, TypeOK
<1>7. Removed'
  <2>1. w # None /\ w.pc = "delete" => ~expired /\ \A v \in w.victims : v \in deletions \/ vm[v] = "gone"
    BY <1>2, <1>5, SMTT(30) DEF Rest, Removed
  <2>2. w' # None /\ w'.pc = "delete" =>
           /\ ~expired'
           /\ \A v \in w'.victims : (v \in deletions' \/ cvm'[v] = "gone") /\ (v \in mine' => ~Unseen(v)')
    BY <1>1, <1>4, <2>1, SMTT(30)
  <2> QED BY <1>4, <2>2, Zenon DEF Removed
<1> QED BY <1>3, <1>4, <1>6, <1>7, SMTT(30) DEF Rest

\* A new process expects nothing, and its cache shows everything.
LEMMA RestartRest == ASSUME TypeOK, Rest, Restart PROVE Rest'
<1>1. /\ cvm' = vm /\ events' = <<>> /\ w' = None /\ creations' = 0 /\ expired' = FALSE
      /\ told' = {v \in VMs : vm[v] # "none"} /\ UNCHANGED <<vm, mine>>
  BY DEF Restart, objects
<1>2. Counted'
  <2>1. Untold' = {} /\ Left' = 0
    BY <1>1 DEF Untold, Left
  <2>2. Cardinality(Untold') = 0
    BY <2>1, FS_EmptySet
  <2> QED BY <1>1, <2>1, <2>2 DEF Counted
<1>3. Ordered' /\ \A v \in mine' : vm'[v] \in {"terminating", "gone"} /\ ~Unseen(v)'
  BY <1>1, Refilled
<1>4. Known'
  BY <1>1 DEF Known
<1>5. Removed'
  BY <1>1, <1>3 DEF Removed
<1> QED BY <1>2, <1>3, <1>4, <1>5 DEF Rest

\* The steps that leave the replicas of the pool and the expectations alone.
LEMMA OtherRest ==
    ASSUME TypeOK, Rest,
           SyncPool \/ OtherEvent \/ Scale \/ UpdateStatus \/ \E r \in Requests : Validate(r) \/ Shrink(r)
    PROVE  Rest'
<1>1. UNCHANGED <<vm, cvm, events, told, creations, deletions, expired, mine>>
  BY DEF SyncPool, OtherEvent, Scale, UpdateStatus, Validate, Shrink, objects, caches, exp, watcher
<1>2. w' = w \/ w' = None \/ w' = Outdated
  BY DEF SyncPool, OtherEvent, Scale, UpdateStatus, Validate, Shrink
<1>3. CASE w' = w
  BY <1>1, <1>3, FrameRest
<1>4. CASE w' = None
  BY <1>1, <1>4, FrameRest
<1>5. CASE w' = Outdated
  <2>1. w \in Work \cup {None}
    BY DEF TypeOK
  <2> QED BY <1>1, <1>5, <2>1, OutdatedKeeps, FrameRest
<1> QED BY <1>2, <1>3, <1>4, <1>5

\* The steps that mark a replica or let one go.
LEMMA GoingRest ==
    ASSUME TypeOK, Rest,
           DeleteVM \/ (\E v \in VMs : VMGone(v)) \/ \E r \in Requests : DeleteTarget(r)
    PROVE  Rest'
<1>1. CASE DeleteVM
  <2>1. PICK v \in VMs : vm[v] = "live" /\ PutVM(v, "terminating")
    BY <1>1 DEF DeleteVM
  <2>2. UNCHANGED <<cvm, told, creations, deletions, expired, mine, w>>
    BY <1>1 DEF DeleteVM, exp, watcher
  <2> QED BY <2>1, <2>2, MoveOnRest, SMTT(30) DEF Rank
<1>2. ASSUME NEW v \in VMs, VMGone(v) PROVE Rest'
  <2>1. vm[v] = "terminating" /\ PutVM(v, "gone")
    BY <1>2 DEF VMGone
  <2>2. UNCHANGED <<cvm, told, creations, deletions, expired, mine, w>>
    BY <1>2 DEF VMGone, exp, watcher
  <2> QED BY <2>1, <2>2, MoveOnRest DEF Rank
<1>3. ASSUME NEW r \in Requests, DeleteTarget(r) PROVE Rest'
  <2>1. req[r].target \in VMs
    BY <1>3 DEF DeleteTarget, TypeOK
  <2>2. UNCHANGED <<cvm, told, creations, deletions, expired, mine, w>>
    BY <1>3 DEF DeleteTarget, exp, watcher
  <2>3. UNCHANGED <<vm, events>> \/ MarkVM(req[r].target)
    BY <1>3, Zenon DEF DeleteTarget
  <2> QED BY <2>1, <2>2, <2>3, MarkRest, FrameRest
<1> QED BY <1>1, <1>2, <1>3

\* A step that changes nothing keeps the invariant.
LEMMA StutterInv == ASSUME TypeOK, Rest, UNCHANGED vars PROVE TypeOK' /\ Rest'
<1>1. /\ UNCHANGED <<policy, pool, vm, cpool, pevents, cvm, events, creations, deletions, expired>>
      /\ UNCHANGED <<told, buried, queued, w, req, mine, edits, faults>>
  BY SMTT(30) DEF vars, objects, caches, exp, watcher, bounds
<1>2. TypeOK'
  BY <1>1 DEF TypeOK
<1>3. Rest'
  BY <1>1, FrameRest
<1> QED BY <1>2, <1>3

\* Every step keeps the invariant.
LEMMA StepInv == ASSUME SlowWatch = FALSE, TypeOK, Rest, Next PROVE TypeOK' /\ Rest'
<1>1. CASE Start
  BY <1>1, StartType, StartRest
<1>2. CASE Check
  BY <1>2, CheckType, CheckRest
<1>3. CASE Create
  BY <1>3, CreateType, CreateRest DEF Rest
<1>4. CASE Delete
  BY <1>4, DeleteType, DeleteRest
<1>5. CASE UpdateStatus
  BY <1>5, UpdateStatusType, OtherRest
<1>6. CASE SyncPool \/ OtherEvent
  BY <1>6, InformerType, OtherRest
<1>7. CASE SyncVM
  BY <1>7, InformerType, SyncRest
<1>8. ASSUME NEW v \in VMs, CreateEvent(v) \/ DeleteEvent(v) PROVE TypeOK' /\ Rest'
  BY <1>8, InformerType, CreateEventRest, DeleteEventRest
<1>9. CASE Expire
  BY <1>9, InformerType, ExpireRest, ZenonT(60)
<1>10. CASE Relist \/ Restart
  BY <1>10, FaultType, RelistRest, RestartRest
<1>11. CASE Scale
  BY <1>11, UserType, OtherRest
<1>12. CASE DeleteVM \/ \E v \in VMs : VMGone(v)
  BY <1>12, UserType, GoingRest
<1>13. ASSUME NEW r \in Requests, Validate(r) \/ ScaleDownWith(r) PROVE TypeOK' /\ Rest'
  <2>1. TypeOK'
    BY <1>13, RequestType
  <2>2. Rest'
    BY <1>13, OtherRest, GoingRest DEF ScaleDownWith
  <2> QED BY <2>1, <2>2
<1> QED BY <1>1, <1>2, <1>3, <1>4, <1>5, <1>6, <1>7, <1>8, <1>9, <1>10, <1>11, <1>12, <1>13, SMTT(30)
        DEF Next, Reconcile, Informer

\* The inductive invariant holds as long as the watch is not slower than the time
\* limit of the expectations: five minutes after the last one was set the cache and the
\* watcher know of everything that happened.
THEOREM Invariant == ASSUME SlowWatch = FALSE PROVE Spec => []IInv
<1>1. Init => TypeOK /\ Rest
  BY InitRest
<1>2. (TypeOK /\ Rest) /\ [Next]_vars => (TypeOK /\ Rest)'
  BY StepInv, StutterInv, Zenon
<1>3. TypeOK /\ Rest => IInv
  BY DEF Rest, IInv
<1> QED BY <1>1, <1>2, <1>3, PTL DEF Spec

\* The pool, its replicas, the caches, the expectations and the reconcile of
\* SyncHandler.Handle keep their types: in particular the number of replicas still to
\* be created is never negative, and the counter of expected creations never is.
THEOREM TypeCorrect == ASSUME SlowWatch = FALSE PROVE Spec => []TypeOK
<1>1. IInv => TypeOK
  BY DEF IInv
<1> QED BY <1>1, Invariant, PTL

\* What Expectations.Satisfied promises to SyncHandler.Handle: when no creation and no
\* deletion is outstanding, the informer's cache shows every replica that was created
\* and none that the controller deleted as alive, whatever calls failed, watches broke,
\* processes restarted and requests came in between.
THEOREM ExpectationsSound == ASSUME SlowWatch = FALSE PROVE Spec => []SatisfiedIsSeen
<1>1. IInv => SatisfiedIsSeen
  <2> SUFFICES ASSUME IInv, creations = 0, deletions = {}, NEW v \in VMs
               PROVE  (vm[v] # "none" => cvm[v] # "none") /\ (v \in mine => cvm[v] # "live")
    BY DEF SatisfiedIsSeen
  <2>1. Cardinality(Untold) = 0 /\ IsFiniteSet(Untold)
    BY CountedTypes DEF IInv, Counted
  <2>2. Untold = {}
    BY <2>1, FS_EmptySet, SMTT(30)
  <2>3. vm[v] # "none" => cvm[v] # "none"
    BY <2>2 DEF Untold, IInv, Known
  <2>4. v \in mine => cvm[v] # "live"
    BY DEF IInv, Removed, Unseen
  <2> QED BY <2>3, <2>4
<1> QED BY <1>1, Invariant, PTL

\* Taking the victims from the candidates leaves what the reconcile means to have.
LEMMA VictimsCounted ==
    ASSUME NEW M, IsFiniteSet(M), NEW T \in SUBSET M, NEW d \in Nat, Cardinality(M) > d,
           NEW S \in PickVictims(M \ T, (Cardinality(M) - d) - Cardinality(T)), S # {}
    PROVE  Cardinality((M \ T) \ S) = d
<1> DEFINE C == M \ T
           n == (Cardinality(M) - d) - Cardinality(T)
<1>1. /\ IsFiniteSet(T) /\ IsFiniteSet(C) /\ IsFiniteSet(S) /\ S \subseteq C
      /\ Cardinality(M) \in Nat /\ Cardinality(T) \in Nat /\ Cardinality(C) \in Nat
  BY VictimsListed, FS_Subset, FS_CardinalityType
<1>2. Cardinality(C) = Cardinality(M) - Cardinality(T)
  <2>1. M \cap T = T
    OBVIOUS
  <2>2. Cardinality(C) = Cardinality(M) - Cardinality(M \cap T)
    BY FS_Difference, Zenon
  <2> QED BY <2>1, <2>2, Zenon
<1>3. Cardinality(S) = IF n > Cardinality(C) THEN Cardinality(C) ELSE n
  BY DEF PickVictims
<1>4. Cardinality(S) = n
  BY <1>1, <1>2, <1>3
<1>5. Cardinality(C \ S) = Cardinality(C) - Cardinality(S)
  <2>1. C \cap S = S
    BY <1>1
  <2>2. Cardinality(C \ S) = Cardinality(C) - Cardinality(C \cap S)
    BY <1>1, FS_Difference, Zenon
  <2> QED BY <2>1, <2>2
<1> HIDE DEF C
<1>6. Cardinality(C \ S) = d
  BY <1>1, <1>2, <1>4, <1>5
<1> QED BY <1>6 DEF C

\* Only the check begins to delete, when the expectations are met and the list is too long.
LEMMA ScaleDownStep ==
    ASSUME TypeOK, [Next]_vars, w # None, w' # None, w.pc = "check", w'.pc = "delete"
    PROVE  /\ Satisfied /\ w'.victims # {} /\ Cardinality(w.members) > w.desired
           /\ w'.victims \in PickVictims(w.members \ w.terminating,
                                         (Cardinality(w.members) - w.desired) - Cardinality(w.terminating))
<1>1. w \in Work /\ w.desired \in Nat /\ Cardinality(w.members) \in Nat
  BY Listed, WorkFields, Zenon DEF TypeOK
<1>2. CASE Check
  <2>1. Satisfied
    BY <1>2, CheckEffect, Zenon
  <2>2. ~(Cardinality(w.members) < w.desired)
    <3> SUFFICES ASSUME Cardinality(w.members) < w.desired PROVE FALSE
      OBVIOUS
    <3>1. w' = [w EXCEPT !.pc = "create", !.n = w.desired - Cardinality(w.members)]
      BY <1>2, <2>1 DEF Check, ScaleUp
    <3>2. w'.pc = "create"
      BY <1>1, <3>1, Zenon DEF Work
    <3> QED BY <3>2
  <2>3. Cardinality(w.members) > w.desired
    <3> SUFFICES ASSUME ~(Cardinality(w.members) > w.desired) PROVE FALSE
      OBVIOUS
    <3>1. w' = [w EXCEPT !.pc = "status"]
      BY <1>2, <2>1, <2>2 DEF Check
    <3>2. w'.pc = "status"
      BY <1>1, <3>1, Zenon DEF Work
    <3> QED BY <3>2
  <2>4. ScaleDown(Cardinality(w.members) - w.desired)
    BY <1>2, <2>1, <2>2, <2>3 DEF Check
  <2>5. PICK S \in PickVictims(w.members \ w.terminating,
                               (Cardinality(w.members) - w.desired) - Cardinality(w.terminating)) :
           w' = [w EXCEPT !.pc = IF S = {} THEN "status" ELSE "delete", !.victims = S]
    BY <2>4, Zenon DEF ScaleDown
  <2>6. w'.pc = (IF S = {} THEN "status" ELSE "delete") /\ w'.victims = S
    BY <1>1, <2>5, Zenon DEF Work
  <2> QED BY <2>1, <2>3, <2>5, <2>6
<1>3. ASSUME UNCHANGED w PROVE FALSE
  BY <1>3
<1>4. ASSUME w' = Outdated PROVE FALSE
  BY <1>1, <1>4, OutdatedKeeps
<1>5. CASE ~Check
  BY <1>3, <1>4, <1>5, ZenonT(60)
     DEF Next, vars, Reconcile, Start, Create, Delete, UpdateStatus, Informer, SyncPool, SyncVM, CreateEvent,
         DeleteEvent, OtherEvent, Expire, Relist, Restart, Scale, DeleteVM, VMGone, Validate, ScaleDownWith,
         DeleteTarget, Shrink
<1> QED BY <1>2, <1>5, Zenon

\* SyncHandler.scaleDown leaves enough replicas, for any number of them, of failures,
\* restarts and requests, when the list is the cache's: none of the replicas it counts
\* on was deleted by an earlier pass, since the expectations hold the next pass back
\* until the cache shows the deletion, and it does so as well when their time is over.
THEOREM ScaleDownLeavesEnough == ASSUME SlowWatch = FALSE PROVE Spec => NeverOverDeletes
<1>1. IInv /\ [Next]_vars =>
        [w # None /\ w' # None /\ w.pc = "check" /\ w'.pc = "delete" /\ ListIsCurrent =>
          Cardinality(w.members \ (w.terminating \cup w'.victims \cup mine)) >= w.desired]_vars
  <2> SUFFICES ASSUME IInv, [Next]_vars, w # None, w' # None, w.pc = "check", w'.pc = "delete", ListIsCurrent
               PROVE  Cardinality(w.members \ (w.terminating \cup w'.victims \cup mine)) >= w.desired
    OBVIOUS
  <2>1. TypeOK /\ w \in Work /\ w.desired \in Nat /\ IsFiniteSet(w.members) /\ w.members \subseteq VMs
    BY Listed, WorkFields, Zenon DEF IInv, TypeOK
  <2>2. w.terminating \in SUBSET w.members
    BY DEF ListIsCurrent, Exists
  <2>3. Cardinality((w.members \ w.terminating) \ w'.victims) = w.desired
    BY <2>1, <2>2, ScaleDownStep, VictimsCounted, Zenon
  <2>4. \A v \in mine : cvm[v] # "live"
    BY <2>1, ScaleDownStep, Zenon DEF IInv, Removed, Unseen, Satisfied
  <2>5. \A v \in w.members : v \in mine => v \in w.terminating
    BY <2>1, <2>4 DEF ListIsCurrent, Exists
  <2>6. w.members \ (w.terminating \cup w'.victims \cup mine) = (w.members \ w.terminating) \ w'.victims
    BY <2>5
  <2>7. \A c : c = w.desired => c >= w.desired
    BY <2>1
  <2> QED BY <2>3, <2>6, <2>7, ZenonT(20), SMTT(20)
<1> QED BY <1>1, Invariant, PTL DEF Spec, NeverOverDeletes

=============================================================================
