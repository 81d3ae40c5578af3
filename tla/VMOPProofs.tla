----------------------------- MODULE VMOPProofs -----------------------------
(***************************************************************************)
(* One operation at a time (VMOP), for any number of operations: every     *)
(* step preserves the invariant SInv, and it implies the promise.          *)
(***************************************************************************)
EXTENDS VMOPTypes

-----------------------------------------------------------------------------
(* A write, a watch event, a reconcile that begins, the signal to the VM    *)

\* A write to a vmop: the event comes last, and the writer shows nothing as over or sent
\* that is not.
LEMMA PutSound ==
    ASSUME TInv, TInv', SInv, NEW o \in Ops, spec[o] # None, vmop[o] # None,
           NEW x \in Object \cup {None}, Put(o, x),
           Past(vmop[o]) => Past(x), x # None /\ x.sent => Cleared(o),
           UNCHANGED migVars
    PROVE  /\ Grows /\ Aged' /\ Log' /\ InOrder' /\ Sent'
           /\ \A b \in Ops : Unseen(b)' => Unseen(b)
<1> DEFINE n == Len(events) + 1
<1>1. /\ clock' = clock /\ spec' = spec /\ cvmop' = cvmop
      /\ vmop'[o] = x /\ \A b \in Ops \ {o} : vmop'[b] = vmop[b]
      /\ Len(events') = n /\ events'[n] = <<o, x>>
      /\ \A i \in 1 .. Len(events) : events'[i] = events[i]
  BY Written
<1>2. /\ Len(events) \in Nat /\ DOMAIN events = 1 .. Len(events)
      /\ DOMAIN events' = 1 .. n
      /\ \A i \in DOMAIN events : events[i][1] \in Ops
  <2>1. /\ events \in Seq(Ops \X (Object \cup {None}))
        /\ events' \in Seq(Ops \X (Object \cup {None}))
    BY DEF TInv, TypeOK
  <2> QED BY <1>1, <2>1
<1>3. /\ n \in DOMAIN events' /\ events'[n][1] = o /\ events'[n][2] = x
      /\ \A i \in DOMAIN events : i \in DOMAIN events' /\ events'[i] = events[i] /\ i < n
      /\ \A i \in DOMAIN events' : i = n \/ i \in DOMAIN events
      /\ \A i \in DOMAIN events' : ~(i > n)
  BY <1>1, <1>2
<1> HIDE DEF n
<1>4. Grows
  BY <1>1 DEF Grows
<1>5. Aged'
  BY <1>1 DEF SInv, Aged
<1>6. \A b \in Ops \ {o} : Current(b)' => Current(b)
  BY <1>3 DEF Current
<1>7. ~Current(o)'
  BY <1>3 DEF Current
<1>8. \A i \in DOMAIN events : LastOf(i)' => LastOf(i) /\ events[i][1] # o
  BY <1>3 DEF LastOf
<1>9. Log
  BY DEF SInv
<1>10. Log'
  <2>1. ASSUME NEW b \in Ops, Current(b)'
        PROVE  cvmop'[b] = vmop'[b]
    BY <1>1, <1>6, <1>7, <1>9, <2>1 DEF Log
  <2>2. ASSUME NEW i \in DOMAIN events', LastOf(i)'
        PROVE  events'[i][2] = vmop'[events'[i][1]]
    <3>1. CASE i = n
      BY <1>1, <1>3, <3>1
    <3>2. CASE i \in DOMAIN events
      <4>1. events[i][1] \in Ops \ {o} /\ events[i][2] = vmop[events[i][1]]
        BY <1>2, <1>8, <1>9, <2>2, <3>2 DEF Log
      <4> QED BY <1>1, <1>3, <3>2, <4>1
    <3> QED BY <1>3, <3>1, <3>2
  <2>3. ASSUME NEW i \in DOMAIN events', events'[i][2] = None
        PROVE  LastOf(i)'
    <3>1. CASE i = n
      BY <1>3, <3>1 DEF LastOf
    <3>2. CASE i \in DOMAIN events
      <4>1. LastOf(i) /\ vmop[events[i][1]] = None
        BY <1>3, <1>9, <2>3, <3>2 DEF Log
      <4>2. events[i][1] # o
        BY <4>1
      <4> QED BY <1>3, <3>2, <4>1, <4>2 DEF LastOf
    <3> QED BY <1>3, <3>1, <3>2
  <2>4. ASSUME NEW i \in DOMAIN events', Past(events'[i][2])
        PROVE  Past(vmop'[events'[i][1]])
    <3>1. CASE i = n
      BY <1>1, <1>3, <2>4, <3>1
    <3>2. CASE i \in DOMAIN events
      <4>1. events[i][1] \in Ops /\ spec[events[i][1]] # None /\ Past(vmop[events[i][1]])
        BY <1>2, <1>3, <1>9, <2>4, <3>2 DEF Log, TInv, Known
      <4> QED BY <1>3, <1>4, <3>2, <4>1 DEF Grows
    <3> QED BY <1>3, <3>1, <3>2
  <2>5. ASSUME NEW b \in Ops, cvmop'[b] # None, Ended(cvmop'[b])
        PROVE  Past(vmop'[b])
    <3>1. Past(vmop[b]) /\ spec[b] # None
      BY <1>1, <1>9, <2>5, Zenon DEF Log, TInv, Known
    <3> QED BY <1>4, <3>1 DEF Grows
  <2> QED BY <2>1, <2>2, <2>3, <2>4, <2>5 DEF Log
<1>11. \A b \in Ops : Unseen(b)' => Unseen(b)
  <2> SUFFICES ASSUME NEW b \in Ops, Unseen(b)'
               PROVE  Unseen(b)
    OBVIOUS
  <2>1. cvmop[b] = None /\ ~Current(b)'
    BY <1>1 DEF Unseen
  <2>2. CASE b = o
    BY <1>9, <2>1, <2>2 DEF Unseen, Log
  <2>3. CASE b # o
    <3>1. ~Current(b)
      BY <1>3, <2>1, <2>3 DEF Current
    <3> QED BY <2>1, <3>1 DEF Unseen
  <2> QED BY <2>2, <2>3
<1>12. InOrder'
  <2> SUFFICES ASSUME ~SameSecond, NEW q \in Ops, NEW p \in Ops, p # q, spec'[q] # None, spec'[p] # None,
                      IsOlder(p, q)', Unseen(p)'
               PROVE  /\ cvmop'[q] = None
                      /\ \A i \in DOMAIN events' :
                           events'[i][1] = q => \E j \in DOMAIN events' : j < i /\ events'[j][1] = p
    BY DEF InOrder
  <2>1. Unseen(p) /\ IsOlder(p, q) /\ spec[q] # None /\ spec[p] # None
    BY <1>1, <1>11 DEF IsOlder
  <2>2. /\ cvmop[q] = None
        /\ \A i \in DOMAIN events :
             events[i][1] = q => \E j \in DOMAIN events : j < i /\ events[j][1] = p
    BY <2>1 DEF SInv, InOrder
  <2>3. \E j \in DOMAIN events : events[j][1] = p
    BY <2>1 DEF Unseen, Current
  <2> QED BY <1>1, <1>3, <2>2, <2>3
<1>13. Sent'
  <2>1. \A b \in Ops : Cleared(b) => Cleared(b)'
    BY <1>4, ClearedStays DEF SInv
  <2>2. Sent /\ mig' = mig /\ cmig' = cmig
    BY DEF SInv, migVars
  <2>3. \A b \in Ops : vmop'[b] # None /\ vmop'[b].sent => Cleared(b)
    BY <1>1, <2>2 DEF Sent
  <2>4. \A b \in Ops : cvmop'[b] # None /\ cvmop'[b].sent => Cleared(b)
    BY <1>1, <2>2 DEF Sent
  <2>5. ASSUME NEW i \in DOMAIN events', events'[i][2] # None, events'[i][2].sent
        PROVE  events'[i][1] \in Ops /\ Cleared(events'[i][1])
    <3>1. CASE i = n
      BY <1>3, <2>5, <3>1
    <3>2. CASE i \in DOMAIN events
      BY <1>2, <1>3, <2>2, <2>5, <3>2 DEF Sent
    <3> QED BY <1>3, <3>1, <3>2
  <2>6. ASSUME NEW i \in DOMAIN events', events'[i][2] # None, events'[i][2].sent
        PROVE  Cleared(events[i][1])'
    <3>1. PICK b \in Ops : b = events'[i][1]
      BY <2>5, <2>6
    <3>2. Cleared(b)'
      BY <2>1, <2>5, <2>6, <3>1
    <3> QED BY <3>1, <3>2
  <2>7. \A b \in Ops : mig'[b] # "none" \/ cmig'[b] # "none" => Cleared(b)
    BY <2>2 DEF Sent
  <2> QED BY <2>1, <2>3, <2>4, <2>6, <2>7 DEF Sent
<1> QED BY <1>4, <1>5, <1>10, <1>11, <1>12, <1>13

\* The cache learns of the events in their order.
LEMMA SyncSound ==
    ASSUME TInv, TInv', SInv, SyncVMOP
    PROVE  SInv' /\ Grows
<1>1. /\ events \in Seq(Ops \X (Object \cup {None})) /\ events # <<>>
      /\ events' = Tail(events)
      /\ cvmop' = [cvmop EXCEPT ![Head(events)[1]] = Head(events)[2]]
      /\ clock' = clock /\ spec' = spec /\ vmop' = vmop /\ work' = work
      /\ mig' = mig /\ cmig' = cmig
  BY DEF SyncVMOP, TInv, TypeOK, migVars
<1>2. /\ Len(events) \in Nat /\ Len(events) >= 1 /\ DOMAIN events = 1 .. Len(events)
      /\ Len(events') = Len(events) - 1 /\ DOMAIN events' = 1 .. Len(events) - 1
      /\ \A i \in 1 .. Len(events) - 1 : events'[i] = events[i + 1]
      /\ Head(events) = events[1]
  <2>1. Head(events) = events[1] /\ Len(events) \in Nat /\ Len(events) >= 1
        /\ DOMAIN events = 1 .. Len(events)
    BY <1>1
  <2>2. /\ events' \in Seq(Ops \X (Object \cup {None})) /\ Len(events') = Len(events) - 1
        /\ \A i \in 1 .. Len(events') : events'[i] = events[i + 1]
    BY <1>1
  <2> QED BY <2>1, <2>2
<1>3. PICK h \in Ops, y \in Object \cup {None} : h = events[1][1] /\ y = events[1][2]
  BY <1>1, <1>2
<1>4. /\ 1 \in DOMAIN events
      /\ \A i \in DOMAIN events' : i + 1 \in DOMAIN events /\ i + 1 > 1 /\ events'[i] = events[i + 1]
      /\ \A i \in DOMAIN events : i = 1 \/ (i - 1 \in DOMAIN events' /\ events'[i - 1] = events[i])
      /\ \A i, j \in DOMAIN events' : j > i <=> j + 1 > i + 1
      /\ \A i, j \in DOMAIN events : i # 1 /\ j # 1 => (j > i <=> j - 1 > i - 1)
  BY <1>2
<1>5. /\ cvmop'[h] = y /\ \A b \in Ops \ {h} : cvmop'[b] = cvmop[b]
  BY <1>1, <1>2, <1>3 DEF TInv, TypeOK
<1>6. Log /\ InOrder /\ Sent /\ Aged
  BY DEF SInv
<1>7. \A b \in Ops \ {h} : Current(b)' <=> Current(b)
  BY <1>3, <1>4 DEF Current
<1>8. Current(h)' => LastOf(1)
  <2> SUFFICES ASSUME Current(h)', NEW j \in DOMAIN events, j > 1
               PROVE  events[j][1] # events[1][1]
    BY DEF LastOf
  <2>1. j - 1 \in DOMAIN events' /\ events'[j - 1] = events[j]
    BY <1>2, <1>4
  <2> QED BY <1>3, <2>1 DEF Current
<1>9. \A i \in DOMAIN events' : LastOf(i)' <=> LastOf(i + 1)
  <2> SUFFICES ASSUME NEW i \in DOMAIN events'
               PROVE  LastOf(i)' <=> LastOf(i + 1)
    OBVIOUS
  <2>1. i \in 1 .. Len(events) - 1 /\ events'[i] = events[i + 1]
    BY <1>2
  <2>2. ASSUME LastOf(i)', NEW j \in DOMAIN events, j > i + 1
        PROVE  events[j][1] # events[i + 1][1]
    <3>1. j - 1 \in DOMAIN events' /\ events'[j - 1] = events[j] /\ j - 1 > i
      BY <1>2, <2>1, <2>2
    <3> QED BY <2>1, <2>2, <3>1 DEF LastOf
  <2>3. ASSUME LastOf(i + 1), NEW j \in DOMAIN events', j > i
        PROVE  events'[j][1] # events'[i][1]
    <3>1. j + 1 \in DOMAIN events /\ events'[j] = events[j + 1] /\ j + 1 > i + 1
      BY <1>2, <2>1, <2>3
    <3> QED BY <2>1, <2>3, <3>1 DEF LastOf
  <2> QED BY <2>2, <2>3 DEF LastOf
<1>10. LastOf(1) => Current(h)'
  <2> SUFFICES ASSUME LastOf(1), NEW i \in DOMAIN events'
               PROVE  events'[i][1] # h
    BY DEF Current
  <2> QED BY <1>3, <1>4 DEF LastOf
<1>11. Log'
  <2>1. ASSUME NEW b \in Ops, Current(b)'
        PROVE  cvmop'[b] = vmop'[b]
    <3>1. CASE b = h
      BY <1>1, <1>3, <1>4, <1>5, <1>6, <1>8, <2>1, <3>1 DEF Log
    <3>2. CASE b # h
      BY <1>1, <1>5, <1>6, <1>7, <2>1, <3>2, Zenon DEF Log
    <3> QED BY <3>1, <3>2
  <2>2. \A i \in DOMAIN events' : LastOf(i)' => events'[i][2] = vmop'[events'[i][1]]
    BY <1>1, <1>4, <1>6, <1>9 DEF Log
  <2>3. \A i \in DOMAIN events' : events'[i][2] = None => LastOf(i)'
    BY <1>4, <1>6, <1>9 DEF Log
  <2>4. \A i \in DOMAIN events' : Past(events'[i][2]) => Past(vmop'[events'[i][1]])
    BY <1>1, <1>4, <1>6, Zenon DEF Log
  <2>5. \A b \in Ops : cvmop'[b] # None /\ Ended(cvmop'[b]) => Past(vmop'[b])
    <3>1. y # None /\ Ended(y) => Past(vmop[h])
      BY <1>3, <1>4, <1>6 DEF Log, Past
    <3> QED BY <1>1, <1>5, <1>6, <3>1 DEF Log
  <2> QED BY <2>1, <2>2, <2>3, <2>4, <2>5 DEF Log
<1>12. \A b \in Ops : Unseen(b)' => Unseen(b) /\ b # h
  <2> SUFFICES ASSUME NEW b \in Ops, Unseen(b)'
               PROVE  Unseen(b) /\ b # h
    OBVIOUS
  <2>1. cvmop'[b] = None /\ ~Current(b)'
    BY DEF Unseen
  <2>2. b # h
    <3> SUFFICES ASSUME b = h PROVE FALSE
      OBVIOUS
    <3>1. y = None
      BY <1>5, <2>1
    <3>2. LastOf(1)
      BY <1>3, <1>4, <1>6, <3>1, Zenon DEF Log
    <3> QED BY <1>10, <2>1, <3>2
  <2> QED BY <1>5, <1>7, <2>1, <2>2 DEF Unseen
<1>13. InOrder'
  <2> SUFFICES ASSUME ~SameSecond, NEW q \in Ops, NEW p \in Ops, p # q, spec'[q] # None, spec'[p] # None,
                      IsOlder(p, q)', Unseen(p)'
               PROVE  /\ cvmop'[q] = None
                      /\ \A i \in DOMAIN events' :
                           events'[i][1] = q => \E j \in DOMAIN events' : j < i /\ events'[j][1] = p
    BY DEF InOrder
  <2>1. Unseen(p) /\ p # h /\ IsOlder(p, q) /\ spec[q] # None /\ spec[p] # None
    BY <1>1, <1>12 DEF IsOlder
  <2>2. /\ cvmop[q] = None
        /\ \A i \in DOMAIN events :
             events[i][1] = q => \E j \in DOMAIN events : j < i /\ events[j][1] = p
    BY <1>6, <2>1 DEF InOrder
  <2>3. q # h
    <3>1. \A j \in DOMAIN events : ~(j < 1)
      BY <1>2
    <3> QED BY <1>3, <1>4, <2>2, <3>1
  <2>4. ASSUME NEW i \in DOMAIN events', events'[i][1] = q
        PROVE  \E j \in DOMAIN events' : j < i /\ events'[j][1] = p
    <3>1. i + 1 \in DOMAIN events /\ events[i + 1][1] = q
      BY <1>4, <2>4
    <3>2. PICK j \in DOMAIN events : j < i + 1 /\ events[j][1] = p
      BY <2>2, <3>1
    <3>3. j # 1
      BY <1>3, <2>1, <3>2
    <3>4. j - 1 \in DOMAIN events' /\ events'[j - 1] = events[j] /\ j - 1 < i
      BY <1>2, <1>4, <3>2, <3>3
    <3> QED BY <3>2, <3>4
  <2> QED BY <1>5, <2>2, <2>3, <2>4
<1>14. Grows
  BY <1>1 DEF Grows
<1>15. \A o \in Ops : Cleared(o) => Cleared(o)'
  BY <1>6, <1>14, ClearedStays
<1>16. Sent'
  <2>1. \A b \in Ops : vmop'[b] # None /\ vmop'[b].sent => Cleared(b)
    BY <1>1, <1>6 DEF Sent
  <2>2. \A b \in Ops : cvmop'[b] # None /\ cvmop'[b].sent => Cleared(b)
    BY <1>3, <1>4, <1>5, <1>6, SMTT(20), ZenonT(20), SMTT(40) DEF Sent
  <2>3. ASSUME NEW i \in DOMAIN events', events'[i][2] # None, events'[i][2].sent
        PROVE  Cleared(events[i][1])'
    <3>1. i + 1 \in DOMAIN events /\ events'[i] = events[i + 1] /\ events[i + 1][1] \in Ops
      BY <1>1, <1>4
    <3>2. PICK b \in Ops : b = events'[i][1]
      BY <3>1
    <3>3. Cleared(b)
      BY <1>6, <2>3, <3>1, <3>2 DEF Sent
    <3>4. Cleared(b)'
      BY <1>15, <3>3
    <3> QED BY <3>2, <3>4
  <2>4. \A b \in Ops : mig'[b] # "none" \/ cmig'[b] # "none" => Cleared(b)
    BY <1>1, <1>6 DEF Sent
  <2> QED BY <1>15, <2>1, <2>2, <2>3, <2>4 DEF Sent
<1>17. Aged'
  BY <1>1, <1>6 DEF Aged
<1>18. ASSUME NEW k \in Controllers
       PROVE  WorkSound(k)'
  <2>1. CASE work[k] = None
    BY <1>1, <2>1 DEF WorkSound
  <2>2. CASE work[k] # None
    <3>1. WorkSound(k)
      BY DEF SInv
    <3>2. work[k].ok /\ work[k].pc # "patch" => vmop[work[k].o] = work[k].was
      BY <2>2, <3>1 DEF WorkSound
    <3> QED BY <1>1, <1>6, <1>12, <1>14, <2>2, <3>1, <3>2, SoundStays
  <2> QED BY <2>1, <2>2
<1> QED BY <1>11, <1>13, <1>14, <1>16, <1>17, <1>18 DEF SInv

\* An operation the cache does not show as open is over, once the cache shows a younger one.
LEMMA SeenPast ==
    ASSUME ~SameSecond, TInv, SInv, NEW o \in Ops, NEW b \in Ops \ {o}, spec[o] # None, spec[b] # None,
           IsOlder(b, o), cvmop[o] # None, cvmop[b] = None \/ IsFinished(cvmop[b])
    PROVE  Past(vmop[b])
<1>1. Log /\ InOrder
  BY DEF SInv
<1>2. ~Unseen(b)
  BY <1>1 DEF InOrder
<1>3. CASE cvmop[b] = None
  BY <1>1, <1>2, <1>3, Zenon DEF Unseen, Log, Past
<1>4. CASE cvmop[b] # None
  BY <1>1, <1>4, Zenon DEF Log, IsFinished, Ended
<1> QED BY <1>3, <1>4

\* The controllers reconcile different vmops.
LEMMA OwnTypes ==
    ASSUME TInv, NEW k \in Controllers, NEW j \in Controllers \ {k},
           work[k] # None, work[j] # None
    PROVE  work[j].o # work[k].o
BY Zenon DEF TInv, WorkKnown, TypesOf, Controllers, PowerTypes, MigrationTypes

\* The reconcile of the other controller.
LEMMA OthersSound ==
    ASSUME TInv, TInv', SInv, Grows, NEW j \in Controllers, work'[j] = work[j],
           work[j] # None => vmop'[work[j].o] = vmop[work[j].o],
           \A b \in Ops : spec[b] # None /\ Unseen(b)' => Unseen(b)
    PROVE  WorkSound(j)'
<1>1. WorkSound(j) /\ Aged
  BY Zenon DEF SInv
<1>2. CASE work[j] = None
  BY <1>2 DEF WorkSound
<1>3. CASE work[j] # None
  <2>1. work[j].ok /\ work[j].pc # "patch" => vmop[work[j].o] = work[j].was
    BY <1>1, <1>3, Zenon DEF WorkSound
  <2> QED BY <1>1, <1>3, <2>1, SoundStays
<1> QED BY <1>2, <1>3, Zenon

\* A reconcile begins: the handlers supersede every older vmop the cache shows as not over.
LEMMA ReconcileSound ==
    ASSUME TInv, TInv', SInv, NEW k \in Controllers, NEW o \in Ops, Reconcile(k, o)
    PROVE  SInv' /\ Grows
<1>1. cvmop[o] # None /\ spec[o] # None
  BY Zenon DEF Reconcile, TInv, Known
<1>2. PICK w \in HandlePower(o) \cup HandleMigration(o) : work' = [work EXCEPT ![k] = w]
  BY Zenon DEF Reconcile
<1>3. Starts(w, o)
  BY <1>1, Handled DEF TInv
<1>4. w \in Work /\ w.o = o
  BY <1>3 DEF Starts
<1>5. work'[k] = w /\ \A j \in Controllers \ {k} : work'[j] = work[j]
  BY <1>2, <1>4, Gone, Zenon
<1>6. UNCHANGED opVars /\ UNCHANGED migVars
  BY DEF Reconcile
<1>7. spec' = spec /\ vmop' = vmop /\ mig' = mig /\ cmig' = cmig
  BY <1>6 DEF opVars, migVars
<1>8. Grows /\ (\A b : Unseen(b)' <=> Unseen(b)) /\ (\A b : Cleared(b)' <=> Cleared(b))
  BY <1>6, Unmoved
<1>9. Log /\ Sent
  BY DEF SInv
<1>10. WorkSound(k)'
  <2>1. w.ok => vmop[o] = w.was
    BY <1>3, <1>9, Zenon DEF Starts, Log
  <2>2. w.now.sent => Cleared(o)
    BY <1>1, <1>3, <1>9, Zenon DEF Starts, Sent
  <2>3. w.pc = "exec" => Cleared(o)
    BY <1>1, <1>3, SeenPast, Zenon DEF Starts, Cleared, OlderActive
  <2>4. w.pc \in {"cleanup", "mark"} => \A b \in w.todo : ~Unseen(b)
    BY <1>3, Zenon DEF Starts, OlderActive, Unseen
  <2>5. w.pc \in {"cleanup", "mark"} =>
          \A b \in Ops \ {o} : ~SameSecond /\ spec[b] # None /\ IsOlder(b, o) =>
                                   Past(vmop[b]) \/ b \in w.todo
    BY <1>1, <1>3, SeenPast, Zenon DEF Starts, OlderActive
  <2>6. \A b : IsOlder(b, o)' <=> IsOlder(b, o)
    BY <1>7 DEF IsOlder
  <2>7. Ended(w.was) => Ended(w.now) /\ w.pc \notin {"cleanup", "mark", "exec"}
    BY <1>3, Zenon DEF Starts
  <2> QED BY <1>4, <1>5, <1>7, <1>8, <2>1, <2>2, <2>3, <2>4, <2>5, <2>6, <2>7, Zenon DEF WorkSound
<1>11. \A j \in Controllers \ {k} : WorkSound(j)'
  BY <1>5, <1>7, <1>8, OthersSound, Zenon
<1>12. \A b \in Ops : mig'[b] # "none" \/ cmig'[b] # "none" => Cleared(b)
  BY <1>7, <1>9 DEF Sent
<1> QED BY <1>6, <1>10, <1>11, <1>12, CalmSound

\* A step of a reconcile that calls for something other than a write to a vmop.
LEMMA CallSound ==
    ASSUME TInv, TInv', SInv, NEW k \in Controllers, work[k] # None, NEW w \in Work, Go(k, w),
           Like(w, work[k]), UNCHANGED opVars, w.pc \in {"status", "mark"},
           Ended(work[k].was) => w.now = work[k].now, w.pc = "mark" => work[k].pc = "cleanup",
           w.now.sent => Cleared(work[k].o), w.pc = "mark" => w.todo = work[k].todo,
           work[k].pc # "patch",
           \A o \in Ops : mig'[o] # "none" \/ cmig'[o] # "none" => Cleared(o)
    PROVE  SInv' /\ Grows
<1>1. work'[k] = w /\ \A j \in Controllers \ {k} : work'[j] = work[j]
  BY Gone, Zenon DEF Go
<1>2. spec' = spec /\ vmop' = vmop
  BY Zenon DEF opVars
<1>3. Grows /\ (\A b : Unseen(b)' <=> Unseen(b)) /\ (\A b : Cleared(b)' <=> Cleared(b))
  BY Unmoved
<1>4. \A a, b : IsOlder(a, b)' <=> IsOlder(a, b)
  BY <1>2, Zenon DEF IsOlder
<1>5. PICK u \in Work : u = work[k]
  BY DEF TInv, TypeOK
<1>6. w.o = u.o /\ w.ok = u.ok /\ w.was = u.was
  BY <1>5, Zenon DEF Like
<1>7. /\ u.ok => vmop[u.o] = u.was
      /\ Ended(u.was) => Ended(u.now) /\ u.pc \notin {"cleanup", "mark", "exec"}
      /\ u.pc = "cleanup" =>
           /\ \A b \in u.todo : ~Unseen(b)
           /\ \A b \in Ops \ {u.o} :
                ~SameSecond /\ spec[b] # None /\ IsOlder(b, u.o) =>
                  Past(vmop[b]) \/ b \in u.todo
  BY <1>5, Zenon DEF SInv, WorkSound
<1>8. WorkSound(k)'
  BY <1>1, <1>2, <1>3, <1>4, <1>5, <1>6, <1>7, Zenon DEF WorkSound
<1>9. \A j \in Controllers \ {k} : WorkSound(j)'
  BY <1>1, <1>2, <1>3, OthersSound, Zenon
<1> QED BY <1>8, <1>9, CalmSound, Zenon

\* The signal is only sent once every older vmop is over.
LEMMA ExecSound ==
    ASSUME TInv, TInv', SInv, NEW failed \in BOOLEAN, ExecPower(failed) \/ ExecMigration(failed)
    PROVE  SInv' /\ Grows
<1>1. PICK k \in Controllers, w \in Work :
        /\ work[k] \in Work /\ work[k].pc = "exec"
        /\ Go(k, w) /\ Like(w, work[k]) /\ w.pc = "status"
        /\ UNCHANGED <<opVars, cmig, cann, born>>
        /\ mig' \in [Ops -> MigStates]
        /\ \A b \in Ops : mig'[b] # mig[b] => b = work[k].o
  BY ExecStep, Zenon
<1>2. work[k] # None
  BY <1>1, NoneAssumption, Zenon
<1>3. WorkSound(k) /\ Sent
  BY DEF SInv
<1>4. Cleared(work[k].o) /\ ~Ended(work[k].was)
  BY <1>1, <1>2, <1>3, Zenon DEF WorkSound
<1>5. \A o \in Ops : mig'[o] # "none" \/ cmig'[o] # "none" => Cleared(o)
  BY <1>1, <1>3, <1>4, Zenon DEF Sent
<1> QED BY <1>1, <1>2, <1>4, <1>5, CallSound, Zenon
-----------------------------------------------------------------------------
\* Deleting a migration never makes one.
LEMMA AbortedNone ==
    ASSUME TInv, NEW o \in Ops, Aborted(o)
    PROVE  \A b \in Ops : mig'[b] # "none" => mig[b] # "none"
BY DEF Aborted, TInv, TypeOK

\* markSuperseded: an older vmop ends, or the reconcile is retried.
LEMMA MarkSound ==
    ASSUME TInv, TInv', SInv, NEW k \in Controllers, Mark(k)
    PROVE  SInv' /\ Grows
<1>1. PICK u \in Work : u = work[k] /\ u.pc = "mark"
  BY MarkStep, Zenon
<1>2. UNCHANGED migVars
  BY MarkStep, Zenon
<1>3. PICK b \in u.todo, w \in Work :
        /\ b \in Ops /\ spec[b] # None /\ b # u.o
        /\ Like(w, u) /\ w.now.sent = u.now.sent
        /\ w.pc \in {"status", "exec", "cleanup"}
        /\ w.pc = "cleanup" => w.todo = u.todo \ {b} /\ w.todo # {}
        /\ w.pc = "exec" => u.todo \ {b} = {}
        /\ \/ /\ cvmop[b] = None \/ IsFinished(cvmop[b])
              /\ Go(k, w) /\ UNCHANGED opVars
           \/ /\ w = [u EXCEPT !.pc = "status"]
              /\ Go(k, w) /\ UNCHANGED opVars
           \/ /\ cvmop[b] # None /\ vmop[b] # None
              /\ Put(b, [vmop[b] EXCEPT !.phase = "Superseded", !.sent = cvmop[b].sent])
              /\ work' = Outdate([work EXCEPT ![k] = w], b)
  BY <1>1, MarkStep, ZenonT(20)
<1>4. u # None /\ work[k] # None /\ u.o \in Ops /\ spec[u.o] # None /\ IsOlder(b, u.o)
  <2>1. u # None /\ work[k] # None /\ u.o \in Ops
    BY <1>1, NoneAssumption, WorkFields
  <2> QED BY <1>1, <2>1, Zenon DEF TInv, WorkKnown
<1>5. /\ u.ok => vmop[u.o] = u.was
      /\ ~Ended(u.was)
      /\ u.now.sent => Cleared(u.o)
      /\ \A c \in u.todo : ~Unseen(c)
      /\ \A c \in Ops \ {u.o} :
           ~SameSecond /\ spec[c] # None /\ IsOlder(c, u.o) => Past(vmop[c]) \/ c \in u.todo
  BY <1>1, <1>4, Zenon DEF SInv, WorkSound
<1>6. w.o = u.o /\ w.ok = u.ok /\ w.was = u.was /\ w.pc # "mark"
  BY <1>3 DEF Like
<1>7. CASE (cvmop[b] = None \/ IsFinished(cvmop[b])) /\ Go(k, w) /\ UNCHANGED opVars
  <2>1. work'[k] = w /\ \A j \in Controllers \ {k} : work'[j] = work[j]
    BY <1>7, Gone, Zenon DEF Go
  <2>2. spec' = spec /\ vmop' = vmop /\ mig' = mig /\ cmig' = cmig
    BY <1>2, <1>7 DEF opVars, migVars
  <2>3. Grows /\ (\A c : Unseen(c)' <=> Unseen(c)) /\ (\A c : Cleared(c)' <=> Cleared(c))
    BY <1>7, Unmoved, Zenon
  <2>4. \A c, d : IsOlder(c, d)' <=> IsOlder(c, d)
    BY <2>2, Zenon DEF IsOlder
  <2>5. Past(vmop[b])
    <3>1. Log /\ ~Unseen(b)
      BY <1>3, <1>5 DEF SInv
    <3>2. CASE cvmop[b] = None
      BY <1>3, <3>1, <3>2 DEF Unseen, Log, Past
    <3>3. CASE cvmop[b] # None
      BY <1>3, <1>7, <3>1, <3>3 DEF Log, IsFinished, Ended
    <3> QED BY <3>2, <3>3, Zenon
  <2>6. w.pc = "exec" => Cleared(u.o)
    BY <1>3, <1>4, <1>5, <2>5 DEF Cleared
  <2>7. WorkSound(k)'
    BY <1>3, <1>5, <1>6, <2>1, <2>2, <2>3, <2>4, <2>5, <2>6 DEF WorkSound
  <2>8. \A j \in Controllers \ {k} : WorkSound(j)'
    BY <2>1, <2>2, <2>3, OthersSound
  <2>9. \A o \in Ops : mig'[o] # "none" \/ cmig'[o] # "none" => Cleared(o)
    BY <2>2 DEF SInv, Sent
  <2> QED BY <1>7, <2>7, <2>8, <2>9, CalmSound, Zenon
<1>8. CASE w = [u EXCEPT !.pc = "status"] /\ Go(k, w) /\ UNCHANGED opVars
  <2>1. w.pc = "status" /\ w.now = u.now
    BY <1>8, PcStep
  <2>2. \A o \in Ops : mig'[o] # "none" \/ cmig'[o] # "none" => Cleared(o)
    BY <1>2 DEF SInv, Sent, migVars
  <2>3. Like(w, work[k]) /\ (w.now.sent => Cleared(work[k].o)) /\ work[k].pc = "mark"
        /\ ~Ended(work[k].was)
    BY <1>1, <1>3, <1>5, <2>1
  <2> QED BY <1>4, <1>8, <2>1, <2>2, <2>3, CallSound, Zenon
<1>9. CASE /\ cvmop[b] # None /\ vmop[b] # None
           /\ Put(b, [vmop[b] EXCEPT !.phase = "Superseded", !.sent = cvmop[b].sent])
           /\ work' = Outdate([work EXCEPT ![k] = w], b)
  <2> DEFINE x == [vmop[b] EXCEPT !.phase = "Superseded", !.sent = cvmop[b].sent]
             wk == [work EXCEPT ![k] = w]
  <2>1. b \in Ops /\ spec[b] # None /\ b # u.o
    BY <1>3
  <2>2. x \in Object /\ Ended(x) /\ x.sent = cvmop[b].sent
    <3>1. vmop[b] \in Object /\ cvmop[b] \in Object
      BY <1>9, <2>1 DEF TInv, TypeOK
    <3>2. cvmop[b].sent \in BOOLEAN /\ "Superseded" \in Phases
      BY <3>1, ObjectFields, Zenon DEF Phases
    <3>3. x \in Object /\ x.phase = "Superseded" /\ x.sent = cvmop[b].sent
      BY <3>1, <3>2, Zenon DEF Object
    <3> HIDE DEF x
    <3> QED BY <3>3 DEF Ended
  <2>3. x.sent => Cleared(b)
    BY <1>9, <2>1, <2>2 DEF SInv, Sent
  <2>4. /\ wk \in [Controllers -> Work \cup {None}] /\ wk[k] = w
        /\ \A j \in Controllers \ {k} : wk[j] = work[j]
    BY Zenon DEF TInv, TypeOK
  <2>5. Put(b, x) /\ work' = Outdate(wk, b) /\ vmop[b] # None
    BY <1>9
  <2> HIDE DEF x, wk
  <2>6. /\ Grows /\ Aged' /\ Log' /\ InOrder' /\ Sent'
        /\ \A c \in Ops : Unseen(c)' => Unseen(c)
    BY <1>2, <2>1, <2>2, <2>3, <2>5, PutSound, Zenon DEF Past
  <2>7. /\ spec' = spec /\ vmop'[b] = x /\ \A c \in Ops \ {b} : vmop'[c] = vmop[c]
    BY <2>1, <2>2, <2>5, Written, Zenon
  <2>8. ASSUME NEW j \in Controllers, wk[j] # None
        PROVE  /\ work'[j] # None /\ work'[j].o = wk[j].o /\ work'[j].was = wk[j].was
               /\ work'[j].now = wk[j].now /\ work'[j].pc = wk[j].pc /\ work'[j].todo = wk[j].todo
               /\ work'[j].ok => wk[j].ok /\ wk[j].o # b
    <3> DEFINE v == Outdate(wk, b)[j]
    <3>1. /\ v # None /\ v.o = wk[j].o /\ v.was = wk[j].was /\ v.now = wk[j].now
          /\ v.pc = wk[j].pc /\ v.todo = wk[j].todo
      BY <2>1, <2>4, <2>8, OutdateStep, Zenon
    <3>2. v.o = b => v.ok = FALSE
      BY <2>1, <2>4, <2>8, OutdateStep, Zenon
    <3>3. v.o # b => v.ok = wk[j].ok
      BY <2>1, <2>4, <2>8, OutdateStep, Zenon
    <3>4. work'[j] = v
      BY <2>5
    <3> HIDE DEF v
    <3> QED BY <3>1, <3>2, <3>3, <3>4
  <2>9. ASSUME NEW j \in Controllers \ {k}
        PROVE  WorkSound(j)'
    <3>1. wk[j] = work[j] /\ WorkSound(j) /\ Aged
      BY <2>4 DEF SInv
    <3>2. CASE work[j] = None
      <4>1. work'[j] = None
        BY <2>1, <2>4, <2>5, <3>1, <3>2, OutdateStep, Zenon
      <4> QED BY <4>1 DEF WorkSound
    <3>3. CASE work[j] # None
      <4>1. /\ work'[j] # None /\ work'[j].o = work[j].o /\ work'[j].was = work[j].was
            /\ work'[j].now = work[j].now /\ work'[j].pc = work[j].pc
            /\ work'[j].todo = work[j].todo
            /\ work'[j].ok => work[j].ok /\ work[j].o # b
        BY <2>8, <3>1, <3>3, Zenon
      <4>2. work[j].o \in Ops
        BY <3>3, WorkFields DEF TInv, TypeOK
      <4>3. work'[j].ok /\ work'[j].pc # "patch" => vmop'[work[j].o] = work[j].was
        BY <2>7, <3>1, <3>3, <4>1, <4>2, Zenon DEF WorkSound
      <4> QED BY <2>6, <3>1, <3>3, <4>1, <4>3, SoundStays, Zenon
    <3> QED BY <3>2, <3>3, Zenon
  <2>10. WorkSound(k)'
    <3>1. /\ work'[k] # None /\ work'[k].o = u.o /\ work'[k].was = u.was
          /\ work'[k].now = w.now /\ work'[k].pc = w.pc /\ work'[k].todo = w.todo
          /\ work'[k].ok => u.ok
      BY <1>6, <2>4, <2>8, NoneAssumption, Zenon
    <3>2. vmop'[u.o] = vmop[u.o] /\ Past(vmop'[b])
      BY <1>4, <2>1, <2>2, <2>7, Zenon DEF Past
    <3>3. PICK o \in Ops : o = u.o
      BY <1>4
    <3>4. \A c, d : IsOlder(c, d)' <=> IsOlder(c, d)
      BY <2>7, Zenon DEF IsOlder
    <3>5. \A c \in Ops \ {o} :
            ~SameSecond /\ spec[c] # None /\ IsOlder(c, o) =>
              Past(vmop'[c]) \/ c \in u.todo \ {b}
      BY <1>5, <2>7, <3>2, <3>3, Zenon
    <3>6. w.pc = "exec" => Cleared(o)'
      BY <1>3, <1>4, <2>7, <3>3, <3>4, <3>5 DEF Cleared
    <3>7. w.now.sent => Cleared(o)'
      <4>1. w.now.sent => Cleared(o)
        BY <1>3, <1>5, <3>3
      <4> QED BY <2>6, <4>1, ClearedStays, Zenon DEF SInv
    <3>8. w.pc \in {"cleanup", "mark"} => w.todo = u.todo \ {b} /\ \A c \in w.todo : ~Unseen(c)'
      <4>1. u.todo \subseteq Ops
        BY WorkFields
      <4> QED BY <1>3, <1>5, <1>6, <2>6, <4>1
    <3>9. ~Ended(u.was) /\ (u.ok => vmop'[o] = u.was)
      BY <1>5, <3>2, <3>3
    <3> QED BY <2>7, <3>1, <3>3, <3>4, <3>5, <3>6, <3>7, <3>8, <3>9, Zenon DEF WorkSound
  <2> QED BY <2>6, <2>9, <2>10 DEF SInv
<1> QED BY <1>3, <1>7, <1>8, <1>9

\* A step of a reconcile that writes the vmop it reconciles.
LEMMA OwnPutSound ==
    ASSUME TInv, TInv', SInv, NEW k \in Controllers, work[k] # None, vmop[work[k].o] # None,
           NEW x \in Object \cup {None}, Put(work[k].o, x),
           Past(vmop[work[k].o]) => Past(x), x # None /\ x.sent => Cleared(work[k].o),
           NEW w \in Work \cup {None}, Go(k, w), UNCHANGED migVars,
           w # None => /\ Like(w, work[k]) /\ w.pc = "patch" /\ w.now = work[k].now
                       /\ work[k].pc # "exec"
    PROVE  SInv' /\ Grows
<1>1. PICK u \in Work : u = work[k]
  BY DEF TInv, TypeOK
<1>2. PICK o \in Ops : o = u.o
  BY WorkFields, Zenon
<1>3. spec[o] # None
  BY <1>1, <1>2, Zenon DEF TInv, WorkKnown
<1>4. /\ Grows /\ Aged' /\ Log' /\ InOrder' /\ Sent'
      /\ \A b \in Ops : Unseen(b)' => Unseen(b)
  BY <1>1, <1>2, <1>3, PutSound, Zenon
<1>5. \A c \in Ops \ {o} : vmop'[c] = vmop[c]
  BY <1>1, <1>2, <1>3, Written, Zenon
<1>6. work'[k] = w /\ \A j \in Controllers \ {k} : work'[j] = work[j]
  BY Gone, Zenon DEF Go
<1>7. ASSUME NEW j \in Controllers \ {k}
      PROVE  WorkSound(j)'
  <2>1. work[j] # None => work[j].o \in Ops /\ work[j].o # o
    BY <1>1, <1>2, OwnTypes, WorkFields, Zenon DEF TInv, TypeOK
  <2> QED BY <1>4, <1>5, <1>6, <2>1, OthersSound, Zenon
<1>8. WorkSound(k)'
  <2>1. /\ Ended(u.was) => Ended(u.now) /\ u.pc \notin {"cleanup", "mark", "exec"}
        /\ u.now.sent => Cleared(o)
    BY <1>1, <1>2, Zenon DEF SInv, WorkSound
  <2>2. u.now.sent => Cleared(o)'
    BY <1>4, <2>1, ClearedStays, Zenon DEF SInv
  <2>3. w # None => /\ w.o = o /\ w.was = u.was /\ w.now = u.now /\ w.pc = "patch"
    BY <1>1, <1>2, Zenon DEF Like
  <2> QED BY <1>6, <2>1, <2>2, <2>3, Zenon DEF WorkSound
<1> QED BY <1>4, <1>7, <1>8, Zenon DEF SInv

\* A step that ends a reconcile, or its first part.
LEMMA EndSound ==
    ASSUME TInv, TInv', SInv, NEW k \in Controllers, work[k] # None, UNCHANGED opVars,
           NEW w \in Work \cup {None}, Go(k, w), UNCHANGED migVars,
           w # None => Like(w, work[k]) /\ w.pc = "patch" /\ w.now = work[k].now
    PROVE  SInv' /\ Grows
<1>1. PICK u \in Work : u = work[k]
  BY DEF TInv, TypeOK
<1>2. work'[k] = w /\ \A j \in Controllers \ {k} : work'[j] = work[j]
  BY Gone, Zenon DEF Go
<1>3. Grows /\ (\A b : Unseen(b)' <=> Unseen(b)) /\ (\A b : Cleared(b)' <=> Cleared(b))
  BY Unmoved
<1>4. vmop' = vmop /\ mig' = mig /\ cmig' = cmig
  BY DEF opVars, migVars
<1>5. WorkSound(k)'
  <2>1. /\ Ended(u.was) => Ended(u.now)
        /\ u.now.sent => Cleared(u.o)
    BY <1>1, Zenon DEF SInv, WorkSound
  <2>2. w # None => w.o = u.o /\ w.was = u.was /\ w.now = u.now /\ w.pc = "patch"
    BY <1>1 DEF Like
  <2> QED BY <1>2, <1>3, <2>1, <2>2, Zenon DEF WorkSound
<1>6. \A j \in Controllers \ {k} : WorkSound(j)'
  BY <1>2, <1>3, <1>4, OthersSound, Zenon
<1>7. \A o \in Ops : mig'[o] # "none" \/ cmig'[o] # "none" => Cleared(o)
  BY <1>4, Zenon DEF SInv, Sent
<1> QED BY <1>5, <1>6, <1>7, CalmSound, Zenon

\* The status update takes effect on the version that was read only.
LEMMA StatusSound ==
    ASSUME TInv, TInv', SInv, NEW k \in Controllers, Status(k)
    PROVE  SInv' /\ Grows
<1>1. PICK u \in Work : u = work[k] /\ u.pc = "status"
  BY StatusStep, Zenon
<1> DEFINE x == [vmop[u.o] EXCEPT !.phase = u.now.phase, !.sent = u.now.sent]
           v == [u EXCEPT !.pc = "patch"]
<1>2. u # None /\ u.o \in Ops /\ u.now \in Object
  BY <1>1, NoneAssumption, WorkFields
<1>3. v \in Work /\ Like(v, u) /\ v.pc = "patch" /\ v.now = u.now
  BY PcStep, Zenon
<1>4. UNCHANGED migVars /\ (Drop(k) \/ Go(k, v))
  BY <1>1, StatusStep, Zenon
<1>5. UNCHANGED opVars \/ (u.ok /\ vmop[u.o] # None /\ Put(u.o, x))
  BY <1>1, StatusStep, Zenon
<1> HIDE DEF v
<1>6. PICK w \in Work \cup {None} :
        Go(k, w) /\ (w # None => Like(w, u) /\ w.pc = "patch" /\ w.now = u.now)
  BY <1>3, <1>4 DEF Drop, Go
<1>7. CASE UNCHANGED opVars
  BY <1>1, <1>2, <1>4, <1>6, <1>7, EndSound, Zenon
<1>8. CASE u.ok /\ vmop[u.o] # None /\ Put(u.o, x)
  <2>1. vmop[u.o] \in Object /\ u.now.phase \in Phases /\ u.now.sent \in BOOLEAN
    BY <1>2, <1>8, ObjectFields DEF TInv, TypeOK
  <2>2. x \in Object /\ x.phase = u.now.phase /\ x.sent = u.now.sent
    BY <2>1, Zenon DEF Object
  <2>3. /\ vmop[u.o] = u.was
        /\ Ended(u.was) => Ended(u.now)
        /\ u.now.sent => Cleared(u.o)
    BY <1>1, <1>2, <1>8 DEF SInv, WorkSound
  <2> HIDE DEF x
  <2>4. (Past(vmop[u.o]) => Past(x)) /\ (x # None /\ x.sent => Cleared(u.o))
    BY <1>8, <2>2, <2>3 DEF Past, Ended
  <2> QED BY <1>1, <1>2, <1>4, <1>6, <1>8, <2>2, <2>4, OwnPutSound, Zenon
<1> QED BY <1>5, <1>7, <1>8

\* The finalizer patch leaves the status alone.
LEMMA PatchSound ==
    ASSUME TInv, TInv', SInv, NEW k \in Controllers, Patch(k)
    PROVE  SInv' /\ Grows
<1>1. PICK u \in Work : u = work[k]
  BY PatchStep, Zenon
<1> DEFINE x == [vmop[u.o] EXCEPT !.fin = u.now.fin]
<1>2. u # None /\ u.o \in Ops /\ u.now \in Object
  BY <1>1, NoneAssumption, WorkFields
<1>3. Go(k, None) /\ UNCHANGED migVars
  BY PatchStep, Zenon DEF Drop, Go
<1>4. \/ UNCHANGED opVars
      \/ vmop[u.o] # None /\ Put(u.o, None)
      \/ vmop[u.o] # None /\ Put(u.o, x)
  BY <1>1, PatchStep
<1>5. CASE UNCHANGED opVars
  BY <1>1, <1>2, <1>3, <1>5, EndSound
<1>6. CASE vmop[u.o] # None /\ Put(u.o, None)
  BY <1>1, <1>2, <1>3, <1>6, OwnPutSound, Zenon DEF Past
<1>7. CASE vmop[u.o] # None /\ Put(u.o, x)
  <2>1. vmop[u.o] \in Object /\ u.now.fin \in BOOLEAN
    BY <1>2, <1>7, ObjectFields DEF TInv, TypeOK
  <2>2. x \in Object /\ x.phase = vmop[u.o].phase /\ x.sent = vmop[u.o].sent
    BY <2>1 DEF Object
  <2> HIDE DEF x
  <2>3. (Past(vmop[u.o]) => Past(x)) /\ (x # None /\ x.sent => Cleared(u.o))
    BY <1>2, <1>7, <2>2, Zenon DEF Past, Ended, SInv, Sent
  <2> QED BY <1>1, <1>2, <1>3, <1>7, <2>2, <2>3, OwnPutSound, Zenon
<1> QED BY <1>4, <1>5, <1>6, <1>7

\* A reconcile in flight takes its next step.
LEMMA StepSound ==
    ASSUME TInv, TInv', SInv, NEW k \in Controllers, Step(k)
    PROVE  SInv' /\ Grows
<1>1. CASE Abort(k)
  <2>1. PICK u \in Work : u = work[k] /\ u.pc = "abort"
    BY <1>1 DEF Abort, TInv, TypeOK
  <2> DEFINE w == [u EXCEPT !.pc = "status"]
  <2>2. w \in Work /\ Like(w, u) /\ w.pc = "status" /\ w.now = u.now
    BY PcStep, Zenon
  <2>3. u # None /\ u.o \in Ops
    BY NoneAssumption, WorkFields
  <2>4. Go(k, w) /\ Aborted(u.o) /\ UNCHANGED opVars /\ cmig' = cmig
    BY <1>1, <2>1 DEF Abort
  <2> HIDE DEF w
  <2>5. \A o \in Ops : mig'[o] # "none" \/ cmig'[o] # "none" => Cleared(o)
    <3>1. \A o \in Ops : mig'[o] # "none" => mig[o] # "none"
      BY <2>3, <2>4, AbortedNone
    <3> QED BY <2>4, <3>1, Zenon DEF SInv, Sent
  <2>6. w.now.sent => Cleared(u.o)
    BY <2>1, <2>2, <2>3, Zenon DEF SInv, WorkSound
  <2> QED BY <2>1, <2>2, <2>3, <2>4, <2>5, <2>6, CallSound, Zenon
<1>2. CASE Cleanup(k)
  <2>1. PICK u \in Work : u = work[k] /\ u.pc = "cleanup"
    BY <1>2 DEF Cleanup, TInv, TypeOK
  <2>2. u # None /\ u.todo \subseteq Ops
    BY NoneAssumption, WorkFields
  <2> DEFINE b == Oldest(u.todo)
  <2>3. b \in Ops
    <3>1. u.todo # {} /\ \A c \in u.todo : spec[c] # None
      BY <2>1, <2>2, Zenon DEF TInv, WorkKnown
    <3> QED BY <2>2, <3>1, OldestIn DEF TInv
  <2>4. /\ \/ Go(k, [u EXCEPT !.pc = "mark"])
           \/ Go(k, [u EXCEPT !.pc = "status"])
        /\ Aborted(b) \/ mig' = mig
        /\ UNCHANGED opVars /\ cmig' = cmig
    BY <1>2, <2>1 DEF Cleanup
  <2> HIDE DEF b
  <2>5. PICK p \in {"mark", "status"} : Go(k, [u EXCEPT !.pc = p])
    BY <2>4
  <2> DEFINE w == [u EXCEPT !.pc = p]
  <2>6. w \in Work /\ Like(w, u) /\ w.pc = p /\ w.now = u.now /\ w.todo = u.todo
    <3>1. p \in {"abort", "cleanup", "mark", "exec", "status", "patch"}
      OBVIOUS
    <3> QED BY <3>1, PcStep, Zenon
  <2>7. Go(k, w)
    BY <2>5
  <2> HIDE DEF w
  <2>8. \A o \in Ops : mig'[o] # "none" \/ cmig'[o] # "none" => Cleared(o)
    <3>1. \A o \in Ops : mig'[o] # "none" => mig[o] # "none"
      BY <2>3, <2>4, AbortedNone
    <3> QED BY <2>4, <3>1 DEF SInv, Sent
  <2>9. w.now.sent => Cleared(u.o)
    BY <2>1, <2>2, <2>6, Zenon DEF SInv, WorkSound
  <2> QED BY <2>1, <2>2, <2>4, <2>6, <2>7, <2>8, <2>9, CallSound
<1>3. CASE Mark(k)
  BY <1>3, MarkSound
<1>4. CASE Status(k)
  BY <1>4, StatusSound
<1>5. CASE Patch(k)
  BY <1>5, PatchSound
<1> QED BY <1>1, <1>2, <1>3, <1>4, <1>5 DEF Step

\* The VM and its migrations move on by themselves, or a cache learns of it.
LEMMA MachineSound ==
    ASSUME TInv, TInv', SInv, Machine \/ SyncKVVM \/ \E o \in Ops : SyncMig(o)
    PROVE  SInv' /\ Grows
<1>1. UNCHANGED opVars
  BY DEF Machine, SyncPowerState, VMDown, VMUp, VMRuns, MigStart, MigEnd, MigGone, MigOrphaned,
         SyncKVVM, SyncMig
<1>2. vmop' = vmop
  BY <1>1 DEF opVars
<1>3. Grows /\ (\A b : Unseen(b)' <=> Unseen(b))
  BY <1>1, Unmoved
<1>4. \A o \in Ops : mig'[o] # "none" => mig[o] # "none"
  BY AbortedNone DEF Machine, SyncPowerState, VMDown, VMUp, VMRuns, MigStart, MigEnd, MigGone,
       MigOrphaned, SyncKVVM, SyncMig, migVars, TInv, TypeOK
<1>5. \A o \in Ops : cmig'[o] # "none" => cmig[o] # "none" \/ mig[o] # "none"
  BY DEF Machine, SyncPowerState, VMDown, VMUp, VMRuns, MigStart, MigEnd, MigGone,
       MigOrphaned, SyncKVVM, SyncMig, migVars, TInv, TypeOK
<1>6. \A o \in Ops : mig'[o] # "none" \/ cmig'[o] # "none" => Cleared(o)
  BY <1>4, <1>5 DEF SInv, Sent
<1>7. CASE work' = work
  <2>1. \A k \in Controllers : WorkSound(k)'
    BY <1>2, <1>3, <1>7, OthersSound
  <2> QED BY <1>1, <1>6, <2>1, CalmSound
<1>8. CASE VMUp
  <2> PICK late \in SUBSET {o \in Ops : Waiting(o)} :
        work' = [k \in Controllers |->
                  IF work[k] = None THEN None
                  ELSE [work[k] EXCEPT !.age = Age(work[k].o, late)]]
    BY <1>8 DEF VMUp
  <2>1. ASSUME NEW k \in Controllers
        PROVE  WorkSound(k)'
    <3> DEFINE age == Age(work[k].o, late)
    <3>1. /\ work'[k] = IF work[k] = None THEN None ELSE [work[k] EXCEPT !.age = age]
          /\ age \in Ages
      BY DEF Age, Ages
    <3> HIDE DEF age
    <3>2. CASE work[k] = None
      BY <3>1, <3>2 DEF WorkSound
    <3>3. CASE work[k] # None
      <4>1. PICK u \in Work : u = work[k]
        BY <3>3 DEF TInv, TypeOK
      <4> DEFINE v == [u EXCEPT !.age = age]
      <4>2. /\ v \in Work /\ v.o = u.o /\ v.was = u.was /\ v.now = u.now /\ v.pc = u.pc
            /\ v.todo = u.todo /\ v.ok = u.ok
        BY <3>1, Zenon DEF Work
      <4>3. work'[k] = v
        BY <3>1, <3>3, <4>1
      <4> HIDE DEF v
      <4>4. WorkSound(k) /\ Aged
        BY DEF SInv
      <4>5. v.ok /\ v.pc # "patch" => vmop'[u.o] = u.was
        BY <1>2, <3>3, <4>1, <4>2, <4>4, Zenon DEF WorkSound
      <4>6. v # None
        BY <4>2, NoneAssumption
      <4> QED BY <1>3, <3>3, <4>1, <4>2, <4>3, <4>4, <4>5, <4>6, SoundStays, Zenon
    <3> QED BY <3>2, <3>3
  <2> QED BY <1>1, <1>6, <2>1, CalmSound
<1> QED BY <1>7, <1>8, Zenon DEF Machine, SyncPowerState, VMDown, VMRuns, MigStart, MigEnd, MigGone,
         MigOrphaned, SyncKVVM, SyncMig

\* A vmop is deleted.
LEMMA DeleteSound ==
    ASSUME TInv, TInv', SInv, NEW o \in Ops, Delete(o)
    PROVE  SInv' /\ Grows
<1>1. PICK x \in Object \cup {None} :
        /\ Put(o, x) /\ vmop[o] # None /\ spec[o] # None
        /\ x # None => x.phase = vmop[o].phase /\ x.sent = vmop[o].sent
        /\ work' = Outdate(work, o) /\ UNCHANGED <<migVars, vmVars>>
  BY DeleteStep, Zenon
<1>2. (Past(vmop[o]) => Past(x)) /\ (x # None /\ x.sent => Cleared(o))
  BY <1>1, Zenon DEF Past, Ended, SInv, Sent
<1>3. /\ Grows /\ Aged' /\ Log' /\ InOrder' /\ Sent'
      /\ \A b \in Ops : Unseen(b)' => Unseen(b)
  BY <1>1, <1>2, PutSound, Zenon
<1>4. \A c \in Ops \ {o} : vmop'[c] = vmop[c]
  BY <1>1, Written, Zenon
<1>5. ASSUME NEW k \in Controllers
      PROVE  WorkSound(k)'
  <2>1. work \in [Controllers -> Work \cup {None}]
    BY DEF TInv, TypeOK
  <2>2. CASE work[k] = None
    <3>1. work'[k] = None
      BY <1>1, <2>1, <2>2, OutdateStep, Zenon
    <3> QED BY <3>1, Zenon DEF WorkSound
  <2>3. CASE work[k] # None
    <3> DEFINE v == Outdate(work, o)[k]
    <3>1. /\ v # None /\ v.o = work[k].o /\ v.was = work[k].was /\ v.now = work[k].now
          /\ v.pc = work[k].pc /\ v.todo = work[k].todo
      BY <2>1, <2>3, OutdateStep, Zenon
    <3>2. v.o = o => v.ok = FALSE
      BY <2>1, <2>3, OutdateStep, Zenon
    <3>3. v.o # o => v.ok = work[k].ok
      BY <2>1, <2>3, OutdateStep, Zenon
    <3>4. work'[k] = v
      BY <1>1, Zenon
    <3> HIDE DEF v
    <3>5. work[k].o \in Ops /\ WorkSound(k) /\ Aged
      BY <2>1, <2>3, WorkFields DEF SInv
    <3>6. v.ok /\ v.pc # "patch" => vmop'[work[k].o] = work[k].was
      BY <1>4, <2>3, <3>1, <3>2, <3>3, <3>5, Zenon DEF WorkSound
    <3> QED BY <1>3, <2>3, <3>1, <3>4, <3>5, <3>6, SoundStays, Zenon
  <2> QED BY <2>2, <2>3
<1> QED BY <1>3, <1>5 DEF SInv

\* A vmop is created: it is younger than all others, and its event comes last.
LEMMA CreateSound ==
    ASSUME TInv, TInv', SInv, NEW o \in Ops, NEW kind \in Kinds, Create(o, kind)
    PROVE  SInv' /\ Grows
<1> DEFINE n == Len(events) + 1
<1>1. /\ spec[o] = None /\ clock' \in Nat /\ clock' >= clock
      /\ ~SameSecond => clock' = clock + 1
      /\ spec'[o] # None /\ spec'[o].at = clock'
      /\ \A b \in Ops \ {o} : spec'[b] = spec[b] /\ vmop'[b] = vmop[b]
      /\ New \in Object /\ vmop'[o] = New
      /\ Len(events') = n /\ events'[n] = <<o, New>>
      /\ \A i \in 1 .. Len(events) : events'[i] = events[i]
      /\ cvmop' = cvmop /\ work' = work /\ mig' = mig /\ cmig' = cmig
  BY CreateStep, Zenon DEF migVars
<1>2. New # None /\ ~Ended(New) /\ New.sent = FALSE
  BY <1>1, NoneAssumption, Zenon DEF New, Ended
<1>3. vmop[o] = None /\ cvmop[o] = None /\ clock \in Nat
  BY <1>1, Zenon DEF TInv, Known, TypeOK
<1>4. /\ Len(events) \in Nat /\ DOMAIN events = 1 .. Len(events)
      /\ DOMAIN events' = 1 .. n
      /\ \A i \in DOMAIN events : events[i][1] \in Ops \ {o}
  <2>1. /\ events \in Seq(Ops \X (Object \cup {None}))
        /\ events' \in Seq(Ops \X (Object \cup {None}))
    BY DEF TInv, TypeOK
  <2>2. \A i \in DOMAIN events : events[i][1] \in Ops
    BY <2>1
  <2>3. \A i \in DOMAIN events : events[i][1] # o
    BY <1>1, Zenon DEF TInv, Known
  <2>4. Len(events) \in Nat /\ DOMAIN events = 1 .. Len(events)
    BY <2>1
  <2>5. DOMAIN events' = 1 .. Len(events')
    BY <2>1
  <2>6. Len(events') = n
    BY <1>1, Zenon
  <2> QED BY <2>2, <2>3, <2>4, <2>5, <2>6, Zenon
<1>5. /\ n \in DOMAIN events' /\ events'[n][1] = o /\ events'[n][2] = New
      /\ \A i \in DOMAIN events : i \in DOMAIN events' /\ events'[i] = events[i] /\ i < n
      /\ \A i \in DOMAIN events' : i = n \/ i \in DOMAIN events
      /\ \A i \in DOMAIN events' : ~(i > n)
  <2>1. events'[n] = <<o, New>> /\ \A i \in 1 .. Len(events) : events'[i] = events[i]
    BY <1>1
  <2>2. n \in Nat /\ n = Len(events) + 1 /\ Len(events) \in Nat
    BY <1>4
  <2>3. DOMAIN events = 1 .. Len(events) /\ DOMAIN events' = 1 .. n
    BY <1>4
  <2> HIDE DEF n
  <2>4. n \in 1 .. n
    BY <2>2
  <2>5. \A i \in 1 .. Len(events) : i \in 1 .. n /\ i < n
    BY <2>2
  <2>6. \A i \in 1 .. n : (i = n \/ i \in 1 .. Len(events)) /\ ~(i > n)
    BY <2>2
  <2>7. events'[n][1] = o /\ events'[n][2] = New
    BY <2>1
  <2> QED BY <2>1, <2>3, <2>4, <2>5, <2>6, <2>7, Zenon
<1> HIDE DEF n
<1>a. clock \in Nat /\ clock' \in Nat /\ clock' >= clock /\ (~SameSecond => clock' = clock + 1)
  BY <1>1, <1>3
<1>b. spec'[o].at = clock' /\ \A b \in Ops \ {o} : spec'[b] = spec[b] /\ vmop'[b] = vmop[b]
  BY <1>1
<1>6. Log /\ InOrder /\ Sent /\ Aged
  BY DEF SInv
<1>7. Grows
  <2>1. ~SameSecond => clock' > clock
    BY <1>a
  <2> QED BY <1>1, <1>b, <2>1 DEF Grows
<1>8. Aged'
  <2> SUFFICES ASSUME NEW b \in Ops, spec'[b] # None
               PROVE  spec'[b].at <= clock'
    BY DEF Aged
  <2>1. CASE b = o
    BY <1>a, <1>b, <2>1
  <2>2. CASE b # o
    <3>1. spec'[b] = spec[b]
      BY <1>b, <2>2
    <3>2. spec[b].at <= clock /\ spec[b].at \in Nat
      BY <1>6, <3>1, RequestAt DEF Aged, TInv
    <3> QED BY <1>a, <3>1, <3>2
  <2> QED BY <2>1, <2>2
<1>9. \A b \in Ops \ {o} : Current(b)' <=> Current(b)
  BY <1>5, Zenon DEF Current
<1>10. ~Current(o)'
  BY <1>5 DEF Current
<1>11. Log'
  <2>1. \A b \in Ops : Current(b)' => cvmop'[b] = vmop'[b]
    BY <1>1, <1>6, <1>9, <1>10, Zenon DEF Log
  <2>2. ASSUME NEW i \in DOMAIN events
        PROVE  LastOf(i)' <=> LastOf(i)
    BY <1>4, <1>5, Zenon DEF LastOf
  <2>3. ASSUME NEW i \in DOMAIN events'
        PROVE  /\ LastOf(i)' => events'[i][2] = vmop'[events'[i][1]]
               /\ events'[i][2] = None => LastOf(i)'
               /\ Past(events'[i][2]) => Past(vmop'[events'[i][1]])
    <3>1. CASE i = n
      BY <1>1, <1>2, <1>5, <3>1, Zenon DEF Past
    <3>2. CASE i \in DOMAIN events
      <4>1. events'[i] = events[i] /\ events[i][1] \in Ops \ {o}
        BY <1>4, <1>5, <3>2
      <4>2. vmop'[events[i][1]] = vmop[events[i][1]]
        BY <1>b, <4>1
      <4>3. /\ LastOf(i) => events[i][2] = vmop[events[i][1]]
            /\ events[i][2] = None => LastOf(i)
            /\ Past(events[i][2]) => Past(vmop[events[i][1]])
        BY <1>6, <3>2 DEF Log
      <4>4. LastOf(i)' <=> LastOf(i)
        BY <2>2, <3>2
      <4> QED BY <4>1, <4>2, <4>3, <4>4, Zenon
    <3> QED BY <1>5, <3>1, <3>2, Zenon
  <2>4. \A b \in Ops : cvmop'[b] # None /\ Ended(cvmop'[b]) => Past(vmop'[b])
    BY <1>1, <1>3, <1>6, Zenon DEF Log
  <2> QED BY <2>1, <2>3, <2>4, Zenon DEF Log
<1>12. \A b \in Ops : spec[b] # None /\ Unseen(b)' => Unseen(b)
  BY <1>1, <1>9, Zenon DEF Unseen
<1>13. InOrder'
  <2> SUFFICES ASSUME ~SameSecond, NEW q \in Ops, NEW p \in Ops, p # q, spec'[q] # None, spec'[p] # None,
                      IsOlder(p, q)', Unseen(p)'
               PROVE  /\ cvmop'[q] = None
                      /\ \A i \in DOMAIN events' :
                           events'[i][1] = q => \E j \in DOMAIN events' : j < i /\ events'[j][1] = p
    BY DEF InOrder
  <2>1. CASE q = o
    <3>1. Unseen(p)
      BY <1>1, <1>12, <2>1, Zenon
    <3>2. PICK j \in DOMAIN events : events[j][1] = p
      BY <3>1 DEF Unseen, Current
    <3>3. \A i \in DOMAIN events' : events'[i][1] = q => i = n
      BY <1>4, <1>5, <2>1
    <3> QED BY <1>1, <1>3, <1>5, <2>1, <3>2, <3>3, Zenon
  <2>2. CASE q # o
    <3>1. spec[q] # None
      BY <1>1, <2>2, Zenon
    <3>2. spec[p] # None /\ IsOlder(p, q)
      BY <1>6, <1>7, <3>1, OlderStays
    <3>3. Unseen(p)
      BY <1>12, <3>2
    <3>4. /\ cvmop[q] = None
          /\ \A i \in DOMAIN events :
               events[i][1] = q => \E j \in DOMAIN events : j < i /\ events[j][1] = p
      BY <1>6, <3>1, <3>2, <3>3, Zenon DEF InOrder
    <3>5. cvmop'[q] = None
      BY <1>1, <3>4
    <3>6. ASSUME NEW i \in DOMAIN events', events'[i][1] = q
          PROVE  \E j \in DOMAIN events' : j < i /\ events'[j][1] = p
      <4>1. i \in DOMAIN events /\ events[i][1] = q
        BY <1>5, <2>2, <3>6
      <4>2. PICK j \in DOMAIN events : j < i /\ events[j][1] = p
        BY <3>4, <4>1
      <4> QED BY <1>5, <4>2
    <3> QED BY <3>5, <3>6
  <2> QED BY <2>1, <2>2, Zenon
<1>14. Sent'
  <2>1. \A b \in Ops : Cleared(b) => Cleared(b)'
    BY <1>6, <1>7, ClearedStays
  <2>2. \A b \in Ops : vmop'[b] # None /\ vmop'[b].sent => Cleared(b)
    BY <1>1, <1>2, <1>6, Zenon DEF Sent
  <2>3. \A b \in Ops : cvmop'[b] # None /\ cvmop'[b].sent => Cleared(b)
    BY <1>1, <1>6, Zenon DEF Sent
  <2>4. ASSUME NEW i \in DOMAIN events', events'[i][2] # None, events'[i][2].sent
        PROVE  Cleared(events[i][1])'
    <3>1. i \in DOMAIN events
      BY <1>2, <1>5, <2>4, Zenon
    <3>2. PICK b \in Ops : b = events'[i][1]
      BY <1>4, <1>5, <3>1, Zenon
    <3>3. Cleared(b)
      BY <1>5, <1>6, <2>4, <3>1, <3>2, Zenon DEF Sent
    <3>4. Cleared(b)'
      BY <2>1, <3>3
    <3> QED BY <3>2, <3>4
  <2>5. \A b \in Ops : mig'[b] # "none" \/ cmig'[b] # "none" => Cleared(b)
    BY <1>1, <1>6, Zenon DEF Sent
  <2> QED BY <2>1, <2>2, <2>3, <2>4, <2>5, Zenon DEF Sent
<1>15. ASSUME NEW k \in Controllers
       PROVE  WorkSound(k)'
  <2>1. work[k] # None => work[k].o \in Ops /\ work[k].o # o
    <3>1. spec[o] = None
      BY <1>1, Zenon
    <3> QED BY <3>1, WorkFields DEF TInv, TypeOK, WorkKnown
  <2> QED BY <1>1, <1>7, <1>12, <2>1, OthersSound, Zenon
<1> QED BY <1>7, <1>8, <1>11, <1>13, <1>14, <1>15 DEF SInv

\* The process restarts: the caches are current again.
LEMMA RestartSound ==
    ASSUME TInv, TInv', SInv, Restart
    PROVE  SInv' /\ Grows
<1>1. /\ work' = [k \in Controllers |-> None] /\ cvmop' = vmop /\ cmig' = mig
      /\ clock' = clock /\ spec' = spec /\ vmop' = vmop /\ mig' = mig
      /\ events' = <<>> /\ DOMAIN events' = {}
  BY DEF Restart
<1>2. Log' /\ Aged'
  BY <1>1, Zenon DEF SInv, Log, Aged, Past
<1>3. InOrder'
  BY <1>1, Zenon DEF InOrder, Unseen, Current
<1>4. \A o : Cleared(o)' <=> Cleared(o)
  BY <1>1, Zenon DEF Cleared, IsOlder
<1>5. Sent'
  BY <1>1, <1>4, Zenon DEF SInv, Sent
<1>6. \A k \in Controllers : WorkSound(k)'
  BY <1>1, Zenon DEF WorkSound
<1>7. Grows
  BY <1>1, Zenon DEF Grows
<1> QED BY <1>2, <1>3, <1>5, <1>6, <1>7 DEF SInv

\* No vmop exists at first.
LEMMA InitSound ==
    ASSUME Init
    PROVE  SInv
<1>1. DOMAIN events = {}
  BY DEF Init
<1>2. Aged /\ Log /\ InOrder /\ Sent
  BY <1>1, Zenon DEF Init, Aged, Log, InOrder, Sent
<1>3. \A k \in Controllers : WorkSound(k)
  BY DEF Init, WorkSound
<1> QED BY <1>2, <1>3 DEF SInv

\* Every step preserves the order of the operations.
LEMMA NextSound ==
    ASSUME TInv, TInv', SInv, [Next]_vars
    PROVE  SInv' /\ Grows
<1>1. CASE \E k \in Controllers : Step(k) \/ \E o \in Ops : Reconcile(k, o)
  BY <1>1, StepSound, ReconcileSound
<1>2. CASE Exec \/ Fault
  BY <1>2, ExecSound, Zenon DEF Exec, Fault
<1>3. CASE Sync \/ Machine
  BY <1>3, SyncSound, MachineSound DEF Sync
<1>4. CASE Restart
  BY <1>4, RestartSound
<1>5. CASE Done \/ UNCHANGED vars
  <2>1. UNCHANGED opVars /\ UNCHANGED work /\ UNCHANGED migVars
    BY <1>5, Zenon DEF Done, vars
  <2>2. vmop' = vmop /\ mig' = mig /\ cmig' = cmig /\ work' = work
    BY <2>1 DEF opVars, migVars
  <2>3. Grows /\ (\A b : Unseen(b)' <=> Unseen(b))
    BY <2>1, Unmoved
  <2>4. \A k \in Controllers : WorkSound(k)'
    BY <2>2, <2>3, OthersSound, Zenon
  <2>5. \A o \in Ops : mig'[o] # "none" \/ cmig'[o] # "none" => Cleared(o)
    BY <2>2, Zenon DEF SInv, Sent
  <2> QED BY <2>1, <2>4, <2>5, CalmSound
<1>6. CASE \E o \in Ops : Delete(o) \/ \E kind \in Kinds : Create(o, kind)
  BY <1>6, DeleteSound, CreateSound
<1> QED BY <1>1, <1>2, <1>3, <1>4, <1>5, <1>6 DEF Next

\* The inductive invariant holds in every reachable state, also where timestamps coincide.
THEOREM Orderly == Spec => [](TInv /\ SInv)
<1>1. Init => TInv /\ SInv
  BY InitTypes, InitSound
<1>2. TInv /\ SInv /\ [Next]_vars => (TInv /\ SInv)'
  BY NextTypes, NextSound
<1> QED BY <1>1, <1>2, PTL DEF Spec

\* Of two operations one is the older.
LEMMA AgeTotal ==
    ASSUME TypeOK, NEW a \in Ops, NEW b \in Ops, a # b, spec[a] # None, spec[b] # None
    PROVE  IsOlder(a, b) \/ IsOlder(b, a)
<1>1. spec[a].at \in Nat /\ spec[b].at \in Nat /\ a \in Nat /\ b \in Nat
  BY RequestAt, ConstantsAssumption
<1> QED BY <1>1 DEF IsOlder

\* One operation at a time: for any number of operations of any kinds, however far the
\* caches lag, whatever calls fail and however often the process restarts, and whether or
\* not the webhook sees the other operations, at most one operation of the VM is under way.
\* The one condition is that no two operations of the VM carry the same creationTimestamp,
\* which has a resolution of a second.
THEOREM OneAtATime == ASSUME SameSecond = FALSE PROVE Spec => []OneActive
<1> ~SameSecond
  OBVIOUS
<1>1. TInv /\ SInv => OneActive
  <2> SUFFICES ASSUME TInv, SInv, NEW a \in Ops, NEW b \in Ops,
                      Active(vmop[a]), Active(vmop[b]), a # b
               PROVE  FALSE
    BY DEF OneActive
  <2>1. vmop[a] # None /\ vmop[b] # None /\ Cleared(a) /\ Cleared(b)
    BY DEF Active, SInv, Sent
  <2>2. ~Past(vmop[a]) /\ ~Past(vmop[b])
    BY <2>1 DEF Active, Past, Ended
  <2>3. spec[a] # None /\ spec[b] # None
    BY <2>1 DEF Cleared
  <2>4. IsOlder(a, b) \/ IsOlder(b, a)
    BY <2>3, AgeTotal DEF TInv
  <2> QED BY <2>1, <2>2, <2>3, <2>4, Zenon DEF Cleared
<1> QED BY <1>1, Orderly, PTL

\* An operation that has failed, completed or been superseded never gets under way again:
\* a status is only written to the version that was read, the finalizer patch leaves the
\* status alone, and markSuperseded only ends operations.  This holds also for operations
\* created in the same second.
THEOREM EndedStaysEnded == Spec => NeverReactivated
<1>1. TInv /\ SInv /\ TInv' /\ [Next]_vars =>
        [\A o \in Ops : (vmop[o] # None /\ IsFinished(vmop[o])) => ~Active(vmop'[o])]_vars
  <2> SUFFICES ASSUME TInv, SInv, TInv', [Next]_vars, NEW o \in Ops,
                      vmop[o] # None, IsFinished(vmop[o])
               PROVE  ~Active(vmop'[o])
    OBVIOUS
  <2>1. Grows
    BY NextSound
  <2>2. Past(vmop[o]) /\ spec[o] # None
    BY DEF Past, Ended, IsFinished, TInv, Known
  <2>3. Past(vmop'[o])
    BY <2>1, <2>2, Zenon DEF Grows
  <2> QED BY <2>3 DEF Past, Ended, Active
<1> QED BY <1>1, Orderly, PTL DEF Spec, NeverReactivated
=============================================================================

