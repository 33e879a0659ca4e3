------------------------ MODULE QueuedExporterProofs ------------------------
(***************************************************************************)
(* The always-queue exporter, for any number of goroutines in any roles,   *)
(* any batches and any queue sizes.                                        *)
(*   - No path forgets a batch in silence (IInv).  Each action moves a     *)
(*     batch from one place to another; the lemmas say that a push, a pop  *)
(*     and a change of hands lose nothing.  Beside the shapes the          *)
(*     invariant needs that a goroutine which takes a batch has put down   *)
(*     the one before (HandsFree).                                         *)
(*   - A resource metric is in one place (AInv).  An Export brings what    *)
(*     was never accepted, so that whatever is somewhere is accepted is    *)
(*     part of the invariant.                                              *)
(*   - What Close leaves (CInv): the drain runs when all unified workers   *)
(*     have returned, with nothing in hand, so that the pushes of the      *)
(*     drain are the last ones and the queue is open for each of them.     *)
(***************************************************************************)
EXTENDS QueuedExporter, SequenceTheorems, TLAPS

Batch == SUBSET Nat

Where == {"wait", "taken", "hand", "send", "split", "half", "retry", "done"}

Shape ==
    /\ disk \in Seq(Batch) /\ mem \in Seq(Batch) /\ prepared \in Seq(Batch)
    /\ failed \in Seq(Batch) /\ inDrain \in Batch
    /\ held \in [Goroutines -> Batch] /\ pc \in [Goroutines -> Where]

\* a goroutine that is about to take a batch, or has returned, holds none
HandsFree == \A g \in Goroutines : pc[g] \in {"wait", "done"} => held[g] = {}

IInv == Shape /\ HandsFree /\ NothingForgotten

\* a batch put at the end adds its elements
LEMMA ItemsAppend ==
    ASSUME NEW s \in Seq(Batch), NEW b \in Batch
    PROVE  Items(Append(s, b)) = Items(s) \cup b /\ Append(s, b) \in Seq(Batch)
<1>1. /\ Append(s, b) \in Seq(Batch) /\ DOMAIN s = 1..Len(s) /\ Len(s) \in Nat
      /\ DOMAIN Append(s, b) = 1..(Len(s) + 1)
      /\ \A i \in 1..Len(s) : Append(s, b)[i] = s[i]
      /\ Append(s, b)[Len(s) + 1] = b
  OBVIOUS
<1>2. Items(Append(s, b)) \subseteq Items(s) \cup b
  <2> SUFFICES ASSUME NEW i \in 1..(Len(s) + 1) PROVE Append(s, b)[i] \subseteq Items(s) \cup b
    BY <1>1 DEF Items
  <2>1. CASE i = Len(s) + 1
    BY <2>1, <1>1
  <2>2. CASE i \in 1..Len(s)
    BY <2>2, <1>1 DEF Items
  <2>3. QED
    BY <2>1, <2>2, <1>1
<1>3. Items(s) \subseteq Items(Append(s, b))
  <2> SUFFICES ASSUME NEW i \in 1..Len(s) PROVE s[i] \subseteq Items(Append(s, b))
    BY <1>1 DEF Items
  <2>1. i \in 1..(Len(s) + 1) /\ Append(s, b)[i] = s[i]
    BY <1>1
  <2>2. QED
    BY <2>1, <1>1 DEF Items
<1>4. b \subseteq Items(Append(s, b))
  <2>1. Len(s) + 1 \in 1..(Len(s) + 1)
    BY <1>1
  <2>2. QED
    BY <2>1, <1>1 DEF Items
<1>5. QED
  BY <1>1, <1>2, <1>3, <1>4

\* what is in a queue is in its head or in its tail
LEMMA ItemsHeadTail ==
    ASSUME NEW s \in Seq(Batch), s # <<>>
    PROVE  /\ Items(s) \subseteq Head(s) \cup Items(Tail(s))
           /\ Head(s) \in Batch /\ Tail(s) \in Seq(Batch)
<1>1. /\ Head(s) = s[1] /\ Head(s) \in Batch /\ Tail(s) \in Seq(Batch)
      /\ Len(s) \in Nat \ {0} /\ DOMAIN s = 1..Len(s) /\ DOMAIN Tail(s) = 1..(Len(s) - 1)
      /\ \A i \in 1..(Len(s) - 1) : Tail(s)[i] = s[i + 1]
  OBVIOUS
<1> SUFFICES ASSUME NEW i \in 1..Len(s) PROVE s[i] \subseteq Head(s) \cup Items(Tail(s))
  BY <1>1 DEF Items
<1>2. CASE i = 1
  BY <1>2, <1>1
<1>3. CASE i # 1
  <2>1. i - 1 \in 1..(Len(s) - 1) /\ Tail(s)[i - 1] = s[i]
    BY <1>3, <1>1
  <2>2. QED
    BY ZenonT(30), <2>1, <1>1 DEF Items
<1>4. QED
  BY <1>2, <1>3

\* a push keeps, evicts or refuses: what was there, and b, is accounted for
LEMMA PushKeeps ==
    ASSUME NEW q \in Seq(Batch), NEW cap \in Nat \ {0}, NEW old, NEW closed,
           NEW b \in Batch
    PROVE  /\ Pushed(q, cap, old, closed, b) \in Seq(Batch)
           /\ Items(q) \cup b \subseteq Items(Pushed(q, cap, old, closed, b))
                                       \cup Evicted(q, cap, old, closed)
                                       \cup NotTaken(q, cap, old, closed, b)
<1>1. CASE DoesNotStore(q, cap, old, closed)
  BY <1>1 DEF Pushed, Evicted, NotTaken
<1>2. CASE ~DoesNotStore(q, cap, old, closed) /\ Full(q, cap)
  <2>1. q # <<>>
    BY <1>2 DEF Full
  <2>2. Items(q) \subseteq Head(q) \cup Items(Tail(q)) /\ Tail(q) \in Seq(Batch)
    BY <2>1, ItemsHeadTail
  <2>3. Items(Append(Tail(q), b)) = Items(Tail(q)) \cup b /\ Append(Tail(q), b) \in Seq(Batch)
    BY ZenonT(30), <2>2, ItemsAppend
  <2>4. Pushed(q, cap, old, closed, b) = Append(Tail(q), b) /\ Evicted(q, cap, old, closed) = Head(q)
    BY <1>2 DEF Pushed, Evicted
  <2>5. QED
    BY <2>2, <2>3, <2>4
<1>3. CASE ~DoesNotStore(q, cap, old, closed) /\ ~Full(q, cap)
  <2>1. Pushed(q, cap, old, closed, b) = Append(q, b)
    BY <1>3 DEF Pushed
  <2>2. QED
    BY <2>1, ItemsAppend
<1>4. QED
  BY <1>1, <1>2, <1>3

\* a change of one hand: the others keep what they hold
LEMMA HandChange ==
    ASSUME Shape, NEW g \in Goroutines, NEW b \in Batch,
           held' = [held EXCEPT ![g] = b]
    PROVE  /\ held' \in [Goroutines -> Batch]
           /\ InHand \subseteq InHand' \cup held[g]
           /\ b \subseteq InHand'
<1>1. held' \in [Goroutines -> Batch] /\ held'[g] = b
      /\ \A h \in Goroutines : h # g => held'[h] = held[h]
  BY DEF Shape
<1>2. b \subseteq InHand'
  BY <1>1 DEF InHand
<1>3. InHand \subseteq InHand' \cup held[g]
  <2> SUFFICES ASSUME NEW h \in Goroutines PROVE held[h] \subseteq InHand' \cup held[g]
    BY DEF InHand
  <2>1. CASE h = g
    BY <2>1
  <2>2. CASE h # g
    BY <2>2, <1>1 DEF InHand
  <2>3. QED
    BY <2>1, <2>2
<1>4. QED
  BY <1>1, <1>2, <1>3

\* a goroutine goes to w with b in its hand
LEMMA MoveFrees ==
    ASSUME Shape, HandsFree, NEW g \in Goroutines, NEW b \in Batch, NEW w \in Where,
           held' = [held EXCEPT ![g] = b], pc' = [pc EXCEPT ![g] = w], w \in {"wait", "done"} => b = {}
    PROVE  pc' \in [Goroutines -> Where] /\ HandsFree'
<1>1. /\ pc' \in [Goroutines -> Where] /\ pc'[g] = w /\ held'[g] = b
      /\ \A h \in Goroutines : h # g => pc'[h] = pc[h] /\ held'[h] = held[h]
  BY DEF Shape
<1>2. ASSUME NEW h \in Goroutines, pc'[h] \in {"wait", "done"} PROVE held'[h] = {}
  <2>1. CASE h = g
    BY <1>1, <1>2, <2>1
  <2>2. CASE h # g
    BY <1>1, <1>2, <2>2 DEF HandsFree
  <2>3. QED
    BY <2>1, <2>2
<1>3. QED
  BY <1>1, <1>2 DEF HandsFree

\* what a goroutine holds is in a hand
LEMMA HeldIsHere ==
    ASSUME Shape, NEW g \in Goroutines
    PROVE  held[g] \subseteq InHand /\ held[g] \in Batch
BY DEF Shape, InHand

\* the two pushes of the exporter, as facts about the queues and the history
LEMMA PushDiskKeeps ==
    ASSUME Shape, NEW b \in Batch, PushDisk(b)
    PROVE  /\ disk' \in Seq(Batch)
           /\ Items(disk) \cup b \subseteq Items(disk') \cup dropped' \cup lost'
           /\ dropped \subseteq dropped' /\ lost \subseteq lost'
           /\ UNCHANGED <<mem, prepared, accepted, delivered>>
<1>1. DiskCap \in Nat \ {0}
  BY ExporterAssumption
<1>2. /\ Pushed(disk, DiskCap, conf.dropOldest, Closed, b) \in Seq(Batch)
      /\ Items(disk) \cup b \subseteq Items(Pushed(disk, DiskCap, conf.dropOldest, Closed, b))
                                     \cup Evicted(disk, DiskCap, conf.dropOldest, Closed)
                                     \cup NotTaken(disk, DiskCap, conf.dropOldest, Closed, b)
  BY <1>1, PushKeeps DEF Shape
<1>3. QED
  BY <1>2 DEF PushDisk

LEMMA PushMemKeeps ==
    ASSUME Shape, NEW b \in Batch, PushMem(b)
    PROVE  /\ mem' \in Seq(Batch)
           /\ Items(mem) \cup b \subseteq Items(mem') \cup dropped' \cup lost'
           /\ dropped \subseteq dropped' /\ lost \subseteq lost'
           /\ UNCHANGED <<disk, prepared, accepted, delivered>>
<1>1. MemCap \in Nat \ {0}
  BY ExporterAssumption
<1>2. /\ Pushed(mem, MemCap, conf.dropOldest, Closed, b) \in Seq(Batch)
      /\ Items(mem) \cup b \subseteq Items(Pushed(mem, MemCap, conf.dropOldest, Closed, b))
                                    \cup Evicted(mem, MemCap, conf.dropOldest, Closed)
                                    \cup NotTaken(mem, MemCap, conf.dropOldest, Closed, b)
  BY <1>1, PushKeeps DEF Shape
<1>3. QED
  BY <1>2 DEF PushMem

\* an Export adds its batch to what is accepted and to a queue
LEMMA ExportPreserves ==
    ASSUME IInv, NEW b \in Batches, ExportDisk(b) \/ ExportMem(b)
    PROVE  IInv'
<1> USE DEF IInv
<1>1. b \in Batch /\ DiskCap \in Nat \ {0} /\ MemCap \in Nat \ {0}
  BY ExporterAssumption DEF Batch
<1>2. CASE ExportDisk(b)
  <2>1. /\ Pushed(disk, DiskCap, conf.dropOldest, Closed, b) \in Seq(Batch)
        /\ Items(disk) \cup b \subseteq Items(Pushed(disk, DiskCap, conf.dropOldest, Closed, b))
                                       \cup Evicted(disk, DiskCap, conf.dropOldest, Closed)
                                       \cup NotTaken(disk, DiskCap, conf.dropOldest, Closed, b)
    BY <1>1, PushKeeps DEF Shape
  <2>3. disk' \in Seq(Batch) /\ Items(disk) \cup b \subseteq Items(disk') \cup dropped' \cup lost'
        /\ dropped \subseteq dropped' /\ lost \subseteq lost' /\ accepted' = accepted \cup b
        /\ UNCHANGED <<mem, prepared, failed, inDrain, pc, held, delivered>>
    BY <1>2, <2>1 DEF ExportDisk, shutdown
  <2>4. Shape' /\ HandsFree'
    BY <2>3 DEF Shape, HandsFree
  <2>5. InHand' = InHand
    BY <2>3 DEF InHand
  <2>6. QED
    BY <2>3, <2>4, <2>5 DEF NothingForgotten, Here
<1>3. CASE ExportMem(b)
  <2>1. /\ Pushed(mem, MemCap, conf.dropOldest, Closed, b) \in Seq(Batch)
        /\ Items(mem) \cup b \subseteq Items(Pushed(mem, MemCap, conf.dropOldest, Closed, b))
                                      \cup Evicted(mem, MemCap, conf.dropOldest, Closed)
                                      \cup NotTaken(mem, MemCap, conf.dropOldest, Closed, b)
    BY <1>1, PushKeeps DEF Shape
  <2>2. NotTaken(mem, MemCap, conf.dropOldest, Closed, b) = {}
    BY <1>3 DEF ExportMem, NotTaken
  <2>3. mem' \in Seq(Batch) /\ Items(mem) \cup b \subseteq Items(mem') \cup dropped'
        /\ dropped \subseteq dropped' /\ accepted' = accepted \cup b
        /\ UNCHANGED <<disk, prepared, failed, inDrain, pc, held, delivered, lost>>
    BY <1>3, <2>1, <2>2 DEF ExportMem, shutdown
  <2>4. Shape' /\ HandsFree'
    BY <2>3 DEF Shape, HandsFree
  <2>5. InHand' = InHand
    BY <2>3 DEF InHand
  <2>6. QED
    BY <2>3, <2>4, <2>5 DEF NothingForgotten, Here
<1>4. QED
  BY <1>2, <1>3

\* a goroutine takes the head of a queue into its hand
LEMMA TakePreserves ==
    ASSUME IInv, NEW g \in Goroutines, Take(g) \/ TakeMem(g) \/ TakePrepared(g)
    PROVE  IInv'
<1> USE DEF IInv
<1>1. ASSUME NEW q \in Seq(Batch), NEW where \in {"taken", "send"}, TakeFrom(g, q, where)
      PROVE  /\ Tail(q) \in Seq(Batch) /\ held' \in [Goroutines -> Batch]
             /\ pc' \in [Goroutines -> Where] /\ HandsFree'
             /\ Items(q) \subseteq Items(Tail(q)) \cup InHand'
             /\ InHand \subseteq InHand'
  <2>1. /\ Items(q) \subseteq Head(q) \cup Items(Tail(q))
        /\ Head(q) \in Batch /\ Tail(q) \in Seq(Batch)
    BY <1>1, ItemsHeadTail DEF TakeFrom
  <2>2. /\ held' \in [Goroutines -> Batch] /\ Head(q) \subseteq InHand'
        /\ InHand \subseteq InHand' \cup held[g]
    BY ZenonT(30), <1>1, <2>1, HandChange DEF TakeFrom
  <2>3. held[g] = {}
    BY <1>1 DEF HandsFree, TakeFrom
  <2>4. pc' \in [Goroutines -> Where] /\ HandsFree'
    <3>1. where \in Where /\ where \notin {"wait", "done"}
      BY DEF Where
    <3>2. QED
      BY ZenonT(30), <1>1, <2>1, <3>1, MoveFrees DEF TakeFrom
  <2>5. QED
    BY <2>1, <2>2, <2>3, <2>4
<1>2. CASE Take(g)
  <2>1. TakeFrom(g, disk, "taken") /\ disk' = Tail(disk)
        /\ UNCHANGED <<mem, prepared, failed, inDrain, accepted, delivered, dropped, lost>>
    BY <1>2 DEF Take, shutdown, history
  <2>2. QED
    BY <2>1, <1>1 DEF Shape, NothingForgotten, Here
<1>3. CASE TakeMem(g)
  <2>1. TakeFrom(g, mem, "taken") /\ mem' = Tail(mem)
        /\ UNCHANGED <<disk, prepared, failed, inDrain, accepted, delivered, dropped, lost>>
    BY <1>3 DEF TakeMem, shutdown, history
  <2>2. QED
    BY <2>1, <1>1 DEF Shape, NothingForgotten, Here
<1>4. CASE TakePrepared(g)
  <2>1. TakeFrom(g, prepared, "send") /\ prepared' = Tail(prepared)
        /\ UNCHANGED <<disk, mem, failed, inDrain, accepted, delivered, dropped, lost>>
    BY <1>4 DEF TakePrepared, shutdown, history
  <2>2. QED
    BY <2>1, <1>1 DEF Shape, NothingForgotten, Here
<1>5. QED
  BY <1>2, <1>3, <1>4

\* the end of a round: the hand is emptied, and what was in it may leave with it
LEMMA AgainFrees ==
    ASSUME Shape, HandsFree, NEW g \in Goroutines, Again(g)
    PROVE  /\ held' \in [Goroutines -> Batch] /\ pc' \in [Goroutines -> Where]
           /\ HandsFree' /\ InHand \subseteq InHand' \cup held[g]
<1>1. held' = [held EXCEPT ![g] = {}] /\ {} \in Batch
  BY DEF Again, Batch
<1>2. held' \in [Goroutines -> Batch] /\ InHand \subseteq InHand' \cup held[g]
  BY ZenonT(30), <1>1, HandChange
<1>3. pc' \in [Goroutines -> Where] /\ HandsFree'
  <2> DEFINE w == IF stop THEN "done" ELSE "wait"
  <2>1. pc' = [pc EXCEPT ![g] = w] /\ w \in Where
    BY DEF Again, Loop, Where
  <2> HIDE DEF w
  <2>2. QED
    BY ZenonT(30), <1>1, <2>1, MoveFrees
<1>4. QED
  BY <1>2, <1>3

\* a round that ends with a push of the batch in hand
LEMMA PushBackPreserves ==
    ASSUME IInv, NEW g \in Goroutines, Again(g), UNCHANGED shutdown,
           PushDisk(held[g]) \/ PushMem(held[g])
    PROVE  IInv'
<1> USE DEF IInv
<1>1. /\ held' \in [Goroutines -> Batch] /\ pc' \in [Goroutines -> Where]
      /\ HandsFree' /\ InHand \subseteq InHand' \cup held[g]
  BY AgainFrees
<1>2. held[g] \in Batch
  BY HeldIsHere
<1>3. UNCHANGED <<failed, inDrain>>
  BY DEF shutdown
<1>4. CASE PushDisk(held[g])
  <2>1. /\ disk' \in Seq(Batch)
        /\ Items(disk) \cup held[g] \subseteq Items(disk') \cup dropped' \cup lost'
        /\ dropped \subseteq dropped' /\ lost \subseteq lost'
        /\ UNCHANGED <<mem, prepared, accepted, delivered>>
    BY <1>2, <1>4, PushDiskKeeps
  <2>2. QED
    BY <1>1, <1>3, <2>1 DEF Shape, NothingForgotten, Here
<1>5. CASE PushMem(held[g])
  <2>1. /\ mem' \in Seq(Batch)
        /\ Items(mem) \cup held[g] \subseteq Items(mem') \cup dropped' \cup lost'
        /\ dropped \subseteq dropped' /\ lost \subseteq lost'
        /\ UNCHANGED <<disk, prepared, accepted, delivered>>
    BY <1>2, <1>5, PushMemKeeps
  <2>2. QED
    BY <1>1, <1>3, <2>1 DEF Shape, NothingForgotten, Here
<1>6. QED
  BY <1>4, <1>5

\* a step that only moves a goroutine on, with the same batch in its hand
LEMMA StayPreserves ==
    ASSUME IInv, NEW g \in Goroutines, NEW w \in Where, w \in {"wait", "done"} => held[g] = {},
           pc' = [pc EXCEPT ![g] = w], delivered \subseteq delivered',
           UNCHANGED <<queues, held, shutdown, accepted, dropped, lost>>
    PROVE  IInv'
<1> USE DEF IInv
<1>1. /\ pc' \in [Goroutines -> Where] /\ pc'[g] = w
      /\ \A h \in Goroutines : h # g => pc'[h] = pc[h]
  BY DEF Shape
<1>2. HandsFree'
  BY <1>1 DEF HandsFree
<1>3. UNCHANGED <<disk, mem, prepared, failed, inDrain, held>> /\ InHand' = InHand
  BY DEF queues, shutdown, InHand
<1>4. QED
  BY <1>1, <1>2, <1>3 DEF Shape, NothingForgotten, Here

\* sending: delivered, dropped, or on to the next step with the batch in hand
LEMMA SendPreserves ==
    ASSUME IInv, NEW g \in Goroutines,
           SendOk(g) \/ SendFails(g) \/ SendTooLarge(g) \/ SendRefused(g)
    PROVE  IInv'
<1> USE DEF IInv
<1>1. ASSUME Again(g), UNCHANGED <<queues, shutdown, accepted, lost>>,
             delivered \cup dropped \cup held[g] \subseteq delivered' \cup dropped'
      PROVE  IInv'
  <2>1. /\ held' \in [Goroutines -> Batch] /\ pc' \in [Goroutines -> Where]
        /\ HandsFree' /\ InHand \subseteq InHand' \cup held[g]
    BY <1>1, AgainFrees
  <2>2. UNCHANGED <<disk, mem, prepared, failed, inDrain, accepted, lost>>
    BY <1>1 DEF queues, shutdown
  <2>3. QED
    BY <1>1, <2>1, <2>2 DEF Shape, NothingForgotten, Here
<1>2. CASE SendOk(g)
  BY <1>1, <1>2 DEF SendOk
<1>3. CASE SendFails(g)
  <2>1. delivered \subseteq delivered' /\ pc' = [pc EXCEPT ![g] = "retry"]
        /\ UNCHANGED <<queues, held, shutdown, accepted, dropped, lost>>
    BY <1>3 DEF SendFails
  <2>2. "retry" \in Where /\ "retry" \notin {"wait", "done"}
    BY DEF Where
  <2>3. QED
    BY ZenonT(30), <2>1, <2>2, StayPreserves
<1>4. CASE SendTooLarge(g)
  <2> DEFINE w == IF g \in MemWorkers THEN "retry" ELSE "split"
  <2>1. delivered \subseteq delivered' /\ pc' = [pc EXCEPT ![g] = w]
        /\ UNCHANGED <<queues, held, shutdown, accepted, dropped, lost>>
    BY <1>4 DEF SendTooLarge, history
  <2>2. w \in Where /\ w \notin {"wait", "done"}
    BY DEF Where
  <2> HIDE DEF w
  <2>3. QED
    BY ZenonT(30), <2>1, <2>2, StayPreserves
<1>5. CASE SendRefused(g)
  <2>1. CASE g \in MemWorkers
    <3>1. delivered \subseteq delivered' /\ pc' = [pc EXCEPT ![g] = "retry"]
          /\ UNCHANGED <<queues, held, shutdown, accepted, dropped, lost>>
      BY <1>5, <2>1 DEF SendRefused
    <3>2. "retry" \in Where /\ "retry" \notin {"wait", "done"}
      BY DEF Where
    <3>3. QED
      BY ZenonT(30), <3>1, <3>2, StayPreserves
  <2>2. CASE g \notin MemWorkers
    BY <1>1, <1>5, <2>2 DEF SendRefused
  <2>3. QED
    BY <2>1, <2>2
<1>6. QED
  BY <1>2, <1>3, <1>4, <1>5

\* the first half goes to the queue, the rest stays in hand
LEMMA SplitPreserves ==
    ASSUME IInv, NEW g \in Goroutines, SplitFirst(g)
    PROVE  IInv'
<1> USE DEF IInv
<1> DEFINE half == FirstHalf(held[g])
<1>1. held[g] \in Batch /\ half \subseteq held[g]
  BY HeldIsHere DEF FirstHalf
<1>2. half \in Batch /\ held[g] \ half \in Batch
  BY <1>1 DEF Batch
<1>3. /\ PushDisk(half) /\ held' = [held EXCEPT ![g] = held[g] \ half]
      /\ pc' = [pc EXCEPT ![g] = "half"] /\ UNCHANGED <<failed, inDrain>>
  BY DEF SplitFirst, shutdown, Shape
<1> HIDE DEF half
<1>4. /\ disk' \in Seq(Batch) /\ Items(disk) \cup half \subseteq Items(disk') \cup dropped' \cup lost'
      /\ dropped \subseteq dropped' /\ lost \subseteq lost'
      /\ UNCHANGED <<mem, prepared, accepted, delivered>>
  BY <1>2, <1>3, PushDiskKeeps
<1>5. /\ held' \in [Goroutines -> Batch] /\ InHand \subseteq InHand' \cup held[g]
      /\ held[g] \ half \subseteq InHand'
  BY ZenonT(30), <1>2, <1>3, HandChange
<1>6. "half" \in Where /\ "half" \notin {"wait", "done"}
  BY DEF Where
<1>7. pc' \in [Goroutines -> Where] /\ HandsFree'
  BY ZenonT(30), <1>2, <1>3, <1>6, MoveFrees
<1>8. QED
  BY <1>3, <1>4, <1>5, <1>7 DEF Shape, NothingForgotten, Here

\* what a goroutine does in one step
LEMMA WorkPreserves ==
    ASSUME IInv, NEW g \in Goroutines, Work(g)
    PROVE  IInv'
<1> USE DEF IInv
<1>1. CASE Exit(g) \/ Allow(g)
  <2>1. PICK w \in Where \ {"wait"} :
          /\ pc' = [pc EXCEPT ![g] = w] /\ (w = "done" => pc[g] = "wait")
          /\ UNCHANGED <<queues, held, shutdown, history>>
    BY <1>1 DEF Exit, Allow, Where
  <2>2. delivered \subseteq delivered' /\ UNCHANGED <<queues, held, shutdown, accepted, dropped, lost>>
    BY <2>1 DEF history
  <2>3. w \in {"wait", "done"} => held[g] = {}
    BY <2>1 DEF HandsFree
  <2>4. QED
    BY ZenonT(30), <2>1, <2>2, <2>3, StayPreserves
<1>2. CASE Take(g) \/ TakeMem(g) \/ TakePrepared(g)
  BY <1>2, TakePreserves
<1>3. CASE Deny(g) \/ HandStop(g) \/ SplitSecond(g) \/ Retry(g)
  <2>1. Again(g) /\ UNCHANGED shutdown /\ (PushDisk(held[g]) \/ PushMem(held[g]))
    BY <1>3 DEF Deny, HandStop, SplitSecond, Retry, PushBack
  <2>2. QED
    BY <2>1, PushBackPreserves
<1>4. CASE Hand(g)
  <2>1. /\ held' \in [Goroutines -> Batch] /\ pc' \in [Goroutines -> Where]
        /\ HandsFree' /\ InHand \subseteq InHand' \cup held[g]
    BY <1>4, AgainFrees DEF Hand
  <2>2. held[g] \in Batch
    BY HeldIsHere
  <2>3. prepared' = Append(prepared, held[g])
        /\ UNCHANGED <<disk, mem, failed, inDrain, accepted, delivered, dropped, lost>>
    BY <1>4 DEF Hand, shutdown, history
  <2>4. prepared' \in Seq(Batch) /\ Items(prepared') = Items(prepared) \cup held[g]
    BY <2>2, <2>3, ItemsAppend DEF Shape
  <2>5. QED
    BY <2>1, <2>3, <2>4 DEF Shape, NothingForgotten, Here
<1>5. CASE SendOk(g) \/ SendFails(g) \/ SendTooLarge(g) \/ SendRefused(g)
  BY <1>5, SendPreserves
<1>6. CASE SplitFirst(g)
  BY <1>6, SplitPreserves
<1>7. QED
  BY <1>1, <1>2, <1>3, <1>4, <1>5, <1>6 DEF Work

\* Close and the drain move batches between the disk queue, the drain and failedEntries
LEMMA ClosePreserves ==
    ASSUME IInv, Close \/ CloseStep
    PROVE  IInv'
<1> USE DEF IInv
<1>1. UNCHANGED <<mem, prepared, pc, held>> /\ InHand' = InHand /\ HandsFree'
  BY DEF Close, CloseStep, Joined, DrainPop, DrainOk, DrainFails, DrainEnds, Repush, CloseQueues,
         queues, InHand, HandsFree, PushDisk
<1>2. CASE Close \/ Joined \/ DrainEnds \/ CloseQueues
  <2>1. UNCHANGED <<disk, failed, inDrain, accepted, delivered, dropped, lost>>
    BY <1>2 DEF Close, Joined, DrainEnds, CloseQueues, queues, history
  <2>2. QED
    BY <1>1, <2>1 DEF Shape, NothingForgotten, Here
<1>3. CASE DrainPop
  <2>1. /\ Items(disk) \subseteq Head(disk) \cup Items(Tail(disk))
        /\ Head(disk) \in Batch /\ Tail(disk) \in Seq(Batch)
    BY <1>3, ItemsHeadTail DEF DrainPop, Shape
  <2>2. /\ inDrain = {} /\ inDrain' = Head(disk) /\ disk' = Tail(disk)
        /\ UNCHANGED <<failed, accepted, delivered, dropped, lost>>
    BY <1>3 DEF DrainPop, history
  <2>3. QED
    BY <1>1, <2>1, <2>2 DEF Shape, NothingForgotten, Here
<1>4. CASE DrainOk
  <2>1. /\ inDrain' = {} /\ delivered' = delivered \cup inDrain
        /\ UNCHANGED <<disk, failed, accepted, dropped, lost>>
    BY <1>4 DEF DrainOk, queues
  <2>2. QED
    BY <1>1, <2>1 DEF Shape, NothingForgotten, Here, Batch
<1>5. CASE DrainFails
  <2>1. /\ inDrain' = {} /\ failed' = Append(failed, inDrain)
        /\ UNCHANGED <<disk, accepted, delivered, dropped, lost>>
    BY <1>5 DEF DrainFails, queues, history
  <2>2. Items(failed') = Items(failed) \cup inDrain /\ failed' \in Seq(Batch)
    BY <2>1, ItemsAppend DEF Shape
  <2>3. inDrain' \in Batch
    BY <2>1 DEF Batch
  <2>4. QED
    BY <1>1, <2>1, <2>2, <2>3 DEF Shape, NothingForgotten, Here
<1>6. CASE Repush
  <2>1. /\ Items(failed) \subseteq Head(failed) \cup Items(Tail(failed))
        /\ Head(failed) \in Batch /\ Tail(failed) \in Seq(Batch)
    BY <1>6, ItemsHeadTail DEF Repush, Shape
  <2>2. PushDisk(Head(failed)) /\ failed' = Tail(failed) /\ inDrain' = inDrain
    BY <1>6 DEF Repush
  <2>3. /\ disk' \in Seq(Batch)
        /\ Items(disk) \cup Head(failed) \subseteq Items(disk') \cup dropped' \cup lost'
        /\ dropped \subseteq dropped' /\ lost \subseteq lost'
        /\ UNCHANGED <<mem, prepared, accepted, delivered>>
    BY <2>1, <2>2, PushDiskKeeps
  <2>4. QED
    BY <1>1, <2>1, <2>2, <2>3 DEF Shape, NothingForgotten, Here
<1>7. QED
  BY <1>2, <1>3, <1>4, <1>5, <1>6 DEF CloseStep

LEMMA IInvStarts ==
    ASSUME Init
    PROVE  IInv
<1>1. <<>> \in Seq(Batch) /\ {} \in Batch /\ "wait" \in Where
  BY DEF Batch, Where
<1>2. Shape /\ HandsFree
  BY <1>1 DEF Init, Shape, HandsFree
<1>3. NothingForgotten
  BY DEF Init, NothingForgotten
<1>4. QED
  BY <1>2, <1>3 DEF IInv

LEMMA IInvStays ==
    ASSUME IInv, [Next]_vars
    PROVE  IInv'
<1>1. CASE UNCHANGED vars
  BY <1>1 DEF vars, queues, shutdown, history, IInv, Shape, HandsFree, NothingForgotten, Here, InHand
<1>2. CASE \E b \in Batches \cap conf.batches : ExportDisk(b) \/ ExportMem(b)
  BY <1>2, ExportPreserves
<1>3. CASE \E g \in Goroutines : Work(g)
  BY <1>3, WorkPreserves
<1>4. CASE Close \/ CloseStep
  BY <1>4, ClosePreserves
<1>5. QED
  BY <1>1, <1>2, <1>3, <1>4 DEF Next, Step

\* Whatever Export accepted is in a queue, in a hand, delivered, dropped by a rule,
\* or its push failed: no path of workers, pipeline or Close forgets it.
THEOREM ExporterNothingForgotten == Spec => []NothingForgotten
<1>1. IInv => NothingForgotten
  BY DEF IInv
<1>2. QED
  BY IInvStarts, IInvStays, <1>1, PTL DEF Spec

-----------------------------------------------------------------------------
(* One place *)

\* the batches of a queue, and six places, have nothing in common
Apart(s) == \A i, j \in DOMAIN s : i # j => s[i] \cap s[j] = {}

Disjoint(a, b, c, d, e, f) ==
    /\ a \cap b = {} /\ a \cap c = {} /\ a \cap d = {} /\ a \cap e = {} /\ a \cap f = {}
    /\ b \cap c = {} /\ b \cap d = {} /\ b \cap e = {} /\ b \cap f = {}
    /\ c \cap d = {} /\ c \cap e = {} /\ c \cap f = {}
    /\ d \cap e = {} /\ d \cap f = {} /\ e \cap f = {}

HandsApart == \A g, h \in Goroutines : g # h => held[g] \cap held[h] = {}

Apartness ==
    /\ Apart(disk) /\ Apart(mem) /\ Apart(prepared) /\ Apart(failed) /\ HandsApart
    /\ Disjoint(Items(disk), Items(mem), Items(prepared), Items(failed), inDrain, InHand)
    /\ Here \subseteq accepted

AInv == IInv /\ Apartness

\* a batch that has nothing in common with the others is put at the end
LEMMA AppendApart ==
    ASSUME NEW s \in Seq(Batch), NEW b \in Batch, Apart(s), Items(s) \cap b = {}
    PROVE  Apart(Append(s, b))
<1> DEFINE a == Append(s, b)
<1>1. /\ DOMAIN s = 1..Len(s) /\ Len(s) \in Nat /\ DOMAIN a = 1..(Len(s) + 1)
      /\ \A i \in 1..Len(s) : a[i] = s[i]
      /\ a[Len(s) + 1] = b
  OBVIOUS
<1> HIDE DEF a
<1>2. \A i \in 1..Len(s) : s[i] \cap b = {}
  BY <1>1 DEF Items
<1>3. ASSUME NEW i \in 1..(Len(s) + 1), NEW j \in 1..(Len(s) + 1), i # j PROVE a[i] \cap a[j] = {}
  <2>1. CASE i \in 1..Len(s) /\ j \in 1..Len(s)
    BY <2>1, <1>1, <1>3 DEF Apart
  <2>2. CASE i = Len(s) + 1 /\ j \in 1..Len(s)
    BY <2>2, <1>1, <1>2
  <2>3. CASE j = Len(s) + 1 /\ i \in 1..Len(s)
    BY <2>3, <1>1, <1>2
  <2>4. QED
    BY <1>1, <1>3, <2>1, <2>2, <2>3
<1>4. QED
  BY <1>1, <1>3 DEF Apart, a

\* the first batch has nothing in common with the rest
LEMMA TailApart ==
    ASSUME NEW s \in Seq(Batch), s # <<>>, Apart(s)
    PROVE  /\ Apart(Tail(s)) /\ Head(s) \cap Items(Tail(s)) = {}
           /\ Head(s) \subseteq Items(s) /\ Items(Tail(s)) \subseteq Items(s)
<1> DEFINE t == Tail(s)
<1>1. /\ Head(s) = s[1] /\ Len(s) \in Nat \ {0} /\ DOMAIN s = 1..Len(s) /\ DOMAIN t = 1..(Len(s) - 1)
      /\ \A i \in 1..(Len(s) - 1) : t[i] = s[i + 1] /\ i + 1 \in 1..Len(s) /\ i + 1 # 1
      /\ 1 \in 1..Len(s)
  OBVIOUS
<1> HIDE DEF t
<1>2. Apart(t)
  <2> SUFFICES ASSUME NEW i \in DOMAIN t, NEW j \in DOMAIN t, i # j PROVE t[i] \cap t[j] = {}
    BY DEF Apart
  <2>1. t[i] = s[i + 1] /\ t[j] = s[j + 1] /\ i + 1 \in DOMAIN s /\ j + 1 \in DOMAIN s /\ i + 1 # j + 1
    BY <1>1
  <2>2. QED
    BY <2>1 DEF Apart
<1>3. \A i \in DOMAIN s : s[i] \subseteq Items(s)
  BY DEF Items
<1>4. Head(s) \cap Items(t) = {}
  <2>1. \A i \in DOMAIN t : s[1] \cap t[i] = {}
    BY <1>1 DEF Apart
  <2>2. QED
    BY <1>1, <2>1 DEF Items
<1>5. Items(t) \subseteq Items(s)
  <2>1. \A i \in DOMAIN t : t[i] \subseteq Items(s)
    BY <1>1, <1>3
  <2>2. QED
    BY <2>1 DEF Items
<1>6. Head(s) \subseteq Items(s)
  BY <1>1, <1>3
<1>7. QED
  BY <1>2, <1>4, <1>5, <1>6 DEF t

\* a push adds the batch, or does not
LEMMA PushApart ==
    ASSUME NEW q \in Seq(Batch), NEW cap \in Nat \ {0}, NEW old, NEW closed, NEW b \in Batch,
           Apart(q), Items(q) \cap b = {}
    PROVE  LET r == Pushed(q, cap, old, closed, b)
           IN  Apart(r) /\ Items(r) \subseteq Items(q) \cup b
<1>1. CASE DoesNotStore(q, cap, old, closed)
  BY <1>1 DEF Pushed
<1>2. CASE ~DoesNotStore(q, cap, old, closed) /\ Full(q, cap)
  <2>1. q # <<>>
    BY <1>2 DEF Full
  <2>2. Tail(q) \in Seq(Batch) /\ Apart(Tail(q)) /\ Items(Tail(q)) \subseteq Items(q)
    BY <2>1, ItemsHeadTail, TailApart
  <2>3. Items(Append(Tail(q), b)) = Items(Tail(q)) \cup b /\ Apart(Append(Tail(q), b))
    BY ZenonT(30), <2>2, ItemsAppend, AppendApart
  <2>4. Pushed(q, cap, old, closed, b) = Append(Tail(q), b)
    BY <1>2 DEF Pushed
  <2>5. QED
    BY <2>2, <2>3, <2>4
<1>3. CASE ~DoesNotStore(q, cap, old, closed) /\ ~Full(q, cap)
  <2>1. Pushed(q, cap, old, closed, b) = Append(q, b)
    BY <1>3 DEF Pushed
  <2>2. QED
    BY <2>1, ItemsAppend, AppendApart
<1>4. QED
  BY <1>1, <1>2, <1>3

\* what changes hands: b comes into the hand of g in place of what was there
LEMMA HandApart ==
    ASSUME Shape, HandsApart, NEW g \in Goroutines, NEW b \in Batch, held' = [held EXCEPT ![g] = b],
           b \subseteq held[g] \/ b \cap InHand = {}
    PROVE  HandsApart' /\ InHand' \subseteq (InHand \ held[g]) \cup b
<1>1. /\ held'[g] = b /\ \A h \in Goroutines : h # g => held'[h] = held[h]
  BY DEF Shape
<1>2. \A h \in Goroutines : held[h] \subseteq InHand
  BY DEF InHand
<1>3. \A h \in Goroutines : h # g => b \cap held[h] = {}
  BY <1>2 DEF HandsApart
<1>4. HandsApart'
  BY <1>1, <1>3 DEF HandsApart
<1>5. \A h \in Goroutines : held'[h] \subseteq (InHand \ held[g]) \cup b
  <2> SUFFICES ASSUME NEW h \in Goroutines PROVE held'[h] \subseteq (InHand \ held[g]) \cup b
    OBVIOUS
  <2>1. CASE h = g
    BY <2>1, <1>1
  <2>2. CASE h # g
    BY <2>2, <1>1, <1>2 DEF HandsApart
  <2>3. QED
    BY <2>1, <2>2
<1>6. InHand' \subseteq (InHand \ held[g]) \cup b
  BY <1>5 DEF InHand
<1>7. QED
  BY <1>4, <1>6

\* a step that takes b out of the hand of g, or of nobody's, and puts it in at most
\* one other place
LEMMA HandMoves ==
    ASSUME AInv, NEW b,
           \/ /\ Items(disk') \subseteq Items(disk) \cup b /\ Items(mem') \subseteq Items(mem)
              /\ Items(prepared') \subseteq Items(prepared) /\ inDrain' \subseteq inDrain
           \/ /\ Items(disk') \subseteq Items(disk) /\ Items(mem') \subseteq Items(mem) \cup b
              /\ Items(prepared') \subseteq Items(prepared) /\ inDrain' \subseteq inDrain
           \/ /\ Items(disk') \subseteq Items(disk) /\ Items(mem') \subseteq Items(mem)
              /\ Items(prepared') \subseteq Items(prepared) \cup b /\ inDrain' \subseteq inDrain,
           Items(failed') \subseteq Items(failed), InHand' \subseteq InHand \ b,
           b \subseteq InHand, accepted' = accepted
    PROVE  /\ Disjoint(Items(disk'), Items(mem'), Items(prepared'), Items(failed'), inDrain', InHand')
           /\ Here' \subseteq accepted'
<1>1. /\ Disjoint(Items(disk), Items(mem), Items(prepared), Items(failed), inDrain, InHand)
      /\ Items(disk) \cup Items(mem) \cup Items(prepared) \cup Items(failed) \cup inDrain \cup InHand \subseteq accepted
  BY DEF AInv, Apartness, Here
<1>2. Disjoint(Items(disk'), Items(mem'), Items(prepared'), Items(failed'), inDrain', InHand')
  BY <1>1 DEF Disjoint
<1>3. Here' = Items(disk') \cup Items(mem') \cup Items(prepared') \cup Items(failed') \cup inDrain' \cup InHand'
  BY DEF Here
<1>4. Here' \subseteq accepted'
  BY <1>1, <1>3
<1>5. QED
  BY <1>2, <1>4

\* a round that ends: the hand is emptied
LEMMA AgainApart ==
    ASSUME AInv, NEW g \in Goroutines, Again(g)
    PROVE  HandsApart' /\ InHand' \subseteq InHand \ held[g] /\ held[g] \subseteq InHand /\ held[g] \in Batch
<1>1. held' = [held EXCEPT ![g] = {}] /\ {} \in Batch
  BY DEF Again, Batch
<1>2. HandsApart' /\ InHand' \subseteq (InHand \ held[g]) \cup {}
  BY ZenonT(30), <1>1, HandApart DEF AInv, IInv, Apartness
<1>3. QED
  BY <1>2, HeldIsHere DEF AInv, IInv

\* a push onto one of the queues
LEMMA PushesApart ==
    ASSUME AInv, NEW b \in Batch
    PROVE  /\ PushDisk(b) /\ Items(disk) \cap b = {} => Apart(disk') /\ Items(disk') \subseteq Items(disk) \cup b
           /\ PushMem(b) /\ Items(mem) \cap b = {} => Apart(mem') /\ Items(mem') \subseteq Items(mem) \cup b
<1>1. DiskCap \in Nat \ {0} /\ MemCap \in Nat \ {0}
  BY ExporterAssumption
<1>2. Apart(disk) /\ Apart(mem) /\ disk \in Seq(Batch) /\ mem \in Seq(Batch)
  BY DEF AInv, Apartness, IInv, Shape
<1>3. ASSUME PushDisk(b), Items(disk) \cap b = {} PROVE Apart(disk') /\ Items(disk') \subseteq Items(disk) \cup b
  <2>1. disk' = Pushed(disk, DiskCap, conf.dropOldest, Closed, b)
    BY <1>3 DEF PushDisk
  <2>2. QED
    BY <1>1, <1>2, <1>3, <2>1, PushApart
<1>4. ASSUME PushMem(b), Items(mem) \cap b = {} PROVE Apart(mem') /\ Items(mem') \subseteq Items(mem) \cup b
  <2>1. mem' = Pushed(mem, MemCap, conf.dropOldest, Closed, b)
    BY <1>4 DEF PushMem
  <2>2. QED
    BY <1>1, <1>2, <1>4, <2>1, PushApart
<1>5. QED
  BY <1>3, <1>4

\* a batch in hand is nowhere else
LEMMA HandAlone ==
    ASSUME AInv, NEW b, b \subseteq InHand
    PROVE  /\ Items(disk) \cap b = {} /\ Items(mem) \cap b = {} /\ Items(prepared) \cap b = {}
           /\ Items(failed) \cap b = {} /\ inDrain \cap b = {}
BY DEF AInv, Apartness, Disjoint

\* the steps of a goroutine that end a round
LEMMA RoundApart ==
    ASSUME AInv, NEW g \in Goroutines, Again(g), UNCHANGED <<failed, inDrain, accepted>>,
           \/ PushDisk(held[g]) \/ PushMem(held[g])
           \/ prepared' = Append(prepared, held[g]) /\ UNCHANGED <<disk, mem>>
           \/ UNCHANGED <<disk, mem, prepared>>
    PROVE  Apartness'
<1> DEFINE b == held[g]
<1>1. HandsApart' /\ InHand' \subseteq InHand \ b /\ b \subseteq InHand /\ b \in Batch
  BY AgainApart
<1>2. /\ Items(disk) \cap b = {} /\ Items(mem) \cap b = {} /\ Items(prepared) \cap b = {}
  BY <1>1, HandAlone
<1>3. Apart(disk) /\ Apart(mem) /\ Apart(prepared) /\ Apart(failed) /\ prepared \in Seq(Batch)
  BY DEF AInv, Apartness, IInv, Shape
<1> HIDE DEF b
<1>4. CASE PushDisk(b)
  <2>1. Apart(disk') /\ Items(disk') \subseteq Items(disk) \cup b /\ UNCHANGED <<mem, prepared>>
    BY <1>1, <1>2, <1>4, PushesApart DEF PushDisk
  <2>2. /\ Disjoint(Items(disk'), Items(mem'), Items(prepared'), Items(failed'), inDrain', InHand')
        /\ Here' \subseteq accepted'
    BY ZenonT(30), <1>1, <2>1, HandMoves
  <2>3. QED
    BY SMTT(30), ZenonT(30), <1>1, <1>3, <2>1, <2>2 DEF Apartness
<1>5. CASE PushMem(b)
  <2>1. Apart(mem') /\ Items(mem') \subseteq Items(mem) \cup b /\ UNCHANGED <<disk, prepared>>
    BY ZenonT(30), <1>1, <1>2, <1>5, PushesApart DEF PushMem
  <2>2. /\ Disjoint(Items(disk'), Items(mem'), Items(prepared'), Items(failed'), inDrain', InHand')
        /\ Here' \subseteq accepted'
    BY ZenonT(30), <1>1, <2>1, HandMoves
  <2>3. QED
    BY <1>1, <1>3, <2>1, <2>2 DEF Apartness
<1>6. CASE prepared' = Append(prepared, b) /\ UNCHANGED <<disk, mem>>
  <2>1. Apart(prepared') /\ Items(prepared') \subseteq Items(prepared) \cup b
    BY <1>1, <1>2, <1>3, <1>6, ItemsAppend, AppendApart
  <2>2. /\ Disjoint(Items(disk'), Items(mem'), Items(prepared'), Items(failed'), inDrain', InHand')
        /\ Here' \subseteq accepted'
    BY ZenonT(30), <1>1, <1>6, <2>1, HandMoves
  <2>3. QED
    BY <1>1, <1>3, <1>6, <2>1, <2>2 DEF Apartness
<1>7. CASE UNCHANGED <<disk, mem, prepared>>
  <2>1. /\ Disjoint(Items(disk'), Items(mem'), Items(prepared'), Items(failed'), inDrain', InHand')
        /\ Here' \subseteq accepted'
    BY <1>1, <1>7, HandMoves
  <2>2. QED
    BY <1>1, <1>3, <1>7, <2>1 DEF Apartness
<1>8. QED
  BY <1>4, <1>5, <1>6, <1>7 DEF b

\* a step that moves no batch
LEMMA StillApart ==
    ASSUME AInv, UNCHANGED <<disk, mem, prepared, failed, inDrain, held, accepted>>
    PROVE  Apartness'
BY DEF AInv, Apartness, HandsApart, InHand, Here

\* an Export puts what was never accepted at the end of a queue
LEMMA ExportApart ==
    ASSUME AInv, NEW b \in Batches, ExportDisk(b) \/ ExportMem(b)
    PROVE  Apartness'
<1>1. b \in Batch /\ DiskCap \in Nat \ {0} /\ MemCap \in Nat \ {0}
  BY SMTT(30), ZenonT(30), ExporterAssumption DEF Batch
<1>2. /\ b \cap accepted = {} /\ accepted' = accepted \cup b /\ InHand' = InHand
      /\ UNCHANGED <<prepared, failed, inDrain, held>>
  BY DEF ExportDisk, ExportMem, shutdown, InHand
<1>3. /\ Apart(disk) /\ Apart(mem) /\ Apart(prepared) /\ Apart(failed) /\ HandsApart
      /\ Disjoint(Items(disk), Items(mem), Items(prepared), Items(failed), inDrain, InHand)
      /\ Items(disk) \cup Items(mem) \cup Items(prepared) \cup Items(failed) \cup inDrain \cup InHand \subseteq accepted
      /\ disk \in Seq(Batch) /\ mem \in Seq(Batch)
  BY DEF AInv, Apartness, Here, IInv, Shape
<1>4. /\ Apart(disk') /\ Apart(mem')
      /\ \/ Items(disk') \subseteq Items(disk) \cup b /\ mem' = mem
         \/ Items(mem') \subseteq Items(mem) \cup b /\ disk' = disk
  <2>1. Items(disk) \cap b = {} /\ Items(mem) \cap b = {}
    BY <1>2, <1>3
  <2>2. CASE ExportDisk(b)
    BY <1>1, <1>3, <2>1, <2>2, PushApart DEF ExportDisk
  <2>3. CASE ExportMem(b)
    BY <1>1, <1>3, <2>1, <2>3, PushApart DEF ExportMem
  <2>4. QED
    BY <2>2, <2>3
<1>5. Disjoint(Items(disk'), Items(mem'), Items(prepared'), Items(failed'), inDrain', InHand')
  BY <1>2, <1>3, <1>4 DEF Disjoint
<1>6. Here' \subseteq accepted'
  BY <1>2, <1>3, <1>4 DEF Here
<1>7. HandsApart' /\ Apart(prepared') /\ Apart(failed')
  BY <1>2, <1>3 DEF HandsApart
<1>8. QED
  BY <1>4, <1>5, <1>6, <1>7 DEF Apartness

\* the head of a queue goes into a hand that was free
LEMMA TakeApart ==
    ASSUME AInv, NEW g \in Goroutines, Take(g) \/ TakeMem(g) \/ TakePrepared(g)
    PROVE  Apartness'
<1>1. /\ Apart(disk) /\ Apart(mem) /\ Apart(prepared) /\ Apart(failed) /\ HandsApart
      /\ Disjoint(Items(disk), Items(mem), Items(prepared), Items(failed), inDrain, InHand)
      /\ Items(disk) \cup Items(mem) \cup Items(prepared) \cup Items(failed) \cup inDrain \cup InHand \subseteq accepted
      /\ disk \in Seq(Batch) /\ mem \in Seq(Batch) /\ prepared \in Seq(Batch) /\ Shape
  BY DEF AInv, Apartness, Here, IInv, Shape
<1>2. UNCHANGED <<failed, inDrain, accepted>>
  BY DEF Take, TakeMem, TakePrepared, shutdown, history
<1>3. ASSUME NEW q \in Seq(Batch), NEW where, TakeFrom(g, q, where), Apart(q), Items(q) \cap InHand = {}
      PROVE  /\ Apart(Tail(q)) /\ HandsApart' /\ Head(q) \cap Items(Tail(q)) = {}
             /\ Head(q) \subseteq Items(q) /\ Items(Tail(q)) \subseteq Items(q)
             /\ InHand' \subseteq InHand \cup Head(q)
  <2>1. q # <<>> /\ held' = [held EXCEPT ![g] = Head(q)]
    BY <1>3 DEF TakeFrom
  <2>2. /\ Apart(Tail(q)) /\ Head(q) \cap Items(Tail(q)) = {}
        /\ Head(q) \subseteq Items(q) /\ Items(Tail(q)) \subseteq Items(q) /\ Head(q) \in Batch
    BY <1>3, <2>1, TailApart, ItemsHeadTail
  <2>3. Head(q) \cap InHand = {}
    BY <1>3, <2>2
  <2>4. HandsApart' /\ InHand' \subseteq (InHand \ held[g]) \cup Head(q)
    BY ZenonT(30), <1>1, <2>1, <2>2, <2>3, HandApart
  <2>5. QED
    BY <2>2, <2>4
<1>4. Items(disk) \cap InHand = {} /\ Items(mem) \cap InHand = {} /\ Items(prepared) \cap InHand = {}
  BY <1>1 DEF Disjoint
<1>5. PICK b :
      /\ InHand' \subseteq InHand \cup b
      /\ Apart(disk') /\ Apart(mem') /\ Apart(prepared') /\ HandsApart'
      /\ Items(disk') \subseteq Items(disk) /\ Items(mem') \subseteq Items(mem)
      /\ Items(prepared') \subseteq Items(prepared)
      /\ b \cap (Items(disk') \cup Items(mem') \cup Items(prepared') \cup Items(failed) \cup inDrain) = {}
      /\ b \subseteq accepted
  <2>1. CASE Take(g)
    <3>1. TakeFrom(g, disk, "taken") /\ disk' = Tail(disk) /\ UNCHANGED <<mem, prepared>>
      BY <2>1 DEF Take
    <3>2. /\ Apart(disk') /\ HandsApart' /\ Head(disk) \cap Items(disk') = {}
          /\ Head(disk) \subseteq Items(disk) /\ Items(disk') \subseteq Items(disk)
          /\ InHand' \subseteq InHand \cup Head(disk)
      BY <1>1, <1>3, <1>4, <3>1
    <3>3. Head(disk) \cap (Items(disk') \cup Items(mem) \cup Items(prepared) \cup Items(failed) \cup inDrain) = {}
      BY <1>1, <3>2 DEF Disjoint
    <3>4. QED
      BY ZenonT(30), <1>1, <3>1, <3>2, <3>3
  <2>2. CASE TakeMem(g)
    <3>1. TakeFrom(g, mem, "taken") /\ mem' = Tail(mem) /\ UNCHANGED <<disk, prepared>>
      BY <2>2 DEF TakeMem
    <3>2. /\ Apart(mem') /\ HandsApart' /\ Head(mem) \cap Items(mem') = {}
          /\ Head(mem) \subseteq Items(mem) /\ Items(mem') \subseteq Items(mem)
          /\ InHand' \subseteq InHand \cup Head(mem)
      BY <1>1, <1>3, <1>4, <3>1
    <3>3. Head(mem) \cap (Items(disk) \cup Items(mem') \cup Items(prepared) \cup Items(failed) \cup inDrain) = {}
      BY <1>1, <3>2 DEF Disjoint
    <3>4. QED
      BY ZenonT(30), <1>1, <3>1, <3>2, <3>3
  <2>3. CASE TakePrepared(g)
    <3>1. TakeFrom(g, prepared, "send") /\ prepared' = Tail(prepared) /\ UNCHANGED <<disk, mem>>
      BY <2>3 DEF TakePrepared
    <3>2. /\ Apart(prepared') /\ HandsApart' /\ Head(prepared) \cap Items(prepared') = {}
          /\ Head(prepared) \subseteq Items(prepared) /\ Items(prepared') \subseteq Items(prepared)
          /\ InHand' \subseteq InHand \cup Head(prepared)
      BY <1>1, <1>3, <1>4, <3>1
    <3>3. Head(prepared) \cap (Items(disk) \cup Items(mem) \cup Items(prepared') \cup Items(failed) \cup inDrain) = {}
      BY <1>1, <3>2 DEF Disjoint
    <3>4. QED
      BY ZenonT(30), <1>1, <3>1, <3>2, <3>3
  <2>4. QED
    BY <2>1, <2>2, <2>3
<1>6. Disjoint(Items(disk'), Items(mem'), Items(prepared'), Items(failed'), inDrain', InHand')
  BY <1>1, <1>2, <1>5 DEF Disjoint
<1>7. Here' \subseteq accepted'
  BY <1>1, <1>2, <1>5 DEF Here
<1>8. QED
  BY <1>1, <1>2, <1>5, <1>6, <1>7 DEF Apartness

\* the first half of a batch goes to the queue, the hand keeps the rest
LEMMA SplitApart ==
    ASSUME AInv, NEW g \in Goroutines, SplitFirst(g)
    PROVE  Apartness'
<1> DEFINE half == FirstHalf(held[g])
<1>1. held[g] \in Batch /\ half \subseteq held[g] /\ held[g] \subseteq InHand /\ Shape /\ HandsApart
  BY HeldIsHere DEF FirstHalf, AInv, IInv, Apartness
<1>2. half \in Batch /\ held[g] \ half \in Batch
  BY <1>1 DEF Batch
<1>3. /\ PushDisk(half) /\ held' = [held EXCEPT ![g] = held[g] \ half]
      /\ UNCHANGED <<failed, inDrain>>
  BY <1>1 DEF SplitFirst, shutdown, Shape
<1> HIDE DEF half
<1>4. HandsApart' /\ InHand' \subseteq (InHand \ held[g]) \cup (held[g] \ half)
  BY ZenonT(30), <1>1, <1>2, <1>3, HandApart
<1>5. Items(disk) \cap half = {}
  BY <1>1, HandAlone
<1>6. Apart(disk') /\ Items(disk') \subseteq Items(disk) \cup half /\ UNCHANGED <<mem, prepared, accepted>>
  BY <1>2, <1>3, <1>5, PushesApart DEF PushDisk
<1>7. InHand' \subseteq InHand \ half /\ half \subseteq InHand
  BY <1>1, <1>4
<1>8. /\ Disjoint(Items(disk'), Items(mem'), Items(prepared'), Items(failed'), inDrain', InHand')
      /\ Here' \subseteq accepted'
  BY <1>3, <1>6, <1>7, HandMoves
<1>9. QED
  BY <1>3, <1>4, <1>6, <1>8 DEF Apartness, AInv

\* what a goroutine does in one step
LEMMA WorkApart ==
    ASSUME AInv, NEW g \in Goroutines, Work(g)
    PROVE  Apartness'
<1>1. CASE Exit(g) \/ Allow(g) \/ SendFails(g) \/ SendTooLarge(g) \/ (SendRefused(g) /\ g \in MemWorkers)
  <2>1. UNCHANGED <<disk, mem, prepared, failed, inDrain, held, accepted>>
    BY ZenonT(30), <1>1 DEF Exit, Allow, SendFails, SendTooLarge, SendRefused, queues, shutdown, history
  <2>2. QED
    BY <2>1, StillApart
<1>2. CASE Take(g) \/ TakeMem(g) \/ TakePrepared(g)
  BY <1>2, TakeApart
<1>3. CASE Deny(g) \/ HandStop(g) \/ SplitSecond(g) \/ Retry(g)
  <2>1. Again(g) /\ UNCHANGED shutdown /\ (PushDisk(held[g]) \/ PushMem(held[g]))
    BY <1>3 DEF Deny, HandStop, SplitSecond, Retry, PushBack
  <2>2. UNCHANGED <<failed, inDrain, accepted>>
    BY <2>1 DEF shutdown, PushDisk, PushMem
  <2>3. QED
    BY <2>1, <2>2, RoundApart
<1>4. CASE Hand(g)
  <2>1. /\ Again(g) /\ UNCHANGED <<failed, inDrain, accepted>>
        /\ prepared' = Append(prepared, held[g]) /\ UNCHANGED <<disk, mem>>
    BY <1>4 DEF Hand, shutdown, history
  <2>2. QED
    BY <2>1, RoundApart
<1>5. CASE SendOk(g) \/ (SendRefused(g) /\ g \notin MemWorkers)
  <2>1. Again(g) /\ UNCHANGED <<failed, inDrain, accepted>> /\ UNCHANGED <<disk, mem, prepared>>
    BY ZenonT(30), <1>5 DEF SendOk, SendRefused, queues, shutdown
  <2>2. QED
    BY SMTT(30), ZenonT(30), <2>1, RoundApart
<1>6. CASE SplitFirst(g)
  BY <1>6, SplitApart
<1>7. QED
  BY <1>1, <1>2, <1>3, <1>4, <1>5, <1>6 DEF Work

\* Close and the drain: a batch goes from the disk queue to the drain, from there
\* to failedEntries, and from there back to the disk queue
LEMMA CloseApart ==
    ASSUME AInv, Close \/ CloseStep
    PROVE  Apartness'
<1>1. /\ Apart(disk) /\ Apart(mem) /\ Apart(prepared) /\ Apart(failed) /\ HandsApart
      /\ Disjoint(Items(disk), Items(mem), Items(prepared), Items(failed), inDrain, InHand)
      /\ Items(disk) \cup Items(mem) \cup Items(prepared) \cup Items(failed) \cup inDrain \cup InHand \subseteq accepted
      /\ disk \in Seq(Batch) /\ failed \in Seq(Batch) /\ inDrain \in Batch
  BY SMTT(30), ZenonT(30) DEF AInv, Apartness, Here, IInv, Shape
<1>2. UNCHANGED <<mem, prepared, held, accepted>> /\ InHand' = InHand /\ HandsApart'
  BY ZenonT(30), <1>1 DEF Close, CloseStep, Joined, DrainPop, DrainOk, DrainFails, DrainEnds, Repush, CloseQueues,
         queues, history, InHand, HandsApart, PushDisk
<1>3. CASE Close \/ Joined \/ DrainEnds \/ CloseQueues
  <2>1. UNCHANGED <<disk, mem, prepared, failed, inDrain, held, accepted>>
    BY <1>3 DEF Close, Joined, DrainEnds, CloseQueues, queues, history
  <2>2. QED
    BY <2>1, StillApart
<1>4. CASE DrainPop \/ DrainOk \/ DrainFails \/ Repush
  <2>1. /\ Apart(disk') /\ Apart(failed')
        /\ Disjoint(Items(disk'), Items(mem), Items(prepared), Items(failed'), inDrain', InHand)
        /\ Items(disk') \cup Items(failed') \cup inDrain' \subseteq Items(disk) \cup Items(failed) \cup inDrain
    <3>1. CASE DrainPop
      <4>1. disk # <<>> /\ inDrain' = Head(disk) /\ disk' = Tail(disk) /\ failed' = failed
        BY <3>1 DEF DrainPop
      <4>2. /\ Apart(disk') /\ inDrain' \cap Items(disk') = {} /\ inDrain' \subseteq Items(disk)
            /\ Items(disk') \subseteq Items(disk)
        BY <1>1, <4>1, TailApart
      <4>3. QED
        BY <1>1, <4>1, <4>2 DEF Disjoint
    <3>2. CASE DrainOk
      <4>1. UNCHANGED <<disk, failed>> /\ inDrain' = {}
        BY <3>2 DEF DrainOk, queues
      <4>2. QED
        BY <1>1, <4>1 DEF Disjoint
    <3>3. CASE DrainFails
      <4>1. UNCHANGED disk /\ inDrain' = {} /\ failed' = Append(failed, inDrain)
        BY <3>3 DEF DrainFails, queues
      <4>2. Items(failed) \cap inDrain = {}
        BY <1>1 DEF Disjoint
      <4>3. Apart(failed') /\ Items(failed') = Items(failed) \cup inDrain
        BY <1>1, <4>1, <4>2, ItemsAppend, AppendApart
      <4>4. QED
        BY <1>1, <4>1, <4>3 DEF Disjoint
    <3>4. CASE Repush
      <4>1. failed # <<>> /\ PushDisk(Head(failed)) /\ failed' = Tail(failed) /\ inDrain' = inDrain
        BY <3>4 DEF Repush
      <4>2. /\ Apart(failed') /\ Head(failed) \cap Items(failed') = {} /\ Head(failed) \subseteq Items(failed)
            /\ Items(failed') \subseteq Items(failed) /\ Head(failed) \in Batch
        BY <1>1, <4>1, TailApart, ItemsHeadTail
      <4>3. Items(disk) \cap Head(failed) = {}
        BY <1>1, <4>2 DEF Disjoint
      <4>4. Apart(disk') /\ Items(disk') \subseteq Items(disk) \cup Head(failed)
        BY <4>1, <4>2, <4>3, PushesApart
      <4>5. QED
        BY <1>1, <4>1, <4>2, <4>4 DEF Disjoint
    <3>5. QED
      BY <1>4, <3>1, <3>2, <3>3, <3>4
  <2>2. Here' \subseteq accepted'
    BY SMTT(30), ZenonT(30), <1>1, <1>2, <2>1 DEF Here
  <2>3. QED
    BY <1>1, <1>2, <2>1, <2>2 DEF Apartness
<1>5. QED
  BY <1>3, <1>4 DEF CloseStep

\* one queue after another
LEMMA ConcatApart ==
    ASSUME NEW s \in Seq(Batch), NEW t \in Seq(Batch), Apart(s), Apart(t), Items(s) \cap Items(t) = {}
    PROVE  Apart(s \o t) /\ Items(s \o t) = Items(s) \cup Items(t) /\ s \o t \in Seq(Batch)
<1> DEFINE r == s \o t
<1>1. /\ r \in Seq(Batch) /\ Len(s) \in Nat /\ Len(t) \in Nat
      /\ DOMAIN r = 1..(Len(s) + Len(t)) /\ DOMAIN s = 1..Len(s) /\ DOMAIN t = 1..Len(t)
      /\ \A i \in 1..Len(s) : r[i] = s[i]
      /\ \A i \in (Len(s) + 1)..(Len(s) + Len(t)) : r[i] = t[i - Len(s)]
  BY ConcatProperties
<1> HIDE DEF r
<1>2. (\A i \in DOMAIN s : s[i] \subseteq Items(s)) /\ (\A i \in DOMAIN t : t[i] \subseteq Items(t))
  BY DEF Items
<1>3. \A i \in DOMAIN r : \/ i \in DOMAIN s /\ r[i] = s[i]
                          \/ i - Len(s) \in DOMAIN t /\ r[i] = t[i - Len(s)]
  BY <1>1
<1>4. Apart(r)
  <2> SUFFICES ASSUME NEW i \in DOMAIN r, NEW j \in DOMAIN r, i # j PROVE r[i] \cap r[j] = {}
    BY DEF Apart
  <2>1. i \in Nat /\ j \in Nat /\ i - Len(s) # j - Len(s)
    BY <1>1
  <2>2. CASE i \in DOMAIN s /\ r[i] = s[i] /\ j \in DOMAIN s /\ r[j] = s[j]
    BY <2>2 DEF Apart
  <2>3. CASE i \in DOMAIN s /\ r[i] = s[i] /\ j - Len(s) \in DOMAIN t /\ r[j] = t[j - Len(s)]
    BY <1>2, <2>3
  <2>4. CASE i - Len(s) \in DOMAIN t /\ r[i] = t[i - Len(s)] /\ j \in DOMAIN s /\ r[j] = s[j]
    BY <1>2, <2>4
  <2>5. CASE i - Len(s) \in DOMAIN t /\ r[i] = t[i - Len(s)] /\ j - Len(s) \in DOMAIN t /\ r[j] = t[j - Len(s)]
    BY <2>1, <2>5 DEF Apart
  <2>6. QED
    BY <1>3, <2>2, <2>3, <2>4, <2>5
<1>5. Items(r) \subseteq Items(s) \cup Items(t)
  <2>1. \A i \in DOMAIN r : r[i] \subseteq Items(s) \cup Items(t)
    BY <1>2, <1>3
  <2>2. QED
    BY <2>1 DEF Items
<1>6. Items(s) \cup Items(t) \subseteq Items(r)
  <2>1. \A i \in DOMAIN s : i \in DOMAIN r /\ s[i] = r[i]
    BY <1>1
  <2>2. \A i \in DOMAIN t : i + Len(s) \in DOMAIN r /\ t[i] = r[i + Len(s)]
    BY <1>1
  <2>3. QED
    BY <2>1, <2>2 DEF Items
<1>7. QED
  BY <1>1, <1>4, <1>5, <1>6 DEF r

LEMMA ApartIsOnePlace ==
    ASSUME AInv
    PROVE  OnePlace
<1>1. /\ Apart(disk) /\ Apart(mem) /\ Apart(prepared) /\ Apart(failed) /\ HandsApart
      /\ Disjoint(Items(disk), Items(mem), Items(prepared), Items(failed), inDrain, InHand)
      /\ disk \in Seq(Batch) /\ mem \in Seq(Batch) /\ prepared \in Seq(Batch)
      /\ failed \in Seq(Batch) /\ inDrain \in Batch
  BY DEF AInv, Apartness, IInv, Shape
<1> DEFINE d == <<inDrain>>
           p1 == disk \o mem
           p2 == p1 \o prepared
           p3 == p2 \o failed
           p4 == p3 \o d
<1>2. Apart(d) /\ Items(d) = inDrain /\ d \in Seq(Batch)
  <2>1. d \in Seq(Batch) /\ DOMAIN d = {1} /\ d[1] = inDrain
    BY <1>1
  <2>2. QED
    BY <2>1 DEF Apart, Items
<1> HIDE DEF d
<1>3. Apart(p1) /\ Items(p1) = Items(disk) \cup Items(mem) /\ p1 \in Seq(Batch)
  BY <1>1, ConcatApart DEF Disjoint
<1> HIDE DEF p1
<1>4. Apart(p2) /\ Items(p2) = Items(p1) \cup Items(prepared) /\ p2 \in Seq(Batch)
  <2>1. Items(p1) \cap Items(prepared) = {}
    BY <1>1, <1>3 DEF Disjoint
  <2>2. QED
    BY <1>1, <1>3, <2>1, ConcatApart
<1> HIDE DEF p2
<1>5. Apart(p3) /\ Items(p3) = Items(p2) \cup Items(failed) /\ p3 \in Seq(Batch)
  <2>1. Items(p2) \cap Items(failed) = {}
    BY <1>1, <1>3, <1>4 DEF Disjoint
  <2>2. QED
    BY <1>1, <1>4, <2>1, ConcatApart
<1> HIDE DEF p3
<1>6. Apart(p4) /\ Items(p4) = Items(p3) \cup inDrain /\ p4 \in Seq(Batch)
  <2>1. Items(p3) \cap Items(d) = {}
    BY <1>1, <1>2, <1>3, <1>4, <1>5 DEF Disjoint
  <2>2. QED
    BY <1>2, <1>5, <2>1, ConcatApart
<1>7. p4 = Places
  BY DEF p4, p3, p2, p1, d, Places
<1> HIDE DEF p4
<1>8. InHand \cap Items(p4) = {}
  BY <1>1, <1>3, <1>4, <1>5, <1>6 DEF Disjoint
<1>9. \A i, j \in 1..Len(p4) : i # j => p4[i] \cap p4[j] = {}
  <2>1. DOMAIN p4 = 1..Len(p4)
    BY <1>6
  <2>2. QED
    BY <1>6, <2>1, Zenon DEF Apart
<1>10. QED
  BY <1>1, <1>7, <1>8, <1>9 DEF OnePlace, HandsApart

LEMMA AInvStarts ==
    ASSUME Init
    PROVE  AInv
<1>1. Apart(<<>>) /\ Items(<<>>) = {}
  BY DEF Apart, Items
<1>2. InHand = {} /\ HandsApart
  BY DEF Init, InHand, HandsApart
<1>3. QED
  BY ZenonT(30), <1>1, <1>2, IInvStarts DEF Init, AInv, Apartness, Disjoint, Here

LEMMA AInvStays ==
    ASSUME AInv, [Next]_vars
    PROVE  AInv'
<1>1. IInv'
  BY IInvStays DEF AInv
<1>2. Apartness'
  <2>1. CASE UNCHANGED vars
    BY <2>1, StillApart DEF vars, queues, shutdown, history
  <2>2. CASE \E b \in Batches \cap conf.batches : ExportDisk(b) \/ ExportMem(b)
    BY <2>2, ExportApart
  <2>3. CASE \E g \in Goroutines : Work(g)
    BY <2>3, WorkApart
  <2>4. CASE Close \/ CloseStep
    BY <2>4, CloseApart
  <2>5. QED
    BY <2>1, <2>2, <2>3, <2>4 DEF Next, Step
<1>3. QED
  BY <1>1, <1>2 DEF AInv

\* A resource metric is in one place only, whatever is split, pushed back, handed
\* over or drained, and whatever arrives meanwhile.
THEOREM ExporterOnePlace == Spec => []OnePlace
<1>1. AInv => OnePlace
  BY ApartIsOnePlace
<1>2. QED
  BY AInvStarts, AInvStays, <1>1, PTL DEF Spec

-----------------------------------------------------------------------------
(* What Close leaves *)

Unified == Workers = Goroutines /\ ~conf.timesOut

\* With unified workers that Close waits for, none of them works once it drains,
\* and only the disk queue is in use; one that drops its oldest loses nothing.
Closing ==
    /\ closing # "no" => stop
    /\ closing \in {"no", "join", "drain", "repush", "closed"}
    /\ closing # "drain" => inDrain = {}
    /\ closing \notin {"drain", "repush"} => failed = <<>>
    /\ Unified => /\ closing \in {"drain", "repush", "closed"} => \A g \in Goroutines : pc[g] = "done"
                  /\ mem = <<>> /\ prepared = <<>>
                  /\ \A g \in Goroutines : pc[g] # "hand"
                  /\ conf.dropOldest => lost = {}

CInv == IInv /\ Closing

\* there are no others
LEMMA OnlyWorkers ==
    ASSUME Unified
    PROVE  MemWorkers = {} /\ Preparers = {} /\ Senders = {} /\ Tracked = Goroutines
<1>1. \A g \in Goroutines : conf.role[g] = "worker"
  BY DEF Unified, Workers
<1>2. MemWorkers = {} /\ Preparers = {} /\ Senders = {}
  BY <1>1 DEF MemWorkers, Preparers, Senders
<1>3. QED
  BY <1>2 DEF Unified, Tracked

\* a push onto a queue that is open and drops its oldest does not fail
LEMMA OpenTakes ==
    ASSUME NEW b, PushDisk(b), ~Closed, conf.dropOldest
    PROVE  lost' = lost
BY DEF PushDisk, NotTaken, DoesNotStore

LEMMA WorkCloses ==
    ASSUME CInv, NEW g \in Goroutines, Work(g), UNCHANGED conf
    PROVE  Closing'
<1>1. UNCHANGED <<stop, closing, inDrain, failed>>
  BY SMTT(30), ZenonT(30) DEF Work, Exit, Take, TakeMem, TakePrepared, Deny, Allow, Hand, HandStop, SendOk, SendFails,
         SendTooLarge, SendRefused, SplitFirst, SplitSecond, Retry, shutdown
<1>2. Unified' <=> Unified
  BY DEF Unified, Workers
<1>3. ASSUME Unified
      PROVE  /\ closing' \in {"drain", "repush", "closed"} => \A h \in Goroutines : pc'[h] = "done"
             /\ mem' = <<>> /\ prepared' = <<>>
             /\ \A h \in Goroutines : pc'[h] # "hand"
             /\ conf'.dropOldest => lost' = {}
  <2>1. g \notin MemWorkers /\ g \notin Preparers /\ g \notin Senders
    BY <1>3, OnlyWorkers
  <2>2. pc[g] # "hand" /\ mem = <<>> /\ prepared = <<>> /\ (conf.dropOldest => lost = {})
    BY <1>3 DEF CInv, Closing
  <2>3. pc[g] # "done"
    BY DEF Work, Exit, Take, TakeMem, TakePrepared, TakeFrom, Deny, Allow, Hand, HandStop, SendOk, SendFails,
           SendTooLarge, SendRefused, SplitFirst, SplitSecond, Retry
  <2>4. closing \notin {"drain", "repush", "closed"}
    BY <1>3, <2>3 DEF CInv, Closing
  <2> DEFINE Turns == \E w : pc' = [pc EXCEPT ![g] = w] /\ w # "hand"
  <2>5. Turns
    <3>1. CASE Exit(g) \/ Allow(g) \/ SendFails(g) \/ SendTooLarge(g) \/ SplitFirst(g)
      BY <2>1, <3>1 DEF Exit, Allow, SendFails, SendTooLarge, SplitFirst
    <3>2. CASE Take(g)
      <4>1. pc' = [pc EXCEPT ![g] = "taken"] /\ "taken" # "hand"
        BY <3>2 DEF Take, TakeFrom
      <4>2. QED
        BY <4>1, Zenon
    <3>3. Loop(g) => Turns
      BY ZenonT(30) DEF Loop
    <3> HIDE DEF Turns
    <3>4. CASE Deny(g) \/ SendOk(g) \/ SendRefused(g) \/ SplitSecond(g) \/ Retry(g)
      <4>1. Again(g)
        BY <2>1, <3>4 DEF Deny, SendOk, SendRefused, SplitSecond, Retry
      <4>2. QED
        BY <3>3, <4>1 DEF Again
    <3>5. QED
      BY ZenonT(30), <2>1, <2>2, <3>1, <3>2, <3>4 DEF Work, TakeMem, TakePrepared, Hand, HandStop
  <2>6. \A h \in Goroutines : pc'[h] # "hand"
    BY <1>3, <2>5 DEF CInv, Closing, IInv, Shape
  <2>7. UNCHANGED <<mem, prepared>> /\ (lost' = lost \/ \E b : PushDisk(b))
    <3>1. CASE Exit(g) \/ Allow(g) \/ SendFails(g) \/ SendTooLarge(g) \/ SendOk(g) \/ SendRefused(g) \/ Take(g)
      BY ZenonT(30), <3>1 DEF Exit, Allow, SendFails, SendTooLarge, SendOk, SendRefused, Take, queues, history
    <3>2. CASE Deny(g) \/ SplitFirst(g) \/ SplitSecond(g) \/ Retry(g)
      <4>1. \E b : PushDisk(b)
        BY <2>1, <3>2 DEF Deny, SplitFirst, SplitSecond, Retry, PushBack
      <4>2. QED
        BY <4>1 DEF PushDisk
    <3>3. QED
      BY ZenonT(30), <2>1, <2>2, <3>1, <3>2 DEF Work, TakeMem, TakePrepared, Hand, HandStop
  <2>8. conf.dropOldest => lost' = lost
    BY <2>4, <2>7, OpenTakes DEF Closed
  <2>9. QED
    BY <1>1, <2>2, <2>4, <2>6, <2>7, <2>8
<1>4. QED
  BY SMTT(30), ZenonT(30), <1>1, <1>2, <1>3 DEF CInv, Closing

LEMMA CloseCloses ==
    ASSUME CInv, Close \/ CloseStep, UNCHANGED conf
    PROVE  Closing'
<1>1. Unified' <=> Unified
  BY DEF Unified, Workers
<1>2. UNCHANGED <<mem, prepared, pc>>
  BY DEF Close, CloseStep, Joined, DrainPop, DrainOk, DrainFails, DrainEnds, Repush, CloseQueues,
         queues, PushDisk
<1>3. /\ closing' # "no" => stop'
      /\ closing' \in {"no", "join", "drain", "repush", "closed"}
      /\ closing' # "drain" => inDrain' = {}
      /\ closing' \notin {"drain", "repush"} => failed' = <<>>
  BY DEF Close, CloseStep, Joined, DrainPop, DrainOk, DrainFails, DrainEnds, Repush, CloseQueues,
         CInv, Closing
<1>4. ASSUME Unified, closing' \in {"drain", "repush", "closed"}, NEW g \in Goroutines
      PROVE  pc[g] = "done"
  <2>1. CASE Joined
    BY <1>4, <2>1, OnlyWorkers DEF Joined, Unified
  <2>2. CASE ~Joined
    <3>1. closing \in {"drain", "repush", "closed"}
      BY <1>4, <2>2 DEF Close, CloseStep, DrainPop, DrainOk, DrainFails, DrainEnds, Repush, CloseQueues
    <3>2. QED
      BY <1>4, <3>1 DEF CInv, Closing
  <2>3. QED
    BY <2>1, <2>2
<1>5. ASSUME conf.dropOldest
      PROVE  lost' = lost
  <2>1. CASE Repush
    <3>1. ~Closed /\ PushDisk(Head(failed))
      BY <2>1 DEF Repush, Closed
    <3>2. QED
      BY <1>5, <3>1, OpenTakes
  <2>2. CASE ~Repush
    BY <2>2 DEF Close, CloseStep, Joined, DrainPop, DrainOk, DrainFails, DrainEnds, CloseQueues, history
  <2>3. QED
    BY <2>1, <2>2
<1>6. QED
  BY <1>1, <1>2, <1>3, <1>4, <1>5 DEF CInv, Closing

LEMMA CInvStays ==
    ASSUME CInv, [Next]_vars
    PROVE  CInv'
<1>1. IInv'
  BY IInvStays DEF CInv
<1>2. Closing'
  <2>1. CASE UNCHANGED vars
    BY <2>1 DEF vars, queues, shutdown, history, CInv, Closing, Unified, Workers
  <2>2. CASE UNCHANGED conf /\ \E b \in Batches \cap conf.batches : ExportDisk(b) \/ ExportMem(b)
    <3>1. /\ Unified' <=> Unified
          /\ UNCHANGED <<conf, stop, closing, inDrain, failed, pc, prepared>>
      BY ZenonT(30), <2>2 DEF Unified, Workers, ExportDisk, ExportMem, shutdown
    <3>a. conf.dropOldest => lost' = lost
      BY <2>2 DEF ExportDisk, ExportMem, NotTaken, DoesNotStore
    <3>2. Unified => mem' = mem
      BY ZenonT(30), <2>2, OnlyWorkers DEF ExportDisk, ExportMem
    <3>3. QED
      BY SMTT(30), ZenonT(30), <3>1, <3>a, <3>2 DEF CInv, Closing
  <2>3. CASE UNCHANGED conf /\ \E g \in Goroutines : Work(g)
    BY <2>3, WorkCloses
  <2>4. CASE UNCHANGED conf /\ (Close \/ CloseStep)
    BY <2>4, CloseCloses
  <2>5. QED
    BY <2>1, <2>2, <2>3, <2>4 DEF Next, Step
<1>3. QED
  BY <1>1, <1>2 DEF CInv

\* With unified workers that Close waits for, what was accepted is delivered, dropped
\* by a rule or on disk when Close returns; only a full queue under drop_newest may
\* have left a batch out, on its way in or back.
THEOREM ExporterCloseKeepsData == Spec => []UnifiedCloseKeepsData
<1>1. Init => CInv
  <2> SUFFICES ASSUME Init PROVE CInv
    OBVIOUS
  <2>1. Closing
    BY DEF Init, Closing
  <2>2. QED
    BY <2>1, IInvStarts DEF CInv
<1>2. CInv => UnifiedCloseKeepsData
  <2> SUFFICES ASSUME CInv, Unified, Closed
               PROVE  accepted \subseteq Items(disk) \cup delivered \cup dropped
                                          \cup (IF conf.dropOldest THEN {} ELSE lost)
    BY DEF UnifiedCloseKeepsData, Unified
  <2>1. /\ \A g \in Goroutines : held[g] = {}
        /\ mem = <<>> /\ prepared = <<>> /\ failed = <<>> /\ inDrain = {}
        /\ conf.dropOldest => lost = {}
    BY DEF CInv, Closing, Closed, IInv, HandsFree
  <2>2. InHand = {} /\ Items(<<>>) = {}
    BY <2>1 DEF InHand, Items
  <2>3. accepted \subseteq Items(disk) \cup delivered \cup dropped \cup lost
    BY <2>1, <2>2 DEF CInv, IInv, NothingForgotten, Here
  <2>4. QED
    BY <2>1, <2>3
<1>3. QED
  BY <1>1, <1>2, CInvStays, PTL DEF Spec

=============================================================================
