--------------------------- MODULE ObserverProofs ---------------------------
(***************************************************************************)
(* Proofs about the XFRM observer, for any configurations, plan length and *)
(* buffer sizes, any number of transactions, foreign lines and faults.     *)
(***************************************************************************)
EXTENDS Observer, SequenceTheorems, TLAPS

-----------------------------------------------------------------------------
(* The lines.  Each line in the buffer or the pipe is where its number     *)
(* says, counted from the first line that was not trimmed.                 *)
Lines == [n : Nat, act : {"apply", "delete"}]

Numbered ==
    /\ events \in Seq(Lines) /\ pipe \in Seq(Lines) /\ cut \in Nat /\ printed \in Nat
    /\ cut + Len(events) + Len(pipe) = printed
    /\ \A k \in 1..Len(events) : events[k].n = cut + k
    /\ \A k \in 1..Len(pipe) : pipe[k].n = cut + Len(events) + k
    /\ Len(events) <= Cap

(* A transaction remembers the length of the buffer and, for the proof,    *)
(* the number of its last line.                                            *)
Transactions == [act : {"none", "apply", "delete", "undo"}, todo : 0..NCommands, mark : Nat,
                 after : Nat, late : BOOLEAN]

MarkInv ==
    /\ tx \in Transactions
    /\ tx.act = "none" => tx = NoTx
    /\ tx.act # "none" => tx.mark <= tx.after /\ tx.after <= cut + Len(events) /\ tx.after <= cut + tx.mark

LineInv == Numbered /\ MarkInv

LEMMA ConstantTypes ==
    NCommands \in Nat \ {0} /\ Cap \in Nat \ {0} /\ Keep \in Nat \ {0} /\ Keep <= Cap
BY ObserverAssumption

LEMMA NoTxType == NoTx \in Transactions /\ NoTx.act = "none" /\ NoTx.todo = 0
BY ConstantTypes DEF NoTx, Transactions

LEMMA LineInit == Init => LineInv
BY NoTxType, ConstantTypes DEF Init, LineInv, Numbered, MarkInv

(* A line is printed: it goes to the end of the pipe. *)
LEMMA LinePrinted ==
    ASSUME Numbered, NEW act \in {"apply", "delete"}, PrintLine(act), UNCHANGED <<events, cut>>
    PROVE  Numbered'
<1>1. CASE UNCHANGED <<pipe, printed>>
  BY <1>1 DEF Numbered
<1>2. CASE pipe' = Append(pipe, [n |-> printed + 1, act |-> act]) /\ printed' = printed + 1
  <2>1. [n |-> printed + 1, act |-> act] \in Lines
    BY DEF Numbered, Lines
  <2>2. pipe' \in Seq(Lines) /\ Len(pipe') = Len(pipe) + 1 /\ pipe'[Len(pipe) + 1].n = printed + 1
        /\ \A k \in 1..Len(pipe) : pipe'[k] = pipe[k]
    BY <1>2, <2>1 DEF Numbered
  <2>3. Len(pipe) \in Nat /\ Len(events) \in Nat /\ printed = cut + Len(events) + Len(pipe) /\ cut \in Nat
    BY DEF Numbered
  <2>4. ASSUME NEW k \in 1..Len(pipe') PROVE pipe'[k].n = cut + Len(events) + k
    <3>1. CASE k = Len(pipe) + 1
      BY <2>2, <2>3, <3>1
    <3>2. CASE k \in 1..Len(pipe)
      BY <2>2, <3>2 DEF Numbered
    <3> QED
      BY <2>2, <2>3, <3>1, <3>2
  <2> QED
    BY <1>2, <2>2, <2>3, <2>4 DEF Numbered
<1> QED
  BY <1>1, <1>2 DEF PrintLine

(* A line is read and the buffer cut: the marks stay where they are. *)
LEMMA LineRead ==
    ASSUME LineInv, Read
    PROVE  Numbered' /\ cut' + Len(events') = cut + Len(events) + 1 /\ cut <= cut'
<1> DEFINE longer == Append(events, Head(pipe))
           over == Excess(Len(longer))
<1>0. /\ events \in Seq(Lines) /\ pipe \in Seq(Lines) /\ cut \in Nat /\ printed \in Nat
      /\ cut + Len(events) + Len(pipe) = printed /\ Len(events) <= Cap
      /\ \A k \in 1..Len(events) : events[k].n = cut + k
      /\ \A k \in 1..Len(pipe) : pipe[k].n = cut + Len(events) + k
  BY DEF LineInv, Numbered
<1>1. pipe # <<>> /\ pipe' = Tail(pipe) /\ events' = SubSeq(longer, over + 1, Len(longer))
      /\ cut' = cut + over /\ printed' = printed
  BY DEF Read
<1>2. Len(pipe) \in Nat /\ Len(pipe) >= 1 /\ Len(events) \in Nat /\ Head(pipe) = pipe[1] /\ Head(pipe) \in Lines
  BY <1>0, <1>1
<1>3. /\ longer \in Seq(Lines) /\ Len(longer) = Len(events) + 1
      /\ \A k \in 1..Len(longer) : longer[k].n = cut + k
  <2>1. longer \in Seq(Lines) /\ Len(longer) = Len(events) + 1 /\ longer[Len(events) + 1] = Head(pipe)
        /\ \A k \in 1..Len(events) : longer[k] = events[k]
    BY <1>0, <1>2
  <2>2. Head(pipe).n = cut + Len(events) + 1
    BY <1>0, <1>2
  <2>3. ASSUME NEW k \in 1..Len(longer) PROVE longer[k].n = cut + k
    <3>1. CASE k = Len(events) + 1
      BY <1>0, <1>2, <2>1, <2>2, <3>1
    <3>2. CASE k \in 1..Len(events)
      BY <1>0, <2>1, <3>2
    <3> QED
      BY <1>2, <2>1, <3>1, <3>2
  <2> QED
    BY <2>1, <2>3
<1>4. over \in 0..Len(longer) /\ Len(longer) - over <= Cap
  BY <1>0, <1>2, <1>3, ConstantTypes DEF Excess
<1> HIDE DEF longer, over
<1>5. events' \in Seq(Lines) /\ Len(events') = Len(longer) - over
      /\ \A k \in 1..Len(events') : events'[k] = longer[over + k]
  <2>1. over + 1 \in 1..(Len(longer) + 1) /\ Len(longer) \in Nat /\ over \in Nat
    BY <1>2, <1>3, <1>4
  <2> QED
    BY <1>1, <1>3, <2>1, SubSeqProperties
<1>6. pipe' \in Seq(Lines) /\ Len(pipe') = Len(pipe) - 1 /\ \A k \in 1..Len(pipe') : pipe'[k] = pipe[k + 1]
  BY <1>0, <1>1, <1>2
<1>7. /\ cut' \in Nat /\ cut <= cut' /\ cut' + Len(events') = cut + Len(events) + 1 /\ Len(events') \in Nat
      /\ Len(events') <= Cap
  <2>1. over \in Nat /\ Len(events') = Len(events) + 1 - over
    BY <1>2, <1>3, <1>4, <1>5
  <2>2. Len(events') \in Nat /\ Len(events') <= Cap
    BY <1>3, <1>4, <1>5, <2>1
  <2>3. cut \in Nat /\ cut' = cut + over /\ Len(events) \in Nat
    BY <1>0, <1>1, <1>2
  <2>4. cut + over + (Len(events) + 1 - over) = cut + Len(events) + 1
    BY <2>1, <2>3
  <2> QED
    BY <2>1, <2>2, <2>3, <2>4
<1>8. ASSUME NEW k \in 1..Len(events') PROVE events'[k].n = cut' + k
  <2>1. over + k \in 1..Len(longer) /\ over \in Nat /\ k \in Nat
    BY <1>2, <1>3, <1>4, <1>5
  <2>2. events'[k].n = cut + (over + k)
    BY <1>3, <1>5, <2>1
  <2> QED
    BY <1>0, <1>1, <2>1, <2>2
<1>9. ASSUME NEW k \in 1..Len(pipe') PROVE pipe'[k].n = cut' + Len(events') + k
  <2>1. k + 1 \in 1..Len(pipe) /\ k \in Nat
    BY <1>2, <1>6
  <2>2. pipe'[k].n = cut + Len(events) + (k + 1)
    BY <1>0, <1>6, <2>1
  <2> QED
    BY <1>0, <1>2, <1>7, <2>1, <2>2
<1>10. cut' + Len(events') + Len(pipe') = printed'
  <2>1. cut' + Len(events') = cut + Len(events) + 1 /\ Len(pipe') = Len(pipe) - 1 /\ printed' = printed
    BY <1>1, <1>6, <1>7
  <2>2. cut \in Nat /\ Len(events) \in Nat /\ Len(pipe) \in Nat /\ cut + Len(events) + Len(pipe) = printed
    BY <1>0, <1>2
  <2> QED
    BY <2>1, <2>2
<1> QED
  BY <1>0, <1>1, <1>5, <1>6, <1>7, <1>8, <1>9, <1>10 DEF Numbered

LEMMA LineNext == LineInv /\ [Next]_vars => LineInv'
<1> SUFFICES ASSUME LineInv, [Next]_vars PROVE LineInv'
  OBVIOUS
<1>1. CASE Launch \/ Loaded \/ MonitorExits \/ WaitReady \/ UNCHANGED vars
  BY <1>1 DEF Launch, Loaded, MonitorExits, WaitReady, Start, vars, LineInv, Numbered, MarkInv
<1>2. ASSUME NEW act \in {"apply", "delete"}, Foreign(act) PROVE LineInv'
  BY <1>2, LinePrinted DEF Foreign, LineInv, MarkInv
<1>3. ASSUME NEW act \in {"apply", "delete"}, Begin(act) PROVE LineInv'
  <2>1. Len(events) \in Nat /\ cut \in Nat
    BY DEF LineInv, Numbered
  <2>2. tx' \in Transactions
    BY <1>3, <2>1, ConstantTypes DEF Begin, Transactions
  <2> QED
    BY <1>3, <2>1, <2>2 DEF Begin, LineInv, Numbered, MarkInv
<1>4. CASE Read
  <2>1. tx' = tx
    BY <1>4 DEF Read
  <2>2. cut \in Nat /\ cut' \in Nat /\ Len(events) \in Nat /\ Len(events') \in Nat
    BY <1>4, LineRead DEF LineInv, Numbered
  <2>3. MarkInv'
    BY <1>4, <2>1, <2>2, LineRead DEF LineInv, MarkInv, Transactions
  <2> QED
    BY <1>4, <2>3, LineRead DEF LineInv
<1>5. CASE Command
  <2>1. tx' = [tx EXCEPT !.todo = @ - 1] /\ tx.todo > 0
    BY <1>5 DEF Command
  <2>2. tx.act # "none" /\ tx \in Transactions
    BY <2>1, NoTxType DEF LineInv, MarkInv
  <2>3. tx' \in Transactions /\ tx'.act = tx.act /\ tx'.mark = tx.mark /\ tx'.after = tx.after
    BY <2>1, <2>2, ConstantTypes DEF Transactions
  <2>4. Numbered'
    <3>1. Printed(tx.act) \in {"apply", "delete"} /\ UNCHANGED <<events, cut>>
      BY <1>5 DEF Printed, Command
    <3>2. CASE PrintLine(Printed(tx.act))
      BY <3>1, <3>2, LinePrinted DEF LineInv
    <3>3. CASE UNCHANGED <<pipe, printed>>
      BY <3>1, <3>3 DEF LineInv, Numbered
    <3> QED
      BY <1>5, <3>2, <3>3 DEF Command
  <2> QED
    BY <1>5, <2>2, <2>3, <2>4 DEF Command, LineInv, MarkInv
<1>6. CASE DeleteFails
  <2>1. tx' \in Transactions /\ tx'.act = tx.act /\ tx'.mark = tx.mark /\ tx'.after = tx.after
        /\ tx.act = "delete"
    BY <1>6, ConstantTypes DEF DeleteFails, LineInv, MarkInv, Transactions
  <2> QED
    BY <1>6, <2>1 DEF DeleteFails, LineInv, MarkInv, Numbered
<1>7. CASE Deadline
  <2>1. tx' \in Transactions /\ tx'.act = tx.act /\ tx'.mark = tx.mark /\ tx'.after = tx.after
        /\ tx.act # "none"
    BY <1>7, ConstantTypes DEF Deadline, LineInv, MarkInv, Transactions
  <2> QED
    BY <1>7, <2>1 DEF Deadline, LineInv, MarkInv, Numbered
<1>8. CASE Observe
  <2>1. \/ tx' = NoTx
        \/ tx' = [tx EXCEPT !.act = "undo", !.todo = NCommands] /\ tx.act # "none"
    BY <1>8 DEF Observe
  <2>2. UNCHANGED <<events, pipe, cut, printed>>
    BY <1>8 DEF Observe
  <2>3. CASE tx' = NoTx
    BY <2>2, <2>3, NoTxType DEF LineInv, MarkInv, Numbered
  <2>4. CASE tx' = [tx EXCEPT !.act = "undo", !.todo = NCommands] /\ tx.act # "none"
    <3>0. tx \in Transactions /\ NCommands \in 0..NCommands
      BY ConstantTypes DEF LineInv, MarkInv
    <3>1. tx' \in Transactions /\ tx'.act = "undo" /\ tx'.mark = tx.mark /\ tx'.after = tx.after
      BY <2>4, <3>0 DEF Transactions
    <3> QED
      BY <2>2, <2>4, <3>1 DEF LineInv, MarkInv, Numbered
  <2> QED
    BY <2>1, <2>3, <2>4
<1>9. CASE Undone
  BY <1>9, NoTxType DEF Undone, LineInv, MarkInv, Numbered
<1> QED
  BY <1>1, <1>2, <1>3, <1>4, <1>5, <1>6, <1>7, <1>8, <1>9 DEF Next

LEMMA LineInvariance == Spec => []LineInv
BY LineInit, LineNext, PTL DEF Spec

-----------------------------------------------------------------------------
(* What an observation sees of the buffer. *)
LEMMA SeenAfterMark ==
    ASSUME LineInv, tx.act # "none"
    PROVE  LET es == eventsSince(tx.mark)
           IN  /\ \A n \in DOMAIN es : es[n].n \in (tx.after + 1)..(cut + Len(events))
               /\ cut = tx.after - tx.mark => Len(es) = cut + Len(events) - tx.after
<1> USE DEF LineInv, Numbered, MarkInv
<1> DEFINE es == eventsSince(tx.mark)
<1>1. /\ tx.mark \in Nat /\ tx.after \in Nat /\ Len(events) \in Nat /\ cut \in Nat
      /\ tx.mark <= tx.after /\ tx.after <= cut + Len(events) /\ tx.after <= cut + tx.mark
  BY DEF Transactions
<1>2. CASE tx.mark > Len(events)
  <2>1. es = SubSeq(events, Len(events) + 1, Len(events))
    BY <1>2 DEF eventsSince
  <2>2. es = <<>>
    BY <1>1, <2>1
  <2> QED
    BY <1>1, <1>2, <2>2
<1>3. CASE ~(tx.mark > Len(events))
  <2>1. es = SubSeq(events, tx.mark + 1, Len(events))
    BY <1>3 DEF eventsSince
  <2>2. Len(es) = Len(events) - tx.mark /\ DOMAIN es = 1..(Len(events) - tx.mark)
        /\ \A n \in 1..(Len(events) - tx.mark) : es[n] = events[tx.mark + n]
    <3>1. tx.mark + 1 \in Int /\ Len(events) \in Int /\ Len(events) >= tx.mark
      BY <1>1, <1>3
    <3>2. \A i \in (tx.mark + 1)..Len(events) : events[i] \in Lines
      BY <1>1
    <3>3. /\ es \in Seq(Lines)
          /\ Len(es) = IF tx.mark + 1 <= Len(events) THEN Len(events) - (tx.mark + 1) + 1 ELSE 0
          /\ \A i \in 1..(Len(events) - (tx.mark + 1) + 1) : es[i] = events[(tx.mark + 1) + i - 1]
      BY <2>1, <3>1, <3>2, SubSeqProperties
    <3>4. Len(es) = Len(events) - tx.mark /\ DOMAIN es = 1..Len(es)
      BY <1>1, <3>1, <3>3
    <3>5. ASSUME NEW n \in 1..(Len(events) - tx.mark) PROVE es[n] = events[tx.mark + n]
      <4>1. n \in 1..(Len(events) - (tx.mark + 1) + 1) /\ (tx.mark + 1) + n - 1 = tx.mark + n
        BY <1>1
      <4> QED
        BY <3>3, <4>1
    <3> QED
      BY <3>4, <3>5
  <2>3. ASSUME NEW n \in 1..(Len(events) - tx.mark)
        PROVE es[n].n = cut + (tx.mark + n) /\ es[n].n \in (tx.after + 1)..(cut + Len(events))
    <3>1. tx.mark + n \in 1..Len(events) /\ n \in Nat /\ n >= 1
      BY <1>1, <1>3
    <3>2. es[n].n = cut + (tx.mark + n)
      BY <2>2, <3>1
    <3> QED
      BY <1>1, <1>3, <3>1, <3>2
  <2>4. cut = tx.after - tx.mark => Len(es) = cut + Len(events) - tx.after
    BY <1>1, <1>3, <2>2
  <2> QED
    BY <2>2, <2>3, <2>4
<1> QED
  BY <1>2, <1>3

LEMMA WindowNext == LineInv /\ WindowAfterMark /\ [Next]_vars => WindowAfterMark'
<1> SUFFICES ASSUME LineInv, WindowAfterMark, [Next]_vars PROVE WindowAfterMark'
  OBVIOUS
<1>1. CASE last' = last
  BY <1>1 DEF WindowAfterMark
<1>2. CASE Observe
  <2>1. tx.act # "none"
    BY <1>2 DEF Observe
  <2>2. /\ last'.after = tx.after /\ last'.upto = cut + Len(events)
        /\ \/ last'.seen = <<>> /\ last'.kept = FALSE
           \/ last'.seen = eventsSince(tx.mark) /\ (last'.kept => cut = tx.after - tx.mark)
    BY <1>2 DEF Observe
  <2>3. CASE last'.seen = <<>> /\ last'.kept = FALSE
    BY <2>3 DEF WindowAfterMark
  <2>4. CASE last'.seen = eventsSince(tx.mark) /\ (last'.kept => cut = tx.after - tx.mark)
    <3>1. /\ \A n \in DOMAIN last'.seen : last'.seen[n].n \in (tx.after + 1)..(cut + Len(events))
          /\ cut = tx.after - tx.mark => Len(last'.seen) = cut + Len(events) - tx.after
      BY <2>1, <2>4, SeenAfterMark
    <3>2. \A n \in DOMAIN last'.seen : last'.seen[n].n \in (last'.after + 1)..last'.upto
      BY <2>2, <3>1
    <3>3. last'.kept => Len(last'.seen) = last'.upto - last'.after
      <4>1. SUFFICES ASSUME last'.kept PROVE Len(last'.seen) = last'.upto - last'.after
        OBVIOUS
      <4>2. cut = tx.after - tx.mark
        BY <2>4, <4>1
      <4>3. Len(last'.seen) = cut + Len(events) - tx.after
        BY <3>1, <4>2
      <4>4. last'.after = tx.after /\ last'.upto = cut + Len(events)
        BY <2>2
      <4>5. cut \in Nat /\ Len(events) \in Nat /\ tx.after \in Nat
        BY DEF LineInv, Numbered, MarkInv, Transactions
      <4> QED
        BY <4>3, <4>4, <4>5
    <3> QED
      BY <3>2, <3>3 DEF WindowAfterMark
  <2> QED
    BY <2>2, <2>3, <2>4
<1> QED
  BY <1>1, <1>2 DEF Next, Launch, Loaded, MonitorExits, WaitReady, Start, Foreign, Begin, Read, Command,
     DeleteFails, Deadline, Undone, vars

(* However often the buffer was cut in between, an observation holds only  *)
(* lines read after its transaction's mark, and all of them if it was not  *)
(* cut (mark, eventsSince, readEvents).                                    *)
THEOREM WindowIsAfterMark == Spec => []WindowAfterMark
<1>1. Init => WindowAfterMark
  BY DEF Init, WindowAfterMark, NoObservation
<1> QED
  BY <1>1, WindowNext, LineInvariance, PTL DEF Spec

-----------------------------------------------------------------------------
(* The start-up, the modes, the table and the kernel. *)
StartInv ==
    /\ pep \in {"starting", "up", "failed"} /\ mode \in {"posthoc", "hybrid", "ebpf"}
    /\ pep # "up" => tx = NoTx /\ kern = {} /\ ~table
    /\ kern \subseteq 1..NCommands
    /\ tx.act = "undo" => ~healthy

ObserverInv == StartInv /\ TableFollowsKernel /\ NeverWithoutProbes

LEMMA ObserverInit == Init => ObserverInv
BY ObserverAssumption
   DEF Init, ObserverInv, StartInv, TableFollowsKernel, NeverWithoutProbes, NoTx

LEMMA StartUp ==
    ASSUME ObserverInv, Launch \/ Loaded \/ MonitorExits \/ WaitReady
    PROVE  ObserverInv'
<1> USE DEF ObserverInv
<1>1. CASE Launch \/ Loaded \/ MonitorExits
  <2>1. UNCHANGED <<pep, mode, tx, kern, table, healthy>>
    BY <1>1 DEF Launch, Loaded, MonitorExits
  <2>2. ready => ready'
    BY <1>1, Zenon DEF Launch, Loaded, MonitorExits
  <2>3. StartInv' /\ TableFollowsKernel'
    BY <2>1 DEF StartInv, TableFollowsKernel
  <2>4. NeverWithoutProbes'
    BY <2>1, <2>2, Zenon DEF NeverWithoutProbes
  <2> QED
    BY <2>3, <2>4
<1>2. CASE WaitReady
  <2>1. pep = "starting" /\ pep' \in {"up", "failed"} /\ UNCHANGED <<ready, tx, kern, table, healthy>>
    BY <1>2 DEF WaitReady, Start
  <2>2. mode' \in {mode, "posthoc"} /\ (pep' = "up" => ready \/ mode' = "posthoc")
    BY <1>2 DEF WaitReady, Start, FallbackMode
  <2> QED
    BY <2>1, <2>2 DEF StartInv, TableFollowsKernel, NeverWithoutProbes, NoTx
<1> QED
  BY <1>1, <1>2

(* The observation that decides is the lookup, except in mode "ebpf". *)
LEMMA ObserveFollows ==
    ASSUME LineInv, ObserverInv, Observe
    PROVE  ObserverInv'
<1> USE DEF ObserverInv
<1> DEFINE es == IF mode = "posthoc" THEN <<>> ELSE eventsSince(tx.mark)
           matched == mode # "posthoc" /\ Len(OfAction(es, tx.act)) >= MinEvents
           good == MeetsProfile(Exact(tx.act), matched)
<1>1. /\ tx.act \in {"apply", "delete"} /\ UNCHANGED <<pep, mode, ready, kern>>
      /\ healthy' = (healthy /\ good)
      /\ table' = IF good THEN tx.act = "apply" ELSE table
      /\ tx' = IF tx.act = "apply" /\ ~good THEN [tx EXCEPT !.act = "undo", !.todo = NCommands] ELSE NoTx
  BY DEF Observe
<1>2. good /\ mode # "ebpf" => Exact(tx.act)
  BY DEF MeetsProfile, Outcome
<1> HIDE DEF good
<1>3. pep = "up"
  BY <1>1, NoTxType DEF StartInv
<1>4. tx'.act = "undo" => ~good
  BY <1>1, NoTxType
<1>5. StartInv'
  BY <1>1, <1>3, <1>4 DEF StartInv
<1>6. TableFollowsKernel'
  <2> SUFFICES ASSUME tx' = NoTx, mode' # "ebpf", healthy'
               PROVE (table' => kern' = 1..NCommands) /\ (~table' => kern' = {})
    BY DEF TableFollowsKernel
  <2>1. good
    BY <1>1
  <2>2. Exact(tx.act)
    BY <1>1, <1>2, <2>1
  <2> QED
    BY <1>1, <2>1, <2>2 DEF Exact
<1> QED
  BY <1>1, <1>5, <1>6 DEF NeverWithoutProbes

LEMMA ObserverNext == LineInv /\ ObserverInv /\ [Next]_vars => ObserverInv'
<1> SUFFICES ASSUME LineInv, ObserverInv, [Next]_vars PROVE ObserverInv'
  OBVIOUS
<1> USE DEF ObserverInv
<1>1. ASSUME NEW act, Foreign(act) PROVE ObserverInv'
  BY <1>1 DEF Foreign, StartInv, TableFollowsKernel, NeverWithoutProbes
<1>2. ASSUME NEW act \in {"apply", "delete"}, Begin(act) PROVE ObserverInv'
  <2>1. pep = "up" /\ tx'.act = act /\ UNCHANGED <<pep, mode, ready, kern, table, healthy>>
    BY <1>2 DEF Begin
  <2> QED
    BY <2>1, NoTxType DEF StartInv, TableFollowsKernel, NeverWithoutProbes
<1>3. CASE Read \/ UNCHANGED vars
  <2>1. UNCHANGED <<pep, mode, ready, tx, kern, table, healthy>>
    BY <1>3 DEF Read, vars
  <2> QED
    BY <2>1 DEF StartInv, TableFollowsKernel, NeverWithoutProbes
<1>4. CASE Command
  <2>1. tx.todo > 0 /\ tx' = [tx EXCEPT !.todo = @ - 1] /\ kern' = Effect(tx.act, tx.todo)
        /\ UNCHANGED <<pep, mode, ready, table, healthy>>
    BY <1>4 DEF Command
  <2>2. tx \in Transactions /\ tx # NoTx /\ tx.act # "none" /\ tx'.act = tx.act
    BY <2>1, NoTxType DEF LineInv, MarkInv, Transactions
  <2>3. kern' \subseteq 1..NCommands
    BY <2>1, <2>2, ConstantTypes DEF Effect, StartInv, Transactions
  <2> QED
    BY <2>1, <2>2, <2>3, NoTxType DEF StartInv, TableFollowsKernel, NeverWithoutProbes
<1>5. CASE DeleteFails
  <2>1. tx.act = "delete" /\ tx'.act = "delete" /\ UNCHANGED <<pep, mode, ready, kern, table, healthy>>
    BY <1>5 DEF DeleteFails, LineInv, MarkInv, Transactions
  <2> QED
    BY <2>1, NoTxType DEF StartInv, TableFollowsKernel, NeverWithoutProbes
<1>6. CASE Deadline
  <2>1. tx.act \in {"apply", "delete"} /\ tx'.act = tx.act /\ UNCHANGED <<pep, mode, ready, kern, table, healthy>>
    BY <1>6 DEF Deadline, LineInv, MarkInv, Transactions
  <2> QED
    BY <2>1, NoTxType DEF StartInv, TableFollowsKernel, NeverWithoutProbes
<1>7. CASE Undone
  BY <1>7, NoTxType DEF Undone, StartInv, TableFollowsKernel, NeverWithoutProbes
<1> QED
  BY <1>1, <1>2, <1>3, <1>4, <1>5, <1>6, <1>7, StartUp, ObserveFollows DEF Next

LEMMA ObserverInvariance == Spec => []ObserverInv
BY ObserverInit, ObserverNext, LineInvariance, PTL DEF Spec

(* In the posthoc and hybrid modes the session table follows the kernel,   *)
(* whatever lines were lost, late or foreign and whatever commands failed  *)
(* (annotate, activateHandler, cleanupExpiredSessionsUnderHistoryLock).    *)
THEOREM TableFollows == Spec => []TableFollowsKernel
BY ObserverInvariance, PTL DEF ObserverInv

(* A PEP works with a monitor whose probes were loaded, or by lookups      *)
(* alone (waitReady, validateXFRMObserverConfiguration).                   *)
THEOREM ProbesLoaded == Spec => []NeverWithoutProbes
BY ObserverInvariance, PTL DEF ObserverInv

(* The buffer never exceeds its capacity and no line is lost on its way to *)
(* it, for any two buffer sizes (readEvents).                              *)
THEOREM ObserverTypes == Spec => []TypeOK
<1>1. LineInv /\ ObserverInv => TypeOK
  BY DEF LineInv, Numbered, MarkInv, Transactions, ObserverInv, StartInv, TypeOK
<1> QED
  BY <1>1, LineInvariance, ObserverInvariance, PTL
=============================================================================
