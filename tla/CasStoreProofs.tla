--------------------------- MODULE CasStoreProofs ---------------------------
(* The optimistic stores implement the Store contract when versions are     *)
(* never reused, and lose attempts to other processes only.                 *)
EXTENDS CasStore, SequenceTheorems, TLAPS

----------------------------------------------------------------------------
(* The chain of a process *)

Running(c) == call[c].st \in {"reading", "writing"}

\* The call that runs is the first of its chain, and a call that waits is in it.
ChainInv ==
    \A c \in Calls :
        /\ call[c].st \in {"queued", "reading", "writing"} =>
              \E i \in 1..Len(chain[ProcOf(c)]) : chain[ProcOf(c)][i] = c
        /\ Running(c) => chain[ProcOf(c)][1] = c

\* Every call belongs to a process.
LEMMA ProcOfCall == \A c \in Calls : ProcOf(c) \in Procs
  BY CasAssumption DEF ProcOf

\* Appending to a sequence keeps its elements in place.
LEMMA AppendKeeps ==
  ASSUME NEW S, NEW q \in Seq(S), NEW x \in S
  PROVE  /\ Append(q, x) \in Seq(S)
         /\ Len(Append(q, x)) = Len(q) + 1
         /\ Append(q, x)[Len(q) + 1] = x
         /\ \A i \in 1..Len(q) : Append(q, x)[i] = q[i]
  OBVIOUS

\* The tail of a sequence moves its elements one place forward.
LEMMA TailShifts ==
  ASSUME NEW S, NEW q \in Seq(S), q # <<>>
  PROVE  /\ Tail(q) \in Seq(S)
         /\ Len(Tail(q)) = Len(q) - 1
         /\ \A i \in 1..(Len(q) - 1) : Tail(q)[i] = q[i + 1]
  OBVIOUS

\* The records a call may hold.
LEMMA NoItemType == NoItem \in ItemType
  BY DEF NoItem, ItemType

\* A call that has not begun is well typed.
LEMMA IdleCallType == IdleCall \in CallType
<1>1. 0 \in 0..MaxRetries
  BY CasAssumption
<1> QED
  BY <1>1, NoItemType DEF IdleCall, CallType

\* The updates of a call that its steps make keep its type.
LEMMA CallEdits ==
  ASSUME NEW k \in CallType
  PROVE  /\ \A f \in Transforms, t \in Nat :
               [k EXCEPT !.st = "queued", !.run = f, !.since = t] \in CallType
         /\ \A t \in Nat : [k EXCEPT !.st = "reading", !.at = t] \in CallType
         /\ \A e \in ItemType : [k EXCEPT !.st = "writing", !.seen = e] \in CallType
         /\ \A res \in Results \cup {"error"} : [k EXCEPT !.st = "done", !.res = res] \in CallType
  BY DEF CallType

\* ... and so does counting a retry while any is left.
LEMMA RetryEdit ==
  ASSUME NEW k \in CallType, RetriesLeft(k)
  PROVE  [k EXCEPT !.st = "queued", !.attempt = @ + 1, !.seen = NoItem] \in CallType
<1>1. k.attempt + 1 \in 0..MaxRetries
  BY CasAssumption DEF CallType, RetriesLeft
<1>2. ASSUME NEW e \in ItemType
      PROVE  [k EXCEPT !.st = "queued", !.attempt = @ + 1, !.seen = e] \in CallType
  BY <1>1 DEF CallType
<1> QED
  BY <1>2, NoItemType

\* What settling a call does to the types and to the chain.
LEMMA SettleKeeps ==
  ASSUME TypeOK, ChainInv, NEW c \in Calls, NEW res \in Results \cup {"error"},
         Running(c), Settle(c, res)
  PROVE  /\ call' \in [Calls -> CallType]
         /\ chain' \in [Procs -> Seq(Calls)]
         /\ ChainInv'
<1> DEFINE p == ProcOf(c)
<1>1. p \in Procs
  BY ProcOfCall
<1>2. chain[p] \in Seq(Calls) /\ chain[p] # <<>> /\ chain[p][1] = c
  BY <1>1 DEF TypeOK, ChainInv, Running
<1>3. /\ Tail(chain[p]) \in Seq(Calls)
      /\ Len(Tail(chain[p])) = Len(chain[p]) - 1
      /\ \A i \in 1..(Len(chain[p]) - 1) : Tail(chain[p])[i] = chain[p][i + 1]
  BY <1>2, TailShifts
<1>4. chain' = [chain EXCEPT ![p] = Tail(chain[p])]
  BY DEF Settle, Behind
<1>5. [IdleCall EXCEPT !.st = "done", !.res = res] \in CallType
  BY IdleCallType, CallEdits
<1>6. call' \in [Calls -> CallType]
  BY <1>5 DEF Settle, TypeOK
<1>7. chain' \in [Procs -> Seq(Calls)]
  BY <1>1, <1>3, <1>4 DEF TypeOK
<1>8. call'[c].st = "done"
  BY DEF Settle, TypeOK, IdleCall
<1>9. ChainInv'
  <2> SUFFICES ASSUME NEW d \in Calls,
                      call'[d].st \in {"queued", "reading", "writing"}
               PROVE  /\ \E i \in 1..Len(chain'[ProcOf(d)]) : chain'[ProcOf(d)][i] = d
                      /\ call'[d].st \in {"reading", "writing"} => chain'[ProcOf(d)][1] = d
    BY DEF ChainInv, Running, ProcOf
  <2>1. d # c /\ call'[d] = call[d]
    BY <1>8 DEF Settle, TypeOK
  <2>2. PICK i \in 1..Len(chain[ProcOf(d)]) : chain[ProcOf(d)][i] = d
    BY <2>1 DEF ChainInv
  <2>3. ProcOf(d) \in Procs
    BY ProcOfCall
  <2>4. CASE ProcOf(d) # p
    BY <1>4, <2>1, <2>3, <2>4 DEF ChainInv, Running, TypeOK
  <2>5. CASE ProcOf(d) = p
    <3>1. i # 1 /\ ~Running(d)
      BY <1>2, <2>1, <2>2, <2>5 DEF ChainInv
    <3>2. chain'[p] = Tail(chain[p])
      BY <1>1, <1>4 DEF TypeOK
    <3>3. i \in 2..Len(chain[p]) /\ Len(chain[p]) \in Nat
      BY <1>2, <2>2, <2>5, <3>1
    <3>4. i - 1 \in 1..Len(chain'[p]) /\ chain'[p][i - 1] = d
      BY <1>3, <2>2, <2>5, <3>2, <3>3
    <3> QED
      BY <2>1, <2>5, <3>1, <3>4 DEF Running
  <2> QED
    BY <2>4, <2>5
<1> QED
  BY <1>6, <1>7, <1>9

----------------------------------------------------------------------------
(* Types *)

\* What the transform returns for what a call has read.
LEMMA OutcomeType ==
  ASSUME NEW f \in Transforms, NEW e \in ItemType, NEW t \in Nat
  PROVE  /\ LiveAt(e, t) \in States \cup {NoState}
         /\ Outcome(f, LiveAt(e, t)) \in [persist : BOOLEAN, state : States, ttl : Nat, result : Results]
<1>1. LiveAt(e, t) \in States \cup {NoState}
  BY DEF LiveAt, ItemType
<1> QED
  BY <1>1, CasAssumption

\* A call that is under way has a transform.
RunInv == \A c \in Calls : call[c].st \in {"queued", "reading", "writing"} => call[c].run \in Transforms

TypeInv == TypeOK /\ RunInv /\ ChainInv

\* The types and the chains hold at the start.
LEMMA TypeInit == Init => TypeInv
  BY CasAssumption DEF Init, TypeInv, TypeOK, RunInv, ChainInv, Running, IdleCall, NoItem, ItemType, CallType

\* The entry a put writes.
LEMMA WrittenType ==
  ASSUME TypeOK, NEW c \in Calls, call[c].run \in Transforms
  PROVE  Written(call[c], Outcome(call[c].run, LiveAt(call[c].seen, call[c].at))) \in ItemType
<1> DEFINE out == Outcome(call[c].run, LiveAt(call[c].seen, call[c].at))
<1>1. call[c].seen \in ItemType /\ call[c].at \in Nat /\ stamp \in Nat
  BY DEF TypeOK, CallType
<1>2. out \in [persist : BOOLEAN, state : States, ttl : Nat, result : Results]
  BY <1>1, OutcomeType
<1> HIDE DEF out
<1>3. Ttl(out) \in Nat /\ NextVersion(call[c].seen) \in Nat
  BY <1>1, <1>2 DEF Ttl, NextVersion, ItemType
<1>4. Written(call[c], out) \in ItemType
  BY <1>1, <1>2, <1>3 DEF Written, ItemType
<1> QED
  BY <1>4 DEF out

\* ... and every step keeps them.
LEMMA TypeStep == TypeInv /\ [Next]_vars => TypeInv'
<1> SUFFICES ASSUME TypeOK, RunInv, ChainInv, [Next]_vars
             PROVE  TypeOK' /\ RunInv' /\ ChainInv'
  BY DEF TypeInv
<1>1. ASSUME NEW c \in Calls, NEW f \in Transforms, Apply(c, f)
      PROVE  TypeOK' /\ RunInv' /\ ChainInv'
  <2> DEFINE p == ProcOf(c)
  <2>1. p \in Procs /\ chain[p] \in Seq(Calls)
    BY ProcOfCall DEF TypeOK
  <2>2. /\ Append(chain[p], c) \in Seq(Calls)
        /\ Len(Append(chain[p], c)) = Len(chain[p]) + 1
        /\ Append(chain[p], c)[Len(chain[p]) + 1] = c
        /\ \A i \in 1..Len(chain[p]) : Append(chain[p], c)[i] = chain[p][i]
    BY <2>1, AppendKeeps
  <2>3. chain' = [chain EXCEPT ![p] = Append(chain[p], c)]
    BY <1>1 DEF Apply
  <2>4. /\ call' = [call EXCEPT ![c] = call'[c]]
        /\ call'[c] = [call[c] EXCEPT !.st = "queued", !.run = f, !.since = clock]
    BY <1>1 DEF Apply, TypeOK
  <2>5. call'[c] \in CallType /\ call'[c].st = "queued" /\ call'[c].run = f
    <3>1. call[c] \in CallType /\ clock \in Nat
      BY DEF TypeOK
    <3>2. [call[c] EXCEPT !.st = "queued", !.run = f, !.since = clock] \in CallType
      BY <3>1, CallEdits, Zenon
    <3> QED
      BY <2>4, <3>1, <3>2 DEF CallType
  <2>6. TypeOK'
    BY <1>1, <2>1, <2>2, <2>3, <2>4, <2>5 DEF TypeOK, Apply
  <2>7. RunInv'
    BY <2>4, <2>5 DEF RunInv, TypeOK
  <2>8. ChainInv'
    <3> SUFFICES ASSUME NEW d \in Calls,
                        call'[d].st \in {"queued", "reading", "writing"}
                 PROVE  /\ \E i \in 1..Len(chain'[ProcOf(d)]) : chain'[ProcOf(d)][i] = d
                        /\ call'[d].st \in {"reading", "writing"} => chain'[ProcOf(d)][1] = d
      BY DEF ChainInv, Running, ProcOf
    <3>0. ProcOf(d) \in Procs /\ chain'[p] = Append(chain[p], c) /\ Len(chain[p]) \in Nat
      BY <2>1, <2>3, ProcOfCall DEF TypeOK
    <3>1. CASE d = c
      <4>1. Len(chain[p]) + 1 \in 1..Len(chain'[p]) /\ chain'[p][Len(chain[p]) + 1] = c
        BY <2>2, <3>0
      <4> QED
        BY <2>5, <3>1, <4>1
    <3>2. CASE d # c
      <4>1. call'[d] = call[d]
        BY <2>4, <3>2 DEF TypeOK
      <4>2. PICK i \in 1..Len(chain[ProcOf(d)]) : chain[ProcOf(d)][i] = d
        BY <4>1 DEF ChainInv
      <4>3. Running(d) => chain[ProcOf(d)][1] = d
        BY DEF ChainInv
      <4>4. CASE ProcOf(d) # p
        BY <2>3, <3>0, <4>1, <4>2, <4>3, <4>4 DEF Running, TypeOK
      <4>5. CASE ProcOf(d) = p
        <5>1. i \in 1..Len(chain'[p]) /\ chain'[p][i] = d
          BY <2>2, <3>0, <4>2, <4>5
        <5>2. 1 \in 1..Len(chain[p])
          BY <3>0, <4>2, <4>5
        <5>3. chain'[p][1] = chain[p][1]
          BY <2>2, <3>0, <5>2
        <5> QED
          BY <4>1, <4>3, <4>5, <5>1, <5>3 DEF Running
      <4> QED
        BY <4>4, <4>5
    <3> QED
      BY <3>1, <3>2
  <2> QED
    BY <2>6, <2>7, <2>8
<1>2. ASSUME NEW c \in Calls, Attempt(c)
      PROVE  TypeOK' /\ RunInv' /\ ChainInv'
  <2>1. call' = [call EXCEPT ![c] = call'[c]] /\ call'[c] \in CallType
        /\ call'[c].st = "reading" /\ call'[c].run = call[c].run
    <3>1. call[c] \in CallType /\ clock \in Nat
      BY DEF TypeOK
    <3>2. /\ call' = [call EXCEPT ![c] = call'[c]]
          /\ call'[c] = [call[c] EXCEPT !.st = "reading", !.at = clock]
      BY <1>2 DEF Attempt, TypeOK
    <3>3. call'[c] \in CallType
      BY ZenonT(60), <3>1, <3>2, CallEdits
    <3> QED
      BY <3>1, <3>2, <3>3 DEF CallType
  <2>2. TypeOK' /\ RunInv'
    BY <1>2, <2>1 DEF Attempt, TypeOK, RunInv
  <2>3. chain[ProcOf(c)][1] = c
    <3>1. chain[ProcOf(c)] \in Seq(Calls) /\ chain[ProcOf(c)] # <<>>
      BY <1>2, ProcOfCall DEF Attempt, ChainInv, TypeOK
    <3> QED
      BY <1>2, <3>1 DEF Attempt, MayRun
  <2>4. ChainInv'
    BY <1>2, <2>1, <2>3 DEF ChainInv, Running, Attempt, TypeOK, ProcOf
  <2> QED
    BY <2>2, <2>4
<1>3. ASSUME NEW c \in Calls, Get(c)
      PROVE  TypeOK' /\ RunInv' /\ ChainInv'
  <2> DEFINE out == Outcome(call[c].run, LiveAt(item, call[c].at))
  <2>1. call[c].st = "reading" /\ Running(c) /\ call[c].run \in Transforms
    BY <1>3 DEF Get, Running, RunInv
  <2>2. out \in [persist : BOOLEAN, state : States, ttl : Nat, result : Results]
    BY <2>1, OutcomeType DEF TypeOK, CallType
  <2>3. CASE ~out.persist /\ Settle(c, out.result)
    <3>1. out.result \in Results
      BY <2>2
    <3>2. call' \in [Calls -> CallType] /\ chain' \in [Procs -> Seq(Calls)] /\ ChainInv'
      BY <2>1, <2>3, <3>1, SettleKeeps
    <3>3. TypeOK'
      BY <1>3, <3>2 DEF Get, TypeOK
    <3>4. RunInv'
      BY <2>3 DEF Settle, RunInv, TypeOK, IdleCall
    <3> QED
      BY <3>2, <3>3, <3>4
  <2>4. CASE out.persist /\ call' = [call EXCEPT ![c].st = "writing", ![c].seen = item] /\ UNCHANGED chain
    <3>1. call' = [call EXCEPT ![c] = call'[c]] /\ call'[c] \in CallType
          /\ call'[c].st = "writing" /\ call'[c].run = call[c].run
      <4>1. call[c] \in CallType /\ item \in ItemType
        BY DEF TypeOK
      <4>2. /\ call' = [call EXCEPT ![c] = call'[c]]
            /\ call'[c] = [call[c] EXCEPT !.st = "writing", !.seen = item]
        BY <2>4 DEF TypeOK
      <4>3. call'[c] \in CallType
        BY ZenonT(60), <4>1, <4>2, CallEdits
      <4> QED
        BY <4>1, <4>2, <4>3 DEF CallType
    <3>2. TypeOK' /\ RunInv'
      BY <1>3, <2>1, <2>4, <3>1 DEF Get, TypeOK, RunInv
    <3>3. ChainInv'
      BY <2>1, <2>4, <3>1 DEF ChainInv, Running, TypeOK, ProcOf
    <3> QED
      BY <3>2, <3>3
  <2> QED
    BY <1>3, <2>3, <2>4 DEF Get
<1>4. ASSUME NEW c \in Calls, Put(c)
      PROVE  TypeOK' /\ RunInv' /\ ChainInv'
  <2> DEFINE out == Outcome(call[c].run, LiveAt(call[c].seen, call[c].at))
  <2>1. call[c].st = "writing" /\ Running(c) /\ call[c].run \in Transforms
    BY <1>4 DEF Put, Running, RunInv
  <2>2. out.result \in Results
    BY <2>1, OutcomeType DEF TypeOK, CallType
  <2>3. PICK res \in Results \cup {"error"} : Settle(c, res)
    BY <1>4, <2>2 DEF Put
  <2>4. call' \in [Calls -> CallType] /\ chain' \in [Procs -> Seq(Calls)] /\ ChainInv'
    BY <2>1, <2>3, SettleKeeps
  <2>5. item' \in ItemType
    BY <1>4, <2>1, WrittenType DEF Put
  <2>6. stamp' \in Nat /\ writer' \in Procs \cup {NoProc} /\ clock' \in 0..MaxTime
    BY <1>4, ProcOfCall DEF Put, TypeOK
  <2>7. log' \in Seq(Transforms)
    <3>1. log' = <<call[c].run>> \/ log' = Append(log, call[c].run)
      BY <1>4 DEF Put
    <3>2. <<call[c].run>> \in Seq(Transforms) /\ Append(log, call[c].run) \in Seq(Transforms)
      BY <2>1, AppendKeeps DEF TypeOK
    <3> QED
      BY <3>1, <3>2
  <2>8. RunInv'
    BY <2>3 DEF Settle, RunInv, TypeOK, IdleCall
  <2> QED
    BY <2>4, <2>5, <2>6, <2>7, <2>8 DEF TypeOK
<1>5. ASSUME NEW c \in Calls, PutRefused(c)
      PROVE  TypeOK' /\ RunInv' /\ ChainInv'
  <2>1. call[c].st = "writing" /\ Running(c) /\ call[c].run \in Transforms
    BY <1>5 DEF PutRefused, Running, RunInv
  <2>2. CASE /\ RetriesLeft(call[c])
             /\ call' = [call EXCEPT ![c].st = "queued", ![c].attempt = @ + 1, ![c].seen = NoItem]
             /\ UNCHANGED chain
    <3>1. call' = [call EXCEPT ![c] = call'[c]] /\ call'[c] \in CallType
          /\ call'[c].st = "queued" /\ call'[c].run = call[c].run
      <4>1. call[c] \in CallType
        BY DEF TypeOK
      <4>2. /\ call' = [call EXCEPT ![c] = call'[c]]
            /\ call'[c] = [call[c] EXCEPT !.st = "queued", !.attempt = @ + 1, !.seen = NoItem]
        BY <2>2 DEF TypeOK
      <4>3. call'[c] \in CallType
        BY <2>2, <4>1, <4>2, RetryEdit
      <4> QED
        BY <4>1, <4>2, <4>3 DEF CallType
    <3>2. TypeOK' /\ RunInv'
      BY <1>5, <2>1, <2>2, <3>1 DEF PutRefused, TypeOK, RunInv
    <3>3. ChainInv'
      BY <2>1, <2>2, <3>1 DEF ChainInv, Running, TypeOK, ProcOf
    <3> QED
      BY <3>2, <3>3
  <2>3. CASE Settle(c, "error")
    <3>1. call' \in [Calls -> CallType] /\ chain' \in [Procs -> Seq(Calls)] /\ ChainInv'
      BY <2>1, <2>3, SettleKeeps
    <3>2. TypeOK'
      BY <1>5, <3>1 DEF PutRefused, TypeOK
    <3>3. RunInv'
      BY <2>3 DEF Settle, RunInv, TypeOK, IdleCall
    <3> QED
      BY <3>1, <3>2, <3>3
  <2> QED
    BY <1>5, <2>2, <2>3 DEF PutRefused
<1>6. ASSUME NEW c \in Calls, CallFails(c)
      PROVE  TypeOK' /\ RunInv' /\ ChainInv'
  <2>1. Running(c) /\ Settle(c, "error")
    BY <1>6 DEF CallFails, Running
  <2>2. call' \in [Calls -> CallType] /\ chain' \in [Procs -> Seq(Calls)] /\ ChainInv'
    BY <2>1, SettleKeeps
  <2>3. TypeOK'
    BY <1>6, <2>2 DEF CallFails, TypeOK
  <2>4. RunInv'
    BY <2>1 DEF Settle, RunInv, TypeOK, IdleCall
  <2> QED
    BY <2>2, <2>3, <2>4
<1>7. ASSUME Deleted
      PROVE  TypeOK' /\ RunInv' /\ ChainInv'
  <2>1. TypeOK'
    BY <1>7 DEF Deleted, TypeOK, NoItem, ItemType
  <2>2. RunInv' /\ ChainInv'
    BY <1>7 DEF Deleted, RunInv, ChainInv, Running
  <2> QED
    BY <2>1, <2>2
<1>8. ASSUME Tick
      PROVE  TypeOK' /\ RunInv' /\ ChainInv'
  <2>1. TypeOK'
    BY <1>8, CasAssumption DEF Tick, TypeOK
  <2>2. RunInv' /\ ChainInv'
    BY <1>8 DEF Tick, RunInv, ChainInv, Running
  <2> QED
    BY <2>1, <2>2
<1>9. ASSUME UNCHANGED vars
      PROVE  TypeOK' /\ RunInv' /\ ChainInv'
  BY <1>9 DEF vars, TypeOK, RunInv, ChainInv, Running
<1> QED
  BY <1>1, <1>2, <1>3, <1>4, <1>5, <1>6, <1>7, <1>8, <1>9 DEF Next, Reset, Reclaim

\* Every state of the optimistic stores is well typed: in particular no call starts
\* more than maxRetries + 1 attempts, and the chain is never popped when empty.
THEOREM CasTypeCorrect == Spec => []TypeOK
<1>1. Spec => []TypeInv
  BY TypeInit, TypeStep, PTL DEF Spec
<1>2. TypeInv => TypeOK
  BY DEF TypeInv
<1> QED
  BY <1>1, <1>2, PTL

----------------------------------------------------------------------------
(* Conflicts *)

\* What makes a put fail was done by another process, or by a delete.
ForeignInv ==
    \A c \in Calls : call[c].st = "writing" /\ ~UnchangedSince(call[c].seen) => writer # ProcOf(c)

\* Two calls of one process are never under way together.
LEMMA OneRuns ==
  ASSUME TypeInv, NEW c \in Calls, NEW d \in Calls, Running(c), Running(d), ProcOf(c) = ProcOf(d)
  PROVE  c = d
  BY DEF TypeInv, ChainInv

\* How a step changes the calls: at most one of them, and to "writing" only in Get.
LEMMA WritingBefore ==
  ASSUME TypeInv, [Next]_vars, NEW d \in Calls, call'[d].st = "writing"
  PROVE  \/ call'[d] = call[d]
         \/ Get(d) /\ call'[d] = [call[d] EXCEPT !.st = "writing", !.seen = item]
<1> USE DEF TypeInv, TypeOK
<1>1. ASSUME NEW c \in Calls, NEW f \in Transforms, Apply(c, f)
      PROVE  call'[d] = call[d]
  BY <1>1 DEF Apply, CallType
<1>2. ASSUME NEW c \in Calls, Attempt(c)
      PROVE  call'[d] = call[d]
  BY <1>2 DEF Attempt, CallType
<1>3. ASSUME NEW c \in Calls, NEW res, Settle(c, res)
      PROVE  call'[d] = call[d]
  BY <1>3 DEF Settle, IdleCall
<1>4. ASSUME NEW c \in Calls, Get(c)
      PROVE  \/ call'[d] = call[d]
             \/ Get(d) /\ call'[d] = [call[d] EXCEPT !.st = "writing", !.seen = item]
  BY <1>3, <1>4 DEF Get
<1>5. ASSUME NEW c \in Calls, Put(c) \/ CallFails(c)
      PROVE  call'[d] = call[d]
  BY <1>3, <1>5 DEF Put, CallFails
<1>6. ASSUME NEW c \in Calls, PutRefused(c)
      PROVE  call'[d] = call[d]
  BY <1>3, <1>6 DEF PutRefused, CallType
<1>7. ASSUME Deleted \/ Tick \/ UNCHANGED vars
      PROVE  call'[d] = call[d]
  BY <1>7 DEF Deleted, Tick, vars
<1> QED
  BY <1>1, <1>2, <1>4, <1>5, <1>6, <1>7 DEF Next, Reset, Reclaim

\* A step either leaves the item and its writer alone, deletes it, or is a Put.
LEMMA ItemChanges ==
  ASSUME [Next]_vars
  PROVE  \/ UNCHANGED <<item, writer, stamp>>
         \/ Deleted
         \/ \E c \in Calls : Put(c)
  BY Zenon DEF Next, Apply, Attempt, Get, PutRefused, CallFails, Reset, Reclaim, Tick, vars

\* Only another process, or a delete, can make a put of a call fail.
LEMMA ForeignStep == TypeInv /\ ForeignInv /\ [Next]_vars => ForeignInv'
<1> SUFFICES ASSUME TypeInv, ForeignInv, [Next]_vars,
                    NEW d \in Calls, call'[d].st = "writing", ~UnchangedSince(call[d].seen)'
             PROVE  writer' # ProcOf(d)
  BY DEF ForeignInv, ProcOf
<1>1. ProcOf(d) \in Procs
  BY ProcOfCall
<1>2. CASE UNCHANGED <<item, writer, stamp>>
  <2>1. CASE call'[d] = call[d]
    BY <1>2, <2>1 DEF ForeignInv, UnchangedSince
  <2>2. CASE call'[d] = [call[d] EXCEPT !.st = "writing", !.seen = item]
    <3>1. call'[d].seen = item
      BY <2>2 DEF TypeInv, TypeOK, CallType
    <3> QED
      BY <1>2, <3>1 DEF UnchangedSince
  <2> QED
    BY <2>1, <2>2, WritingBefore
<1>3. CASE Deleted
  BY <1>1, <1>3, CasAssumption DEF Deleted
<1>4. ASSUME NEW c \in Calls, Put(c)
      PROVE  writer' # ProcOf(d)
  <2>1. writer' = ProcOf(c) /\ call'[c].st = "done" /\ Running(c)
    BY ZenonT(60), <1>4 DEF Put, Settle, TypeInv, TypeOK, IdleCall, Running
  <2>2. d # c
    BY <2>1
  <2>3. call'[d] = call[d]
    BY <1>4, <2>2 DEF Put, Settle, TypeInv, TypeOK
  <2>4. Running(d)
    BY <2>3 DEF Running
  <2> QED
    BY <2>1, <2>2, <2>4, OneRuns
<1> QED
  BY <1>2, <1>3, <1>4, ItemChanges

\* An attempt counts up only when its put was refused.
LEMMA AttemptCounts ==
  ASSUME TypeInv, [Next]_vars, NEW d \in Calls, call'[d].attempt > call[d].attempt
  PROVE  call[d].st = "writing" /\ ~UnchangedSince(call[d].seen)
<1> USE DEF TypeInv, TypeOK
<1>0. call[d].attempt \in Nat
  BY DEF CallType
<1>1. ASSUME NEW c \in Calls, NEW f \in Transforms, Apply(c, f)
      PROVE  FALSE
  BY <1>0, <1>1 DEF Apply, CallType
<1>2. ASSUME NEW c \in Calls, Attempt(c)
      PROVE  FALSE
  BY <1>0, <1>2 DEF Attempt, CallType
<1>3. ASSUME NEW c \in Calls, NEW res, Settle(c, res)
      PROVE  FALSE
  BY <1>0, <1>3 DEF Settle, IdleCall
<1>4. ASSUME NEW c \in Calls, Get(c)
      PROVE  FALSE
  <2>1. CASE call' = [call EXCEPT ![c].st = "writing", ![c].seen = item]
    BY <1>0, <2>1 DEF CallType
  <2> QED
    BY <1>3, <1>4, <2>1 DEF Get
<1>5. ASSUME NEW c \in Calls, Put(c) \/ CallFails(c)
      PROVE  FALSE
  BY <1>3, <1>5 DEF Put, CallFails
<1>6. ASSUME NEW c \in Calls, PutRefused(c)
      PROVE  call[d].st = "writing" /\ ~UnchangedSince(call[d].seen)
  <2>1. CASE c = d
    BY <1>6, <2>1 DEF PutRefused
  <2>2. CASE c # d
    BY <1>0, <1>3, <1>6, <2>2 DEF PutRefused
  <2> QED
    BY <2>1, <2>2
<1>7. ASSUME Deleted \/ Tick \/ UNCHANGED vars
      PROVE  FALSE
  BY <1>0, <1>7 DEF Deleted, Tick, vars
<1> QED
  BY <1>1, <1>2, <1>4, <1>5, <1>6, <1>7 DEF Next, Reset, Reclaim

\* The per-key chain does what it is for: whatever the number of processes and
\* calls, an attempt is only ever lost to another process or to a delete.
THEOREM ForeignConflicts == Spec => ConflictsAreForeign
<1> DEFINE Foreign == \A c \in Calls : call'[c].attempt > call[c].attempt => writer # ProcOf(c)
<1>1. Init => ForeignInv
  BY DEF Init, ForeignInv, IdleCall
<1>2. TypeInv /\ ForeignInv /\ [Next]_vars => [Foreign]_vars
  BY AttemptCounts DEF ForeignInv
<1> QED
  BY <1>1, <1>2, TypeInit, TypeStep, ForeignStep, PTL DEF Spec, ConflictsAreForeign

----------------------------------------------------------------------------
(* The refinement *)

\* Where versions are never reused, an unchanged version means an unchanged item.
StampInv ==
    /\ item.has => item.version <= stamp
    /\ \A c \in Calls : call[c].st = "writing" /\ call[c].seen.has =>
          /\ call[c].seen.version <= stamp
          /\ item.has /\ item.version = call[c].seen.version => item = call[c].seen

\* A call decides at a time during the call.
TimeInv ==
    \A c \in Calls :
        /\ call[c].st \in {"queued", "reading", "writing"} => call[c].since <= clock
        /\ Running(c) => call[c].since <= call[c].at /\ call[c].at <= clock

\* A put is only sent for a transform that persists.
PersistInv ==
    \A c \in Calls : call[c].st = "writing" =>
        Outcome(call[c].run, LiveAt(call[c].seen, call[c].at)).persist

\* A put takes a stamp that no call has seen.
LEMMA StampStep ==
  ASSUME UniqueStamps, TypeInv, StampInv, [Next]_vars
  PROVE  StampInv'
<1>0. item \in ItemType /\ stamp \in Nat /\ call \in [Calls -> CallType]
      /\ item' \in ItemType /\ stamp' \in Nat /\ call' \in [Calls -> CallType]
  BY TypeStep DEF TypeInv, TypeOK
<1>1. CASE UNCHANGED <<item, writer, stamp>>
  <2>1. ASSUME NEW d \in Calls, call'[d].st = "writing", call'[d].seen.has
        PROVE  /\ call'[d].seen.version <= stamp
               /\ item.has /\ item.version = call'[d].seen.version => item = call'[d].seen
    <3>1. CASE call'[d] = call[d]
      BY <2>1, <3>1 DEF StampInv
    <3>2. CASE call'[d] = [call[d] EXCEPT !.st = "writing", !.seen = item]
      <4>1. call'[d].seen = item
        BY <1>0, <3>2 DEF CallType
      <4> QED
        BY <2>1, <4>1 DEF StampInv
    <3> QED
      BY <2>1, <3>1, <3>2, WritingBefore
  <2> QED
    BY <1>1, <2>1 DEF StampInv
<1>2. CASE Deleted
  <2>1. ~item'.has /\ stamp' = stamp /\ call' = call
    BY <1>2 DEF Deleted, NoItem
  <2> QED
    BY <2>1 DEF StampInv
<1>3. ASSUME NEW c \in Calls, Put(c)
      PROVE  StampInv'
  <2>1. stamp' = stamp + 1 /\ item'.version = stamp + 1
    BY <1>3 DEF Put, Written, NextVersion
  <2>2. ASSUME NEW d \in Calls, call'[d].st = "writing", call'[d].seen.has
        PROVE  call'[d].seen.version <= stamp
    <3>1. d # c
      BY ZenonT(60), <1>0, <1>3, <2>2 DEF Put, Settle, IdleCall
    <3>2. call'[d] = call[d]
      BY <1>0, <1>3, <3>1 DEF Put, Settle
    <3> QED
      BY <2>2, <3>2 DEF StampInv
  <2>3. ASSUME NEW d \in Calls, call'[d].st = "writing", call'[d].seen.has
        PROVE  call'[d].seen.version <= stamp' /\ item'.version # call'[d].seen.version
    <3>1. call'[d].seen.version \in Nat
      BY <1>0 DEF CallType, ItemType
    <3> QED
      BY <1>0, <2>1, <2>2, <2>3, <3>1
  <2>4. item'.version <= stamp'
    BY <1>0, <2>1
  <2> QED
    BY <2>3, <2>4 DEF StampInv
<1> QED
  BY <1>1, <1>2, <1>3, ItemChanges

\* A call sends its put for what it has just read.
LEMMA PersistStep ==
  ASSUME TypeInv, PersistInv, [Next]_vars
  PROVE  PersistInv'
<1> SUFFICES ASSUME NEW d \in Calls, call'[d].st = "writing"
             PROVE  Outcome(call'[d].run, LiveAt(call'[d].seen, call'[d].at)).persist
  BY DEF PersistInv, LiveAt
<1>1. CASE call'[d] = call[d]
  BY <1>1 DEF PersistInv
<1>2. CASE Get(d) /\ call'[d] = [call[d] EXCEPT !.st = "writing", !.seen = item]
  <2>1. call'[d].run = call[d].run /\ call'[d].at = call[d].at /\ call'[d].seen = item
    BY <1>2 DEF TypeInv, TypeOK, CallType
  <2>2. ASSUME NEW res, Settle(d, res)
        PROVE  FALSE
    BY <2>2 DEF Settle, IdleCall, TypeInv, TypeOK
  <2>3. Outcome(call[d].run, LiveAt(item, call[d].at)).persist
    BY <1>2, <2>2 DEF Get
  <2> QED
    BY <2>1, <2>3
<1> QED
  BY <1>1, <1>2, WritingBefore

\* The clock does not run backward during a call.
LEMMA TimeStep ==
  ASSUME TypeInv, TimeInv, [Next]_vars
  PROVE  TimeInv'
<1>0. clock \in Nat /\ call \in [Calls -> CallType]
  BY DEF TypeInv, TypeOK
<1>a. \A d \in Calls : call[d].since \in Nat /\ call[d].at \in Nat
  BY <1>0 DEF CallType
<1>1. ASSUME NEW c \in Calls, NEW f \in Transforms, Apply(c, f)
      PROVE  TimeInv'
  BY <1>0, <1>1 DEF Apply, TimeInv, Running, CallType
<1>2. ASSUME NEW c \in Calls, Attempt(c)
      PROVE  TimeInv'
  BY <1>0, <1>2 DEF Attempt, TimeInv, Running, CallType
<1>3. ASSUME NEW c \in Calls, NEW res, Settle(c, res), UNCHANGED clock
      PROVE  TimeInv'
  BY <1>0, <1>3 DEF Settle, TimeInv, Running, IdleCall
<1>4. ASSUME NEW c \in Calls, Get(c)
      PROVE  TimeInv'
  <2>1. CASE call' = [call EXCEPT ![c].st = "writing", ![c].seen = item]
    BY <1>0, <1>4, <2>1 DEF Get, TimeInv, Running, CallType
  <2> QED
    BY <1>3, <1>4, <2>1 DEF Get
<1>5. ASSUME NEW c \in Calls, Put(c) \/ CallFails(c)
      PROVE  TimeInv'
  BY <1>3, <1>5 DEF Put, CallFails
<1>6. ASSUME NEW c \in Calls, PutRefused(c)
      PROVE  TimeInv'
  <2>1. CASE call' = [call EXCEPT ![c].st = "queued", ![c].attempt = @ + 1, ![c].seen = NoItem]
    BY <1>0, <1>6, <2>1 DEF PutRefused, TimeInv, Running, CallType
  <2> QED
    BY <1>3, <1>6, <2>1 DEF PutRefused
<1>7. ASSUME Deleted \/ UNCHANGED vars
      PROVE  TimeInv'
  BY <1>7 DEF Deleted, vars, TimeInv, Running
<1>8. ASSUME Tick
      PROVE  TimeInv'
  BY <1>0, <1>a, <1>8 DEF Tick, TimeInv, Running
<1> QED
  BY <1>1, <1>2, <1>4, <1>5, <1>6, <1>7, <1>8 DEF Next, Reset, Reclaim

\* What the abstract store sees of a call.
LEMMA AbstractCases ==
  ASSUME NEW k \in CallType
  PROVE  /\ k.st = "idle" => Abstract(k) = [st |-> "idle"]
         /\ k.st = "done" => Abstract(k) = [st |-> "done", res |-> k.res]
         /\ k.st \in {"queued", "reading", "writing"} =>
               Abstract(k) = [st |-> "open", run |-> k.run, since |-> k.since]
  BY DEF Abstract, CallType

\* Settling a call of the implementation answers the abstract call.
LEMMA SettleAnswers ==
  ASSUME TypeInv, NEW c \in Calls, NEW res \in Results \cup {"error"}, Running(c), Settle(c, res)
  PROVE  /\ Atomic!Answer(c, res)
         /\ Abstract(call[c]) = [st |-> "open", run |-> call[c].run, since |-> call[c].since]
<1>1. call \in [Calls -> CallType] /\ [IdleCall EXCEPT !.st = "done", !.res = res] \in CallType
  BY IdleCallType, CallEdits DEF TypeInv, TypeOK
<1>2. call' = [call EXCEPT ![c] = [IdleCall EXCEPT !.st = "done", !.res = res]]
  BY DEF Settle
<1>3. Abstract([IdleCall EXCEPT !.st = "done", !.res = res]) = [st |-> "done", res |-> res]
  <2>1. [IdleCall EXCEPT !.st = "done", !.res = res].st = "done"
        /\ [IdleCall EXCEPT !.st = "done", !.res = res].res = res
    BY DEF IdleCall
  <2> QED
    BY <1>1, <2>1, AbstractCases
<1>4. [d \in Calls |-> Abstract(call'[d])] =
         [[d \in Calls |-> Abstract(call[d])] EXCEPT ![c] = [st |-> "done", res |-> res]]
  BY <1>1, <1>2, <1>3
<1>5. Abstract(call[c]) = [st |-> "open", run |-> call[c].run, since |-> call[c].since]
  BY <1>1, AbstractCases DEF Running
<1> QED
  BY <1>4, <1>5 DEF Atomic!Answer

\* A step that only moves a call on, without answering it, is invisible.
LEMMA SilentCall ==
  ASSUME TypeInv, TypeInv', NEW c \in Calls, call' = [call EXCEPT ![c] = call'[c]],
         call[c].st \in {"queued", "reading", "writing"},
         call'[c].st \in {"queued", "reading", "writing"},
         call'[c].run = call[c].run, call'[c].since = call[c].since
  PROVE  [d \in Calls |-> Abstract(call'[d])] = [d \in Calls |-> Abstract(call[d])]
<1>1. call \in [Calls -> CallType] /\ call' \in [Calls -> CallType]
  BY DEF TypeInv, TypeOK
<1>2. Abstract(call'[c]) = Abstract(call[c])
  BY <1>1, AbstractCases
<1>3. \A d \in Calls : d # c => call'[d] = call[d]
  BY <1>1
<1> QED
  BY <1>2, <1>3

\* What a refused or unsuccessful call of the database means to the abstract store.
LEMMA FailSimulates ==
  ASSUME TypeInv, NEW c \in Calls, Running(c), Settle(c, "error"), UNCHANGED <<clock, item>>
  PROVE  Atomic!Next
<1>1. Atomic!Answer(c, "error")
      /\ Abstract(call[c]) = [st |-> "open", run |-> call[c].run, since |-> call[c].since]
  BY SettleAnswers
<1>2. Atomic!Fail(c)
  BY <1>1 DEF Atomic!Fail
<1> QED
  BY <1>1, <1>2 DEF Atomic!Next

\* Every step of the optimistic loop is a step of the atomic store, or changes
\* nothing that it shows: a put commits, for what it read is still there.
LEMMA AtomicStep ==
  ASSUME UniqueStamps, TypeInv, StampInv, TimeInv, PersistInv, [Next]_vars
  PROVE  [Atomic!Next]_(Atomic!vars)
<1>0. TypeInv' /\ call \in [Calls -> CallType] /\ call' \in [Calls -> CallType]
      /\ item \in ItemType /\ clock \in Nat
  BY TypeStep DEF TypeInv, TypeOK
<1>1. ASSUME NEW c \in Calls, NEW f \in Transforms, Apply(c, f)
      PROVE  Atomic!Next
  <2>1. call[c].st = "idle" /\ call'[c].st = "queued" /\ call'[c].run = f /\ call'[c].since = clock
        /\ \A d \in Calls : d # c => call'[d] = call[d]
    BY <1>0, <1>1 DEF Apply, CallType
  <2>2. Abstract(call[c]) = [st |-> "idle"]
        /\ Abstract(call'[c]) = [st |-> "open", run |-> f, since |-> clock]
    BY <1>0, <2>1, AbstractCases
  <2>3. [d \in Calls |-> Abstract(call'[d])] =
           [[d \in Calls |-> Abstract(call[d])] EXCEPT ![c] = [st |-> "open", run |-> f, since |-> clock]]
    BY <2>1, <2>2
  <2>4. Atomic!Open(c, f)
    BY <1>1, <2>2, <2>3 DEF Atomic!Open, Apply
  <2> QED
    BY <2>4 DEF Atomic!Next
<1>2. ASSUME NEW c \in Calls, Attempt(c)
      PROVE  UNCHANGED Atomic!vars
  <2>1. /\ call' = [call EXCEPT ![c] = call'[c]] /\ call[c].st = "queued" /\ call'[c].st = "reading"
        /\ call'[c].run = call[c].run /\ call'[c].since = call[c].since
    <3>1. /\ call' = [call EXCEPT ![c] = call'[c]] /\ call[c].st = "queued"
          /\ call'[c] = [call[c] EXCEPT !.st = "reading", !.at = clock]
      BY <1>0, <1>2 DEF Attempt
    <3> QED
      BY <1>0, <3>1 DEF CallType
  <2> QED
    BY <1>0, <1>2, <2>1, SilentCall DEF Atomic!vars, Attempt
<1>3. ASSUME NEW c \in Calls, Get(c)
      PROVE  [Atomic!Next]_(Atomic!vars)
  <2> DEFINE out == Outcome(call[c].run, LiveAt(item, call[c].at))
  <2>1. Running(c) /\ call[c].st = "reading" /\ call[c].run \in Transforms /\ call[c].at \in Nat
    BY <1>0, <1>3 DEF Get, Running, TypeInv, RunInv, CallType
  <2>2. CASE ~out.persist /\ Settle(c, out.result)
    <3>1. out.result \in Results
      BY <1>0, <2>1, OutcomeType
    <3>2. Atomic!Answer(c, out.result)
          /\ Abstract(call[c]) = [st |-> "open", run |-> call[c].run, since |-> call[c].since]
      BY <2>1, <2>2, <3>1, SettleAnswers
    <3>3. call[c].at \in call[c].since..clock
      BY <1>0, <2>1 DEF TimeInv, CallType
    <3>4. Atomic!Decline(c, call[c].at)
      BY <1>3, <2>2, <3>2 DEF Atomic!Decline, Atomic!LiveAt, LiveAt, Get
    <3> QED
      BY <3>2, <3>3, <3>4 DEF Atomic!Next
  <2>3. CASE call' = [call EXCEPT ![c].st = "writing", ![c].seen = item]
    <3>1. /\ call' = [call EXCEPT ![c] = call'[c]] /\ call'[c].st = "writing"
          /\ call'[c].run = call[c].run /\ call'[c].since = call[c].since
      <4>1. /\ call' = [call EXCEPT ![c] = call'[c]]
            /\ call'[c] = [call[c] EXCEPT !.st = "writing", !.seen = item]
        BY <1>0, <2>3
      <4> QED
        BY <1>0, <4>1 DEF CallType
    <3> QED
      BY <1>0, <1>3, <2>1, <3>1, SilentCall DEF Atomic!vars, Get
  <2> QED
    BY <1>3, <2>2, <2>3 DEF Get
<1>4. ASSUME NEW c \in Calls, Put(c)
      PROVE  Atomic!Next
  <2> DEFINE out == Outcome(call[c].run, LiveAt(call[c].seen, call[c].at))
  <2>1. Running(c) /\ call[c].st = "writing" /\ call[c].run \in Transforms
        /\ call[c].at \in Nat /\ call[c].seen \in ItemType
    BY <1>0, <1>4 DEF Put, Running, TypeInv, RunInv, CallType
  <2>2. LiveAt(call[c].seen, call[c].at) = LiveAt(item, call[c].at)
    <3>1. CASE call[c].seen.has
      BY <1>4, <2>1, <3>1 DEF Put, UnchangedSince, StampInv
    <3>2. CASE ~call[c].seen.has
      BY <1>4, <3>2 DEF Put, UnchangedSince, LiveAt
    <3> QED
      BY <3>1, <3>2
  <2>3. out.persist
    BY <2>1 DEF PersistInv
  <2>4. out.result \in Results
    BY <2>1, OutcomeType
  <2>5. PICK res \in {out.result, "error"} : Settle(c, res)
    BY <1>4 DEF Put
  <2>6. Atomic!Answer(c, res)
        /\ Abstract(call[c]) = [st |-> "open", run |-> call[c].run, since |-> call[c].since]
    BY <2>1, <2>4, <2>5, SettleAnswers
  <2>7. call[c].at \in call[c].since..clock
    BY <1>0, <2>1 DEF TimeInv, CallType
  <2>8. LiveAt(item, call[c].at) = Atomic!LiveAt([has |-> item.has, state |-> item.state,
                                                 until |-> item.until], call[c].at)
    BY DEF LiveAt, Atomic!LiveAt
  <2>9. item'.has = TRUE /\ item'.state = out.state /\ item'.until = call[c].at + Atomic!Ttl(out)
    BY <1>4 DEF Put, Written, Ttl, Atomic!Ttl
  <2>10. Atomic!Commit(c, call[c].at)
    <3>1. Outcome([d \in Calls |-> Abstract(call[d])][c].run,
                  Atomic!LiveAt([has |-> item.has, state |-> item.state, until |-> item.until],
                                call[c].at)) = out
      BY <2>2, <2>6, <2>8
    <3>2. Atomic!Answer(c, out.result) \/ Atomic!Answer(c, "error")
      BY <2>5, <2>6
    <3> HIDE DEF out
    <3> QED
      BY <1>4, <2>3, <2>9, <3>1, <3>2 DEF Atomic!Commit, Put
  <2> QED
    BY <2>6, <2>7, <2>10 DEF Atomic!Next
<1>5. ASSUME NEW c \in Calls, PutRefused(c)
      PROVE  [Atomic!Next]_(Atomic!vars)
  <2>1. Running(c) /\ call[c].st = "writing" /\ UNCHANGED <<clock, item>>
    BY <1>5 DEF PutRefused, Running
  <2>2. CASE Settle(c, "error")
    BY <2>1, <2>2, FailSimulates
  <2>3. CASE call' = [call EXCEPT ![c].st = "queued", ![c].attempt = @ + 1, ![c].seen = NoItem]
    <3>1. /\ call' = [call EXCEPT ![c] = call'[c]] /\ call'[c].st = "queued"
          /\ call'[c].run = call[c].run /\ call'[c].since = call[c].since
      BY <1>0, <2>3 DEF CallType
    <3> QED
      BY <1>0, <2>1, <3>1, SilentCall DEF Atomic!vars
  <2> QED
    BY <1>5, <2>2, <2>3 DEF PutRefused
<1>6. ASSUME NEW c \in Calls, CallFails(c)
      PROVE  Atomic!Next
  <2>1. Running(c) /\ Settle(c, "error") /\ UNCHANGED <<clock, item>>
    BY <1>6 DEF CallFails, Running
  <2> QED
    BY <2>1, FailSimulates
<1>7. ASSUME Deleted
      PROVE  Atomic!Next
  <2>1. Atomic!Forget
    BY <1>7 DEF Deleted, NoItem, Atomic!Forget, Atomic!Nothing
  <2> QED
    BY <2>1 DEF Atomic!Next
<1>8. ASSUME Tick
      PROVE  Atomic!Next
  <2>1. Atomic!Tick
    BY <1>8 DEF Tick, Atomic!Tick
  <2> QED
    BY <2>1 DEF Atomic!Next
<1>9. ASSUME UNCHANGED vars
      PROVE  UNCHANGED Atomic!vars
  BY <1>9 DEF vars, Atomic!vars
<1> QED
  BY <1>1, <1>2, <1>3, <1>4, <1>5, <1>6, <1>7, <1>8, <1>9 DEF Next, Reset, Reclaim

\* The Store contract, for any number of processes and calls and for every
\* transform: where versions are never reused (Deno KV), apply() is atomic.
THEOREM AtomicRefinement == ASSUME UniqueStamps PROVE Spec => AtomicApply
<1> DEFINE Inv == TypeInv /\ StampInv /\ TimeInv /\ PersistInv
<1>1. Init => Inv /\ Atomic!Init
  <2> SUFFICES ASSUME Init
               PROVE  Inv /\ Atomic!Init
    OBVIOUS
  <2>1. TypeInv
    BY TypeInit
  <2>2. StampInv /\ TimeInv /\ PersistInv
    BY DEF Init, StampInv, TimeInv, PersistInv, NoItem, IdleCall, Running
  <2>3. \A c \in Calls : call[c].st = "idle" /\ Abstract(call[c]) = [st |-> "idle"]
    BY <2>1, AbstractCases DEF Init, IdleCall, TypeInv, TypeOK
  <2>4. Atomic!Init
    BY <2>3 DEF Init, Atomic!Init, Atomic!Nothing, NoItem
  <2> QED
    BY <2>1, <2>2, <2>4
<1>2. Inv /\ [Next]_vars => Inv'
  BY TypeStep, StampStep, TimeStep, PersistStep
<1>3. Inv /\ [Next]_vars => [Atomic!Next]_(Atomic!vars)
  BY AtomicStep
<1> QED
  BY <1>1, <1>2, <1>3, PTL DEF Spec, AtomicApply, Atomic!Spec
=============================================================================
