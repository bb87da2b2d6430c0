--------------------------- MODULE ProtocolProofs ---------------------------
(***************************************************************************)
(* The protocol layer: its requester keeps the promise of RequestPromise   *)
(* and gives a call its own answer, and the hash table of the other        *)
(* instances holds what their users left in it, for any number of calls,   *)
(* slots, sequence numbers, names, buckets and entries.                    *)
(*                                                                         *)
(* The promise is broken where a callback runs for a call that is not      *)
(* pending.  PoolInv excludes that: a slot in use belongs to a pending     *)
(* call of its own, except for the slot whose callback is running, which   *)
(* the code frees only afterwards and whose call is done.                  *)
(*                                                                         *)
(* An answer is matched by its number alone.  AnswerInv says why that is   *)
(* enough: a frame whose call no longer waits under the frame's number has *)
(* the number of a call that expired.                                      *)
(***************************************************************************)
EXTENDS Protocol, SequenceTheorems, FiniteSetTheorems, TLAPS

\* Most leaves are first-order reasoning about functions, sets and records, which
\* Zenon does well; a leaf that needs arithmetic or sequences names SMT.
USE Zenon

-----------------------------------------------------------------------------
(* The pool of pending calls. *)

\* The callback of slot i is running.
Calling(i) == pc \in {"expired", "replied"} /\ i = cur

SlotOwner ==
    \A i \in Slots : slots[i].use =>
        /\ slots[i].call \in Calls
        /\ status[slots[i].call] = IF Calling(i) THEN "done" ELSE "pending"

OwnSlot ==
    \A i, j \in Slots :
        i # j /\ slots[i].use /\ slots[j].use => slots[i].call # slots[j].call

PoolInv ==
    /\ TypeOK
    /\ pc \in {"expired", "replied"} => cur \in Slots /\ slots[cur].use
    /\ SlotOwner
    /\ OwnSlot

\* A number taken modulo NSeq is a sequence number.
LEMMA SeqnoType == ASSUME NEW n \in Nat PROVE n % NSeq \in Seqnos
  BY RpcAssumption, SMTT(30) DEF Seqnos

\* The pool starts empty, as ssn_rpc_req_create leaves it.
LEMMA InitPool == Init => PoolInv
<1> SUFFICES ASSUME Init PROVE PoolInv
  OBVIOUS
<1>1. 1 % NSeq \in Seqnos /\ 0 \in Seqnos
  BY SeqnoType, RpcAssumption, SMTT(30) DEF Seqnos
<1>2. TypeOK
  BY <1>1 DEF Init, TypeOK, FreeSlot
<1>3. \A i \in Slots : ~slots[i].use
  BY DEF Init, FreeSlot
<1> QED
  BY <1>2, <1>3 DEF PoolInv, SlotOwner, OwnSlot, Init

\* ssn_rpc_call keeps the pool in order: a call takes a slot that nobody has,
\* and its own call is in no other, since it was not made before.
LEMMA CallPool ==
  ASSUME PoolInv, NEW c \in Calls, CallFull(c) \/ Call(c)
  PROVE  PoolInv' /\ (Promise!Refuse(c) \/ Promise!Accept(c))
<1> USE DEF PoolInv, TypeOK, Makes
<1>1. CASE CallFull(c)
  BY <1>1 DEF CallFull, Refuse, pool, net, hist, SlotOwner, OwnSlot, Calling, Promise!Refuse
<1>2. CASE Call(c)
  <2>1. PICK i \in Slots, k \in 0 .. NSlots :
            /\ IsFirstFree(i)
            /\ next' = (((next + k) % NSeq) + 1) % NSeq
            /\ \/ /\ slots' = [slots EXCEPT ![i] = [use |-> TRUE, seq |-> (next + k) % NSeq,
                                                    call |-> c, due |-> FALSE]]
                  /\ status' = [status EXCEPT ![c] = "pending"]
               \/ /\ slots' = [slots EXCEPT ![i] = [use |-> FALSE, seq |-> (next + k) % NSeq,
                                                    call |-> c, due |-> FALSE]]
                  /\ status' = [status EXCEPT ![c] = "refused"]
    BY <1>2 DEF Call, Refuse
  <2>2. (next + k) % NSeq \in Seqnos /\ (((next + k) % NSeq) + 1) % NSeq \in Seqnos
    <3>1. next + k \in Nat
      BY RpcAssumption, SMTT(30) DEF Seqnos
    <3>2. (next + k) % NSeq \in Seqnos
      BY <3>1, SeqnoType
    <3>3. ((next + k) % NSeq) + 1 \in Nat
      BY <3>2, RpcAssumption, SMTT(30) DEF Seqnos
    <3> QED
      BY <3>2, <3>3, SeqnoType
  <2>3. /\ status[c] = "open"
        /\ UNCHANGED <<pc, cur, runs>>
    BY <1>2 DEF Call
  <2>4. TypeOK'
    <3>1. \A b \in BOOLEAN :
            [use |-> b, seq |-> (next + k) % NSeq, call |-> c, due |-> FALSE]
              \in [use : BOOLEAN, seq : Seqnos, call : Calls \cup {NoCall}, due : BOOLEAN]
      BY <2>2
    <3>2. slots' \in [Slots -> [use : BOOLEAN, seq : Seqnos, call : Calls \cup {NoCall},
                                due : BOOLEAN]]
      BY <2>1, <3>1
    <3>3. status' \in [Calls -> {"open", "refused", "pending", "done"}]
      BY <2>1
    <3>4. next' \in Seqnos
      BY <2>1, <2>2
    <3> QED
      BY <3>2, <3>3, <3>4, <2>3
  <2>5. \A j \in Slots : slots[j].use => slots[j].call # c
    BY <2>3 DEF SlotOwner
  <2>6. \A j \in Slots : j # i => slots'[j] = slots[j]
    BY <2>1
  <2>7. ~slots[i].use
    BY <2>1 DEF IsFirstFree
  <2>8. SlotOwner' /\ OwnSlot'
    <3>1. CASE /\ slots' = [slots EXCEPT ![i] = [use |-> TRUE, seq |-> (next + k) % NSeq,
                                                    call |-> c, due |-> FALSE]]
               /\ status' = [status EXCEPT ![c] = "pending"]
      <4>1. ~Calling(i)
        BY <2>7 DEF Calling
      <4> QED
      BY <3>1, <2>3, <2>5, <2>6, <2>7, ZenonT(30) DEF SlotOwner, OwnSlot, Calling
    <3>2. CASE /\ slots' = [slots EXCEPT ![i] = [use |-> FALSE, seq |-> (next + k) % NSeq,
                                                    call |-> c, due |-> FALSE]]
               /\ status' = [status EXCEPT ![c] = "refused"]
      BY <3>2, <2>3, <2>5, <2>6, <2>7, ZenonT(30) DEF SlotOwner, OwnSlot, Calling
    <3> QED
      BY <2>1, <3>1, <3>2
  <2>9. Promise!Refuse(c) \/ Promise!Accept(c)
    BY <2>1, <2>3 DEF Promise!Refuse, Promise!Accept
  <2>10. (pc \in {"expired", "replied"} => cur \in Slots /\ slots[cur].use)'
    BY <2>3, <2>6, <2>7
  <2> QED
    BY <2>4, <2>8, <2>9, <2>10
<1> QED
  BY <1>1, <1>2

\* A callback runs, for an answer or an expired call: the slot was in use, so
\* that its call was pending and is done now.
LEMMA CallbackPool ==
  ASSUME PoolInv, NEW i \in Slots, NEW ret \in {"expired", "replied"},
         Polls, slots[i].use, Callback(i, ret), UNCHANGED pool
  PROVE  PoolInv' /\ slots[i].call \in Calls /\ Promise!Complete(slots[i].call)
<1> USE DEF PoolInv, TypeOK
<1>1. /\ slots[i].call \in Calls
      /\ status[slots[i].call] = "pending"
  BY DEF SlotOwner, Calling, Polls
<1>2. Promise!Complete(slots[i].call)
  BY <1>1 DEF Callback, Promise!Complete
<1>3. /\ slots' = slots /\ next' = next /\ cur' = i /\ pc' = ret
      /\ status' = [status EXCEPT ![slots[i].call] = "done"]
  BY DEF Callback, pool
<1>4. TypeOK'
  <2>1. runs' \in [Calls -> Nat]
    BY <1>1, SMTT(30) DEF Callback
  <2>2. i \in Nat
    BY RpcAssumption, SMTT(30) DEF Slots
  <2> QED
    BY <1>1, <1>3, <2>1, <2>2
<1>5. SlotOwner'
  <2> SUFFICES ASSUME NEW j \in Slots, slots[j].use
               PROVE  /\ slots[j].call \in Calls
                      /\ status'[slots[j].call] = IF j = i THEN "done" ELSE "pending"
    BY <1>3 DEF SlotOwner, Calling
  <2>1. slots[j].call \in Calls /\ status[slots[j].call] = "pending"
    BY DEF SlotOwner, Calling, Polls
  <2>2. j # i => slots[j].call # slots[i].call
    BY DEF OwnSlot
  <2> QED
    BY <1>1, <1>3, <2>1, <2>2
<1>6. OwnSlot'
  BY <1>3 DEF OwnSlot
<1> QED
  BY <1>1, <1>2, <1>3, <1>4, <1>5, <1>6

\* Freeing the slot after its callback keeps the pool in order, whatever calls
\* the callback made: its own slot was in use all the time.
LEMMA FreePool ==
  ASSUME PoolInv, pc \in {"expired", "replied"}, slots' = Freed(cur),
         pc' \in {"expire", "idle"}, cur' \in Nat, UNCHANGED <<next, status, runs>>
  PROVE  PoolInv'
<1> USE DEF PoolInv, TypeOK, Freed
<1>1. TypeOK'
  OBVIOUS
<1>2. \A j \in Slots : slots'[j].use => slots[j].use /\ j # cur
  OBVIOUS
<1>3. \A j \in Slots : slots'[j].call = slots[j].call
  OBVIOUS
<1>4. SlotOwner'
  BY <1>2, <1>3 DEF SlotOwner, Calling
<1>5. OwnSlot'
  BY <1>2, <1>3 DEF OwnSlot
<1> QED
  BY <1>1, <1>4, <1>5

\* Steps that leave the pool, the calls and the callback alone.
LEMMA IdlePool ==
  ASSUME PoolInv, UNCHANGED <<pool, status, runs>>,
         \/ UNCHANGED <<pc, cur>>
         \/ Polls /\ pc' \in {"idle", "gone"} /\ cur' \in Nat
  PROVE  PoolInv'
<1> USE DEF PoolInv, TypeOK, pool
<1>1. TypeOK'
  OBVIOUS
<1>2. SlotOwner'
  BY DEF SlotOwner, Calling, Polls
<1>3. OwnSlot'
  BY DEF OwnSlot
<1> QED
  BY <1>1, <1>2, <1>3

\* The clock moves no call to another slot.
LEMMA ElapsePool ==
  ASSUME PoolInv, NEW i \in Slots, Elapse(i)
  PROVE  PoolInv'
<1> USE DEF PoolInv, TypeOK, Elapse
<1>1. TypeOK'
  OBVIOUS
<1>2. \A j \in Slots : slots'[j].use = slots[j].use /\ slots'[j].call = slots[j].call
  OBVIOUS
<1> QED
  BY <1>1, <1>2, SMTT(30) DEF SlotOwner, OwnSlot, Calling

\* Every step of the program keeps PoolInv and is a step of the promise, or one
\* that no caller sees.
LEMMA StepPool ==
  ASSUME PoolInv, [Next]_vars
  PROVE  PoolInv' /\ [Promise!PromiseNext]_(Promise!promiseVars)
<1> USE DEF Promise!promiseVars
<1>1. ASSUME NEW c \in Calls, CallFull(c) \/ Call(c)
      PROVE  PoolInv' /\ [Promise!PromiseNext]_(Promise!promiseVars)
  BY <1>1, CallPool DEF Promise!PromiseNext
<1>2. ASSUME NEW i \in Slots, NEW ret \in {"expired", "replied"},
             Polls, slots[i].use, Callback(i, ret), UNCHANGED pool
      PROVE  PoolInv' /\ [Promise!PromiseNext]_(Promise!promiseVars)
  BY <1>2, CallbackPool DEF Promise!PromiseNext
<1>3. ASSUME NEW i \in Slots, Expire(i)
      PROVE  PoolInv' /\ [Promise!PromiseNext]_(Promise!promiseVars)
  BY <1>2, <1>3 DEF Expire, IsDue
<1>4. CASE ExpireFree
  <2>1. cur + 1 \in Nat
    BY SMTT(30) DEF PoolInv, TypeOK
  <2> QED
    BY <1>4, <2>1, FreePool DEF ExpireFree
<1>5. CASE ReplyFree
  BY <1>5, FreePool DEF ReplyFree
<1>6. CASE PollReply
  <2>1. Polls /\ UNCHANGED pool /\ HandleReply(toReq[1])
    BY <1>6 DEF PollReply
  <2>2. CASE InFlight(slots, toReq[1].seq)
    <3>1. PICK i \in Slots : slots[i].use /\ Callback(i, "replied")
      BY <2>1, <2>2 DEF HandleReply
    <3> QED
      BY <1>2, <2>1, <3>1
  <2>3. CASE ~InFlight(slots, toReq[1].seq)
    <3>1. pc' = "idle" /\ cur' = 1 /\ UNCHANGED <<status, runs>>
      BY <2>1, <2>3 DEF HandleReply
    <3> QED
      BY <2>1, <3>1, IdlePool
  <2> QED
    BY <2>2, <2>3
<1>7. CASE PollNothing
  BY <1>7, IdlePool DEF PollNothing
<1>8. CASE Destroy
  <2>1. cur \in Nat /\ Polls
    BY <1>8 DEF Destroy, PoolInv, TypeOK, Polls
  <2> QED
    BY <1>8, <2>1, IdlePool DEF Destroy
<1>9. ASSUME HandleRequest \/ Lose \/ Connect \/ (\E q \in asked : Response(q))
      PROVE  PoolInv' /\ [Promise!PromiseNext]_(Promise!promiseVars)
  <2>1. UNCHANGED <<pool, pc, cur, status, runs>>
    BY <1>9 DEF HandleRequest, Lose, Connect, Response
  <2> QED
    BY <2>1, IdlePool
<1>10. ASSUME NEW i \in Slots, Elapse(i)
       PROVE  PoolInv' /\ [Promise!PromiseNext]_(Promise!promiseVars)
  <2>1. UNCHANGED <<status, runs>>
    BY <1>10 DEF Elapse
  <2> QED
    BY <1>10, <2>1, ElapsePool
<1>11. CASE UNCHANGED vars
  BY <1>11, IdlePool DEF vars
<1> QED
  BY <1>1, <1>3, <1>4, <1>5, <1>6, <1>7, <1>8, <1>9, <1>10, <1>11 DEF Next, PollStep

-----------------------------------------------------------------------------
(* Frames and their numbers. *)

\* Every frame is a frame of its own call: no other place of Q has one of that call.
Single(Q) == \A a, b \in 1 .. Len(Q) : a # b => Q[a].call # Q[b].call

In(Q) == {Q[a] : a \in 1 .. Len(Q)}
InTransit == In(toRep) \cup asked \cup In(toReq)

\* A call has one frame, which is on its way there, with the replier, or on its
\* way back; a call that was not made has none.
OneFrame ==
    /\ toRep \in Seq(Frames) /\ toReq \in Seq(Frames) /\ asked \subseteq Frames
    /\ Single(toRep) /\ Single(toReq)
    /\ \A f, g \in asked : f.call = g.call => f = g
    /\ \A f \in In(toRep) : \A g \in asked \cup In(toReq) : f.call # g.call
    /\ \A f \in asked : \A g \in In(toReq) : f.call # g.call
    /\ \A f \in InTransit : status[f.call] # "open"

\* A slot waits for the answer f.
Waits(f, i) ==
    /\ slots[i].use /\ ~Calling(i)
    /\ slots[i].seq = f.seq /\ slots[i].call = f.call

AnswerInv ==
    /\ OneFrame
    /\ \A i, j \in Slots :
          i # j /\ slots[i].use /\ slots[j].use => slots[i].seq # slots[j].seq
    /\ \A i \in Slots :
          slots[i].use /\ ~Calling(i) /\ slots[i].seq \in stale => slots[i].call \in risky
    /\ \A f \in InTransit : f.seq \in stale \/ \E i \in Slots : Waits(f, i)
    /\ wrong \subseteq risky

\* What recv() leaves on a connection is some of the frames that were there, and
\* the one that is looked at is not among them.
LEMMA RestFrames ==
  ASSUME NEW Q \in Seq(Frames), Single(Q), NEW k \in 1 .. Len(Q)
  PROVE  /\ Rest(Q, k) \in Seq(Frames) /\ Single(Rest(Q, k))
         /\ In(Rest(Q, k)) \subseteq In(Q)
         /\ Q[1] \in In(Q)
         /\ \A g \in In(Rest(Q, k)) : g.call # Q[1].call
<1>1. Len(Q) \in Nat /\ \A a \in 1 .. Len(Q) : Q[a] \in Frames
  BY LenProperties, ElementOfSeq
<1>2. \A a \in (k + 1) .. Len(Q) : Q[a] \in Frames
  BY <1>1, SMTT(30)
<1>3. /\ Rest(Q, k) \in Seq(Frames)
      /\ Len(Rest(Q, k)) = IF k + 1 <= Len(Q) THEN Len(Q) - (k + 1) + 1 ELSE 0
      /\ \A a \in 1 .. (Len(Q) - (k + 1) + 1) : Rest(Q, k)[a] = Q[(k + 1) + a - 1]
  <2>1. k + 1 \in Int /\ Len(Q) \in Int
    BY <1>1, SMTT(30)
  <2> QED
    BY <1>2, <2>1, SubSeqProperties, SMTT(30) DEF Rest
<1>4. \A a \in 1 .. Len(Rest(Q, k)) : a + k \in 2 .. Len(Q) /\ Rest(Q, k)[a] = Q[a + k]
  <2> SUFFICES ASSUME NEW a \in 1 .. Len(Rest(Q, k))
               PROVE  a + k \in 2 .. Len(Q) /\ Rest(Q, k)[a] = Q[a + k]
    OBVIOUS
  <2>1. a \in 1 .. (Len(Q) - (k + 1) + 1) /\ a + k \in 2 .. Len(Q)
    BY <1>1, <1>3, SMTT(30)
  <2>2. (k + 1) + a - 1 = a + k
    BY <1>1, <2>1, SMTT(30)
  <2> QED
    BY <1>3, <2>1, <2>2
<1>5. Len(Rest(Q, k)) \in Nat
  BY <1>1, <1>3, SMTT(30)
<1>6. \A a, b \in 1 .. Len(Rest(Q, k)) : a # b => a + k # b + k
  BY <1>5, SMTT(30)
<1>7. 1 \in 1 .. Len(Q) /\ \A x \in 2 .. Len(Q) : x \in 1 .. Len(Q) /\ x # 1
  BY <1>1, SMTT(30)
<1>8. Single(Rest(Q, k))
  <2> SUFFICES ASSUME NEW a \in 1 .. Len(Rest(Q, k)), NEW b \in 1 .. Len(Rest(Q, k)), a # b
               PROVE  Rest(Q, k)[a].call # Rest(Q, k)[b].call
    BY DEF Single
  <2>1. /\ a + k \in 1 .. Len(Q) /\ b + k \in 1 .. Len(Q) /\ a + k # b + k
        /\ Rest(Q, k)[a] = Q[a + k] /\ Rest(Q, k)[b] = Q[b + k]
    BY <1>4, <1>6, <1>7
  <2>2. Q[a + k].call # Q[b + k].call
    BY <2>1 DEF Single
  <2> QED
    BY <2>1, <2>2
<1>9. /\ In(Rest(Q, k)) \subseteq In(Q) /\ Q[1] \in In(Q)
      /\ \A g \in In(Rest(Q, k)) : g.call # Q[1].call
  <2>1. Q[1] \in In(Q)
    BY <1>7 DEF In
  <2> SUFFICES ASSUME NEW g \in In(Rest(Q, k))
               PROVE  g \in In(Q) /\ g.call # Q[1].call
    BY <2>1
  <2>2. PICK a \in 1 .. Len(Rest(Q, k)) : g = Rest(Q, k)[a]
    BY DEF In
  <2>3. a + k \in 1 .. Len(Q) /\ a + k # 1 /\ g = Q[a + k]
    BY <1>4, <1>7, <2>2
  <2> QED
    BY <1>7, <2>3 DEF In, Single
<1> QED
  BY <1>3, <1>8, <1>9

\* A frame that was cut goes alone.
LEMMA TailFrames ==
  ASSUME NEW Q \in Seq(Frames), Single(Q), Q # <<>>
  PROVE  /\ Tail(Q) \in Seq(Frames) /\ Single(Tail(Q))
         /\ In(Tail(Q)) \subseteq In(Q)
<1>1. Len(Q) \in Nat \ {0}
  BY EmptySeq
<1>2. Tail(Q) = Rest(Q, 1)
  BY <1>1, TailIsSubSeq, SMTT(30) DEF Rest
<1>3. 1 \in 1 .. Len(Q)
  BY <1>1, SMTT(30)
<1> QED
  BY <1>2, <1>3, RestFrames

\* A frame of a call that has none there is sent.
LEMMA AppendFrames ==
  ASSUME NEW Q \in Seq(Frames), Single(Q), NEW f \in Frames,
         \A g \in In(Q) : g.call # f.call
  PROVE  /\ Append(Q, f) \in Seq(Frames) /\ Single(Append(Q, f))
         /\ In(Append(Q, f)) = In(Q) \cup {f}
<1>1. /\ Len(Q) \in Nat
      /\ Append(Q, f) \in Seq(Frames) /\ Len(Append(Q, f)) = Len(Q) + 1
      /\ \A a \in 1 .. Len(Q) : Append(Q, f)[a] = Q[a]
      /\ Append(Q, f)[Len(Q) + 1] = f
  BY LenProperties, AppendProperties, SMTT(30)
<1>2. \A a \in 1 .. Len(Append(Q, f)) : a \in 1 .. Len(Q) \/ a = Len(Q) + 1
  BY <1>1, SMTT(30)
<1>3. 1 .. Len(Q) \subseteq 1 .. Len(Append(Q, f)) /\ Len(Q) + 1 \in 1 .. Len(Append(Q, f))
  BY <1>1, SMTT(30)
<1>4. In(Append(Q, f)) = In(Q) \cup {f}
  BY <1>1, <1>2, <1>3 DEF In
<1>5. \A a \in 1 .. Len(Q) : Q[a].call # f.call
  BY DEF In
<1>6. Single(Append(Q, f))
  BY <1>1, <1>2, <1>5 DEF Single
<1> QED
  BY <1>1, <1>4, <1>6

\* A requester that was just created has sent nothing.
LEMMA InitAnswer == Init => AnswerInv
<1> SUFFICES ASSUME Init PROVE AnswerInv
  OBVIOUS
<1>1. toRep \in Seq(Frames) /\ toReq \in Seq(Frames) /\ Len(toRep) = 0 /\ Len(toReq) = 0
  BY EmptySeq DEF Init
<1>2. In(toRep) = {} /\ In(toReq) = {} /\ Single(toRep) /\ Single(toReq)
  BY <1>1, SMTT(30) DEF In, Single
<1>3. \A i \in Slots : ~slots[i].use
  BY DEF Init, FreeSlot
<1>4. asked = {} /\ InTransit = {} /\ wrong = {}
  BY <1>2 DEF InTransit, Init
<1> QED
  BY <1>1, <1>2, <1>3, <1>4 DEF AnswerInv, OneFrame

\* Frames that are lost leave every call its one frame at most.
LEMMA FewerFrames ==
  ASSUME OneFrame, toRep' \in Seq(Frames), Single(toRep'), In(toRep') \subseteq In(toRep),
         toReq' \in Seq(Frames), Single(toReq'), In(toReq') \subseteq In(toReq),
         asked' \subseteq asked,
         \A c \in Calls : status'[c] = "open" => status[c] = "open"
  PROVE  OneFrame' /\ InTransit' \subseteq InTransit
<1>1. InTransit' \subseteq InTransit
  BY DEF InTransit, In
<1>2. \A f \in InTransit : f.call \in Calls
  <2>1. /\ \A a \in 1 .. Len(toRep) : toRep[a] \in Frames
        /\ \A a \in 1 .. Len(toReq) : toReq[a] \in Frames
    BY ElementOfSeq DEF OneFrame
  <2>2. InTransit \subseteq Frames
    BY <2>1, SMTT(30) DEF OneFrame, InTransit, In
  <2> QED
    BY <2>2 DEF Frames
<1>3. \A f \in InTransit' : status'[f.call] # "open"
  BY <1>1, <1>2 DEF OneFrame
<1>4. In(toRep)' = In(toRep') /\ In(toReq)' = In(toReq')
  BY DEF In
<1>5. Single(toRep)' /\ Single(toReq)'
  BY DEF Single
<1> QED
  BY <1>1, <1>3, <1>4, <1>5 DEF OneFrame

\* ssn_rpc_handle_request: the frame goes from the connection to the replier.
LEMMA RequestFrames ==
  ASSUME OneFrame, HandleRequest
  PROVE  OneFrame' /\ InTransit' \subseteq InTransit
<1>1. UNCHANGED <<status, toReq>>
  BY DEF HandleRequest
<1>2. ASSUME NEW k \in 1 .. Len(toRep), toRep' = Rest(toRep, k), asked' = asked \cup {toRep[1]}
      PROVE  OneFrame' /\ InTransit' \subseteq InTransit
  <2>1. /\ toRep' \in Seq(Frames) /\ Single(toRep')
        /\ In(toRep') \subseteq In(toRep) /\ toRep[1] \in In(toRep)
        /\ \A g \in In(toRep') : g.call # toRep[1].call
    BY <1>2, RestFrames DEF OneFrame
  <2>2. In(toRep)' = In(toRep') /\ In(toReq)' = In(toReq) /\ Single(toRep)' /\ Single(toReq)'
    BY <1>1, <2>1, ZenonT(30) DEF In, Single, OneFrame
  <2>3. toRep[1] \in Frames
    BY <2>1, ElementOfSeq DEF OneFrame, In
  <2>4. InTransit' \subseteq InTransit
    BY <1>2, <2>1, <2>2 DEF InTransit
  <2> QED
    BY <1>1, <1>2, <2>1, <2>2, <2>3, <2>4, SMTT(30) DEF OneFrame
<1>3. ASSUME toRep # <<>>, toRep' = Tail(toRep), UNCHANGED asked
      PROVE  OneFrame' /\ InTransit' \subseteq InTransit
  BY <1>1, <1>3, TailFrames, FewerFrames DEF OneFrame
<1> QED
  BY <1>2, <1>3 DEF HandleRequest

\* ssn_rpc_response: the frame goes from the replier to the connection, or nowhere.
LEMMA ResponseFrames ==
  ASSUME OneFrame, NEW q \in asked, Response(q)
  PROVE  OneFrame' /\ InTransit' \subseteq InTransit
<1>1. UNCHANGED <<status, toRep>> /\ asked' = asked \ {q}
  BY DEF Response
<1>2. CASE toReq' = Append(toReq, q)
  <2>1. q \in Frames /\ \A g \in In(toReq) : g.call # q.call
    BY DEF OneFrame
  <2>2. /\ toReq' \in Seq(Frames) /\ Single(toReq')
        /\ In(toReq') = In(toReq) \cup {q}
    BY <1>2, <2>1, AppendFrames DEF OneFrame
  <2>3. In(toReq)' = In(toReq') /\ In(toRep)' = In(toRep) /\ Single(toRep)' /\ Single(toReq)'
    BY <1>1, <2>2, SMTT(30) DEF In, Single, OneFrame
  <2>4. InTransit' \subseteq InTransit
    BY <1>1, <2>2, <2>3 DEF InTransit
  <2> QED
    BY <1>1, <2>1, <2>2, <2>3, <2>4 DEF OneFrame
<1>3. CASE UNCHANGED toReq
  BY <1>1, <1>3, FewerFrames DEF OneFrame
<1> QED
  BY <1>2, <1>3 DEF Response

\* The frames after a step that sends none for a new call.
LEMMA QuietFrames ==
  ASSUME PoolInv, OneFrame,
         \/ HandleRequest \/ (\E q \in asked : Response(q)) \/ Lose \/ PollNothing
         \/ /\ UNCHANGED <<toRep, asked>>
            /\ UNCHANGED toReq \/ \E k \in 1 .. Len(toReq) : toReq' = Rest(toReq, k)
            /\ \A c \in Calls : status'[c] = "open" => status[c] = "open"
  PROVE  OneFrame' /\ InTransit' \subseteq InTransit
<1>1. CASE HandleRequest
  BY <1>1, RequestFrames
<1>2. CASE \E q \in asked : Response(q)
  BY <1>2, ResponseFrames
<1>3. CASE Lose
  <2>1. /\ toRep' = <<>> /\ toReq' = <<>> /\ UNCHANGED <<asked, status>>
        /\ <<>> \in Seq(Frames) /\ Len(<<>>) = 0
    BY <1>3, EmptySeq DEF Lose
  <2>2. In(toRep') = {} /\ In(toReq') = {} /\ Single(toRep') /\ Single(toReq')
    BY <2>1, SMTT(30) DEF In, Single
  <2> QED
    BY <2>1, <2>2, FewerFrames
<1>4. CASE PollNothing
  <2>1. UNCHANGED <<status, toRep, asked>>
    BY <1>4 DEF PollNothing
  <2>2. CASE UNCHANGED toReq
    BY <2>1, <2>2, FewerFrames DEF OneFrame
  <2>3. CASE toReq # <<>> /\ toReq' = Tail(toReq)
    BY <2>1, <2>3, TailFrames, FewerFrames DEF OneFrame
  <2> QED
    BY <1>4, <2>2, <2>3 DEF PollNothing
<1>5. CASE /\ UNCHANGED <<toRep, asked>>
           /\ UNCHANGED toReq \/ \E k \in 1 .. Len(toReq) : toReq' = Rest(toReq, k)
           /\ \A c \in Calls : status'[c] = "open" => status[c] = "open"
  <2>1. CASE UNCHANGED toReq
    BY <1>5, <2>1, FewerFrames DEF OneFrame
  <2>2. ASSUME NEW k \in 1 .. Len(toReq), toReq' = Rest(toReq, k)
        PROVE  OneFrame' /\ InTransit' \subseteq InTransit
    BY <1>5, <2>2, RestFrames, FewerFrames DEF OneFrame
  <2> QED
    BY <1>5, <2>1, <2>2
<1> QED
  BY <1>1, <1>2, <1>3, <1>4, <1>5

\* Frames that go, and slots that are freed after their callback, harm no call
\* that waits.
LEMMA KeptAnswer ==
  ASSUME AnswerInv, OneFrame', InTransit' \subseteq InTransit,
         UNCHANGED <<stale, risky, wrong>>,
         \A i \in Slots :
            /\ slots'[i].use => slots[i].use
            /\ slots'[i].seq = slots[i].seq /\ slots'[i].call = slots[i].call
            /\ slots[i].use /\ ~Calling(i) => slots'[i].use /\ ~Calling(i)'
            /\ slots'[i].use /\ ~Calling(i)' => ~Calling(i)
  PROVE  AnswerInv'
<1>1. \A f, i : i \in Slots /\ Waits(f, i) => Waits(f, i)'
  BY DEF Waits
<1>2. \A f \in InTransit' : f.seq \in stale' \/ \E i \in Slots : Waits(f, i)'
  BY <1>1 DEF AnswerInv
<1> QED
  BY <1>2, ZenonT(30) DEF AnswerInv

\* The steps that begin no call and no callback keep AnswerInv.
LEMMA QuietAnswer ==
  ASSUME PoolInv, AnswerInv, OneFrame', InTransit' \subseteq InTransit,
         UNCHANGED <<stale, risky, wrong>>,
         \/ UNCHANGED <<slots, pc, cur>>
         \/ UNCHANGED slots /\ pc \in {"idle", "expire"} /\ pc' \in {"idle", "gone"}
         \/ pc \in {"expired", "replied"} /\ slots' = Freed(cur) /\ pc' \in {"idle", "expire"}
         \/ \E i \in Slots : slots' = [slots EXCEPT ![i].due = TRUE] /\ UNCHANGED <<pc, cur>>
  PROVE  AnswerInv'
<1> USE DEF Calling
<1>1. slots \in [Slots -> [use : BOOLEAN, seq : Seqnos, call : Calls \cup {NoCall},
                           due : BOOLEAN]]
  BY DEF PoolInv, TypeOK
<1>2. CASE UNCHANGED <<slots, pc, cur>>
  BY <1>2, KeptAnswer
<1>3. CASE UNCHANGED slots /\ pc \in {"idle", "expire"} /\ pc' \in {"idle", "gone"}
  BY <1>3, KeptAnswer
<1>4. CASE pc \in {"expired", "replied"} /\ slots' = Freed(cur) /\ pc' \in {"idle", "expire"}
  <2>1. \A i \in Slots :
            /\ slots'[i].use => slots[i].use /\ i # cur
            /\ i # cur => slots'[i] = slots[i]
            /\ slots'[i].seq = slots[i].seq /\ slots'[i].call = slots[i].call
    BY <1>1, <1>4 DEF Freed
  <2> QED
    BY <1>4, <2>1, KeptAnswer
<1>5. ASSUME NEW i \in Slots, slots' = [slots EXCEPT ![i].due = TRUE], UNCHANGED <<pc, cur>>
      PROVE  AnswerInv'
  <2>1. \A j \in Slots :
            /\ slots'[j].use = slots[j].use
            /\ slots'[j].seq = slots[j].seq /\ slots'[j].call = slots[j].call
    BY <1>1, <1>5, SMTT(30)
  <2> QED
    BY <1>5, <2>1, KeptAnswer
<1> QED
  BY <1>2, <1>3, <1>4, <1>5

\* ssn_rpc_call takes a number that no slot in use has.  A frame that has the
\* number all the same is of a call that expired, and then the new call is one of
\* those that were given such a number.
LEMMA CallAnswer ==
  ASSUME PoolInv, AnswerInv, NEW c \in Calls, Call(c)
  PROVE  AnswerInv'
<1>1. PICK i \in Slots, k \in 0 .. NSlots :
        LET S == [slots EXCEPT ![i].use = TRUE]
            s == (next + k) % NSeq
            Slot(sent) == [use |-> sent, seq |-> s, call |-> c, due |-> FALSE]
        IN  /\ IsFirstFree(i) /\ TakesSeqno(S, k)
            /\ \/ /\ slots' = [slots EXCEPT ![i] = Slot(TRUE)]
                  /\ toRep' = Append(toRep, [seq |-> s, call |-> c])
                  /\ status' = [status EXCEPT ![c] = "pending"]
                  /\ risky' = IF s \in stale THEN risky \cup {c} ELSE risky
               \/ /\ slots' = [slots EXCEPT ![i] = Slot(FALSE)]
                  /\ Refuse(c)
                  /\ UNCHANGED <<toRep, risky>>
  BY DEF Call
<1> DEFINE s == (next + k) % NSeq
           f == [seq |-> s, call |-> c]
<1>2. /\ UNCHANGED <<pc, cur, toReq, asked, stale, wrong>> /\ status[c] = "open"
  BY DEF Call, Makes
<1>3. slots \in [Slots -> [use : BOOLEAN, seq : Seqnos, call : Calls \cup {NoCall},
                           due : BOOLEAN]]
  BY DEF PoolInv, TypeOK
<1>4. s \in Seqnos
  <2>1. next + k \in Nat
    BY RpcAssumption, SMTT(30) DEF Seqnos, PoolInv, TypeOK
  <2> QED
    BY <2>1, SeqnoType
<1>5. ~slots[i].use /\ ~Calling(i)
  BY <1>1 DEF IsFirstFree, PoolInv, Calling
<1>6. \A j \in Slots : slots[j].use => slots[j].seq # s
  <2>1. ~InFlight([slots EXCEPT ![i].use = TRUE], s)
    BY <1>1 DEF TakesSeqno
  <2>2. \A j \in Slots : j # i => [slots EXCEPT ![i].use = TRUE][j] = slots[j]
    BY <1>3
  <2> QED
    BY <1>5, <2>1, <2>2 DEF InFlight
<1> HIDE DEF s
<1>7. \A j \in Slots : j # i => slots'[j] = slots[j]
  BY <1>1, <1>3
<1>8. \A g, j : j \in Slots /\ Waits(g, j) => Waits(g, j)'
  BY <1>2, <1>5, <1>7 DEF Waits, Calling
<1>9. CASE /\ slots' = [slots EXCEPT ![i] = [use |-> TRUE, seq |-> s, call |-> c, due |-> FALSE]]
           /\ toRep' = Append(toRep, f)
           /\ status' = [status EXCEPT ![c] = "pending"]
           /\ risky' = IF s \in stale THEN risky \cup {c} ELSE risky
  <2>1. f \in Frames
    BY <1>4 DEF Frames
  <2>2. status \in [Calls -> {"open", "refused", "pending", "done"}]
    BY DEF PoolInv, TypeOK
  <2>3. \A g \in InTransit : g.call # c
    BY <1>2 DEF AnswerInv, OneFrame
  <2>4. /\ toRep' \in Seq(Frames) /\ Single(toRep')
        /\ In(toRep') = In(toRep) \cup {f}
    BY <1>9, <2>1, <2>3, AppendFrames DEF AnswerInv, OneFrame, InTransit
  <2>5. In(toRep)' = In(toRep') /\ In(toReq)' = In(toReq) /\ Single(toRep)' /\ Single(toReq)'
    BY <1>2, <2>4, SMTT(30) DEF In, Single, AnswerInv, OneFrame
  <2>6. InTransit' = InTransit \cup {f}
    BY <1>2, <2>4, <2>5 DEF InTransit
  <2>7. \A g \in InTransit' : status'[g.call] # "open"
    BY <1>9, <2>2, <2>3, <2>6, SMTT(30) DEF AnswerInv, OneFrame
  <2>8. OneFrame'
    BY <1>2, <2>3, <2>4, <2>5, <2>7, SMTT(30) DEF AnswerInv, OneFrame, InTransit
  <2>9. slots'[i] = [use |-> TRUE, seq |-> s, call |-> c, due |-> FALSE]
    BY <1>3, <1>9
  <2>10. \A g : g = f => Waits(g, i)'
    BY <1>2, <1>5, <2>9, SMTT(30) DEF Waits, Calling
  <2>11. \A g \in InTransit' : g.seq \in stale' \/ \E j \in Slots : Waits(g, j)'
    BY <1>2, <1>8, <2>6, <2>10 DEF AnswerInv
  <2>12. \A j, l \in Slots :
            j # l /\ slots'[j].use /\ slots'[l].use => slots'[j].seq # slots'[l].seq
    BY <1>6, <1>7, <2>9, SMTT(30) DEF AnswerInv
  <2>13. risky \subseteq risky' /\ (s \in stale => c \in risky')
    BY <1>9
  <2>14. \A j \in Slots :
            slots'[j].use /\ ~Calling(j)' /\ slots'[j].seq \in stale' => slots'[j].call \in risky'
    BY <1>2, <1>7, <2>9, <2>13, SMTT(30) DEF AnswerInv, Calling
  <2> QED
    BY <1>2, <2>8, <2>11, <2>12, <2>13, <2>14 DEF AnswerInv
<1>10. CASE /\ slots' = [slots EXCEPT ![i] = [use |-> FALSE, seq |-> s, call |-> c, due |-> FALSE]]
            /\ Refuse(c)
            /\ UNCHANGED <<toRep, risky>>
  <2>1. status \in [Calls -> {"open", "refused", "pending", "done"}]
    BY DEF PoolInv, TypeOK
  <2>2. OneFrame' /\ InTransit' \subseteq InTransit
    BY <1>2, <1>10, <2>1, QuietFrames DEF AnswerInv, Refuse
  <2>3. ~slots'[i].use
    BY <1>3, <1>10
  <2>4. \A g \in InTransit' : g.seq \in stale' \/ \E j \in Slots : Waits(g, j)'
    BY <1>2, <1>8, <2>2 DEF AnswerInv
  <2>5. \A j \in Slots : Calling(j)' = Calling(j)
    BY <1>2 DEF Calling
  <2> QED
    BY <1>2, <1>7, <1>10, <2>2, <2>3, <2>4, <2>5, SMTT(30) DEF AnswerInv
<1> QED
  BY <1>1, <1>9, <1>10 DEF s

\* A call that expires makes its number stale; no other call has the number.
LEMMA ExpireAnswer ==
  ASSUME PoolInv, AnswerInv, NEW i \in Slots, Expire(i)
  PROVE  AnswerInv'
<1>1. /\ slots' = slots /\ pc' = "expired" /\ cur' = i /\ slots[i].use
      /\ stale' = stale \cup {slots[i].seq} /\ UNCHANGED <<toRep, toReq, asked, risky, wrong>>
      /\ pc \in {"idle", "expire"}
      /\ status' = [status EXCEPT ![slots[i].call] = "done"]
  BY DEF Expire, IsDue, Callback, pool, net, Polls
<1>2. \A c \in Calls : status'[c] = "open" => status[c] = "open"
  BY <1>1 DEF PoolInv, TypeOK
<1>3. OneFrame' /\ InTransit' \subseteq InTransit
  BY <1>1, <1>2, QuietFrames DEF AnswerInv
<1>4. \A j \in Slots : ~Calling(j) /\ (Calling(j)' <=> j = i)
  BY <1>1 DEF Calling
<1>5. \A g : \A j \in Slots : Waits(g, j) => g.seq \in stale' \/ Waits(g, j)'
  BY <1>1, <1>4 DEF Waits
<1>6. \A g \in InTransit' : g.seq \in stale' \/ \E j \in Slots : Waits(g, j)'
  BY <1>1, <1>3, <1>5 DEF AnswerInv
<1> QED
  BY <1>1, <1>3, <1>4, <1>6 DEF AnswerInv

\* ssn_rpc_handle_reply: an answer that comes to another call than its own has a
\* stale number, and that call is one that was given such a number.
LEMMA ReplyAnswer ==
  ASSUME PoolInv, AnswerInv, PollReply
  PROVE  AnswerInv'
<1> DEFINE f == toReq[1]
<1>1. PICK k \in 1 .. Len(toReq) : toReq' = Rest(toReq, k)
  BY DEF PollReply
<1>2. /\ UNCHANGED <<slots, toRep, asked, stale, risky>> /\ pc \in {"idle", "expire"}
      /\ HandleReply(f)
  BY DEF PollReply, pool, Polls
<1>3. f \in In(toReq) /\ \A g \in In(toReq') : g.call # f.call
  BY <1>1, RestFrames DEF AnswerInv, OneFrame
<1> HIDE DEF f
<1>4. CASE InFlight(slots, f.seq)
  <2>1. PICK i \in Slots :
            /\ slots[i].use /\ slots[i].seq = f.seq
            /\ Callback(i, "replied")
            /\ wrong' = IF slots[i].call = f.call THEN wrong ELSE wrong \cup {slots[i].call}
    BY <1>2, <1>4 DEF HandleReply
  <2>2. /\ pc' = "replied" /\ cur' = i
        /\ status' = [status EXCEPT ![slots[i].call] = "done"]
    BY <2>1 DEF Callback
  <2>3. \A c \in Calls : status'[c] = "open" => status[c] = "open"
    BY <2>2 DEF PoolInv, TypeOK
  <2>4. OneFrame' /\ InTransit' \subseteq InTransit
    BY <1>1, <1>2, <2>3, QuietFrames DEF AnswerInv
  <2>5. \A j \in Slots : ~Calling(j) /\ (Calling(j)' <=> j = i)
    BY <1>2, <2>2 DEF Calling
  <2>6. slots[i].call # f.call => f.seq \in stale
    BY <1>3, <2>1, SMTT(30) DEF AnswerInv, InTransit, Waits
  <2>7. \A g \in InTransit' : g.call # f.call
    BY <1>2, <1>3, SMTT(30) DEF AnswerInv, OneFrame, InTransit, In
  <2>8. \A g \in InTransit' : g.seq \in stale' \/ \E j \in Slots : Waits(g, j)'
    <3> SUFFICES ASSUME NEW g \in InTransit', g.seq \notin stale
                 PROVE  \E j \in Slots : Waits(g, j)'
      BY <1>2
    <3>1. PICK j \in Slots : Waits(g, j)
      BY <2>4 DEF AnswerInv
    <3>2. j # i
      BY <2>1, <2>6, <2>7, <3>1 DEF Waits
    <3> QED
      BY <1>2, <2>5, <3>1, <3>2 DEF Waits
  <2>9. wrong' \subseteq risky'
    BY <1>2, <2>1, <2>5, <2>6 DEF AnswerInv
  <2> QED
    BY <1>2, <2>4, <2>5, <2>8, <2>9 DEF AnswerInv
<1>5. CASE ~InFlight(slots, f.seq)
  <2>1. pc' = "idle" /\ UNCHANGED <<status, wrong>>
    BY <1>2, <1>5 DEF HandleReply
  <2>2. OneFrame' /\ InTransit' \subseteq InTransit
    BY <1>1, <1>2, <2>1, QuietFrames DEF AnswerInv
  <2> QED
    BY <1>2, <2>1, <2>2, QuietAnswer
<1> QED
  BY <1>4, <1>5

\* Every step of the program keeps AnswerInv.
LEMMA StepAnswer ==
  ASSUME PoolInv, AnswerInv, [Next]_vars
  PROVE  AnswerInv'
<1> USE DEF pool, net, hist
<1>1. ASSUME NEW c \in Calls, Call(c) PROVE AnswerInv'
  BY <1>1, CallAnswer
<1>2. ASSUME NEW i \in Slots, Expire(i) PROVE AnswerInv'
  BY <1>2, ExpireAnswer
<1>3. CASE PollReply
  BY <1>3, ReplyAnswer
<1>4. ASSUME HandleRequest \/ (\E q \in asked : Response(q)) \/ Lose \/ PollNothing
      PROVE  AnswerInv'
  <2>1. OneFrame' /\ InTransit' \subseteq InTransit
    BY <1>4, QuietFrames DEF AnswerInv
  <2>2. /\ UNCHANGED <<stale, risky, wrong, slots>>
        /\ \/ UNCHANGED <<pc, cur>>
           \/ pc \in {"idle", "expire"} /\ pc' \in {"idle", "gone"}
    BY <1>4 DEF HandleRequest, Response, Lose, PollNothing, Polls
  <2> QED
    BY <2>1, <2>2, QuietAnswer
<1>5. ASSUME UNCHANGED <<toRep, toReq, asked, stale, risky, wrong>>,
             \A c \in Calls : status'[c] = "open" => status[c] = "open",
             \/ UNCHANGED <<slots, pc, cur>>
             \/ UNCHANGED slots /\ pc \in {"idle", "expire"} /\ pc' \in {"idle", "gone"}
             \/ pc \in {"expired", "replied"} /\ slots' = Freed(cur) /\ pc' \in {"idle", "expire"}
             \/ \E i \in Slots : slots' = [slots EXCEPT ![i].due = TRUE] /\ UNCHANGED <<pc, cur>>
      PROVE  AnswerInv'
  <2>1. OneFrame' /\ InTransit' \subseteq InTransit
    BY <1>5, QuietFrames DEF AnswerInv
  <2> QED
    BY <1>5, <2>1, QuietAnswer
<1>6. CASE ExpireFree \/ ReplyFree
  BY <1>5, <1>6 DEF ExpireFree, ReplyFree
<1>7. CASE Destroy \/ Connect \/ UNCHANGED vars
  BY <1>5, <1>7 DEF Destroy, Connect, vars
<1>8. ASSUME NEW c \in Calls, CallFull(c) PROVE AnswerInv'
  <2>1. \A d \in Calls : status'[d] = "open" => status[d] = "open"
    BY <1>8 DEF CallFull, Refuse, PoolInv, TypeOK
  <2> QED
    BY <1>5, <1>8, <2>1 DEF CallFull
<1>9. ASSUME NEW i \in Slots, Elapse(i) PROVE AnswerInv'
  BY <1>5, <1>9 DEF Elapse
<1> QED
  BY <1>1, <1>2, <1>3, <1>4, <1>6, <1>7, <1>8, <1>9 DEF Next, PollStep

-----------------------------------------------------------------------------
(* The theorems about the requester. *)

\* A step of an instance of the protocol layer is one of the requester or leaves
\* the requester alone, and the same of the other instances.
LEMMA ProtocolParts ==
  [ProtocolNext]_<<vars, channels>> => [Next]_vars /\ [ChannelsNext]_channels
  BY DEF ProtocolNext, Rpc, Channel

\* The pool of ssn_rpc.c stays in order: a slot in use belongs to one call, and
\* that call is pending, or its callback is running.
THEOREM PoolInvariant == ProtocolSpec => []PoolInv
<1>1. PoolInv /\ [ProtocolNext]_<<vars, channels>> => PoolInv'
  BY StepPool, ProtocolParts
<1>2. ProtocolInit => PoolInv
  BY InitPool DEF ProtocolInit
<1> QED
  BY <1>1, <1>2, PTL DEF ProtocolSpec

\* ssn_rpc_call keeps its promise: a call that is refused is never called back,
\* one that is accepted is called back at most once, for any number of calls,
\* slots and sequence numbers, and whatever the callbacks call.
THEOREM RpcPromiseKept == ProtocolSpec => RpcKeepsPromise
<1>1. ProtocolInit => Promise!PromiseInit
  BY DEF ProtocolInit, Init, Promise!PromiseInit
<1>2. PoolInv /\ [ProtocolNext]_<<vars, channels>>
        => [Promise!PromiseNext]_(Promise!promiseVars)
  BY StepPool, ProtocolParts
<1> QED
  BY <1>1, <1>2, PoolInvariant, PTL DEF ProtocolSpec, RpcKeepsPromise, Promise!PromiseSpec

\* A call gets its own answer, although ssn_rpc_handle_reply compares numbers
\* alone, numbers wrap and answers come late, in any order or not at all, unless
\* its number was that of a call that expired.
THEOREM AnswersAreOwn == ProtocolSpec => []OwnAnswer
<1>1. PoolInv /\ AnswerInv /\ [ProtocolNext]_<<vars, channels>> => AnswerInv'
  BY StepAnswer, ProtocolParts
<1>2. ProtocolInit => AnswerInv
  BY InitAnswer DEF ProtocolInit
<1>3. AnswerInv => OwnAnswer
  BY DEF AnswerInv, OwnAnswer
<1> QED
  BY <1>1, <1>2, <1>3, PoolInvariant, PTL DEF ProtocolSpec

-----------------------------------------------------------------------------
(* The hash table with string keys. *)

Cells == [key : Names, val : Entries]

\* No chain has a name twice.
TableOK(C) ==
    /\ C \in [Buckets -> Seq(Cells)]
    /\ \A b \in Buckets : \A i, j \in 1 .. Len(C[b]) : i # j => C[b][i].key # C[b][j].key

\* The chain for n has a cell that gives it the value e.
Holds(C, n, e) ==
    \E i \in 1 .. Len(C[Hash[n]]) : C[Hash[n]][i] = [key |-> n, val |-> e]

\* The chain of a name, and where the walk along it stops.
LEMMA Walk ==
  ASSUME NEW C, TableOK(C), NEW n \in Names
  PROVE  /\ Hash[n] \in Buckets
         /\ C[Hash[n]] \in Seq(Cells) /\ Len(C[Hash[n]]) \in Nat
         /\ DOMAIN C[Hash[n]] = 1 .. Len(C[Hash[n]])
         /\ \A i \in 1 .. Len(C[Hash[n]]) : C[Hash[n]][i] \in Cells
         /\ \A i \in 1 .. Len(C[Hash[n]]) : C[Hash[n]][i].key = n => At(C, n) = i
         /\ (\A i \in 1 .. Len(C[Hash[n]]) : C[Hash[n]][i].key # n) => At(C, n) = 0
<1> DEFINE c == C[Hash[n]]
           hit == {i \in DOMAIN c : c[i].key = n}
<1>1. Hash[n] \in Buckets /\ c \in Seq(Cells)
  BY DEF Buckets, TableOK
<1>2. Len(c) \in Nat /\ DOMAIN c = 1 .. Len(c) /\ \A i \in 1 .. Len(c) : c[i] \in Cells
  BY <1>1, LenProperties, ElementOfSeq
<1>3. At(C, n) = IF hit = {} THEN 0 ELSE CHOOSE i \in hit : \A j \in hit : i <= j
  BY DEF At
<1>4. ASSUME NEW i \in 1 .. Len(c), c[i].key = n
      PROVE  At(C, n) = i
  <2>1. hit = {i}
    BY <1>1, <1>2, <1>4 DEF TableOK
  <2>2. \A j \in hit : i <= j
    BY <1>2, <2>1, SMTT(30)
  <2> QED
    BY <1>3, <2>1, <2>2
<1>5. ASSUME \A i \in 1 .. Len(c) : c[i].key # n
      PROVE  At(C, n) = 0
  BY <1>2, <1>3, <1>5
<1> QED
  BY <1>1, <1>2, <1>4, <1>5

\* ssn_hash_table_get_str gives the value that the chain has for the name, and
\* NULL when it has none.
LEMMA GetHolds ==
  ASSUME NEW C, TableOK(C), NEW n \in Names
  PROVE  /\ GetStr(C, n) \in Entries \cup {NULL}
         /\ \A e \in Entries : GetStr(C, n) = e <=> Holds(C, n, e)
<1> DEFINE c == C[Hash[n]]
<1>1. /\ Len(c) \in Nat /\ \A i \in 1 .. Len(c) : c[i] \in Cells
      /\ \A i \in 1 .. Len(c) : c[i].key = n => At(C, n) = i
      /\ (\A i \in 1 .. Len(c) : c[i].key # n) => At(C, n) = 0
  BY Walk
<1>2. NULL \notin Entries
  BY ChannelsAssumption, SMTT(30) DEF NULL, Entries
<1>3. ASSUME NEW i \in 1 .. Len(c), c[i].key = n
      PROVE  GetStr(C, n) = c[i].val /\ c[i] = [key |-> n, val |-> c[i].val]
  BY <1>1, <1>3, SMTT(30) DEF GetStr, Cells
<1>4. CASE \A i \in 1 .. Len(c) : c[i].key # n
  BY <1>1, <1>2, <1>4, SMTT(30) DEF GetStr, Holds
<1>5. CASE \E i \in 1 .. Len(c) : c[i].key = n
  <2>1. PICK i \in 1 .. Len(c) : c[i].key = n
    BY <1>5
  <2>2. GetStr(C, n) = c[i].val /\ c[i] = [key |-> n, val |-> c[i].val]
    BY <1>3, <2>1
  <2>3. c[i].val \in Entries
    BY <1>1 DEF Cells
  <2>4. ASSUME NEW e \in Entries, Holds(C, n, e)
        PROVE  GetStr(C, n) = e
    <3>1. PICK j \in 1 .. Len(c) : c[j] = [key |-> n, val |-> e]
      BY <2>4 DEF Holds
    <3> QED
      BY <1>3, <3>1, SMTT(30)
  <2>5. Holds(C, n, c[i].val)
    BY <2>2 DEF Holds
  <2> QED
    BY <2>2, <2>3, <2>4, <2>5
<1> QED
  BY <1>4, <1>5

\* Tables whose chains agree on a name agree on its lookup.
LEMMA SameLookup ==
  ASSUME NEW C, NEW D, TableOK(C), TableOK(D), NEW n \in Names,
         \A e \in Entries : Holds(C, n, e) <=> Holds(D, n, e)
  PROVE  GetStr(C, n) = GetStr(D, n)
<1>1. NULL \notin Entries
  BY ChannelsAssumption, SMTT(30) DEF NULL, Entries
<1> QED
  BY <1>1, GetHolds

\* D is C with another chain for n, that has the same cells of other names.
ChangedAt(C, D, n) ==
    /\ D \in [Buckets -> Seq(Cells)]
    /\ \A a \in Buckets : a # Hash[n] => D[a] = C[a]
    /\ \A i, j \in 1 .. Len(D[Hash[n]]) : i # j => D[Hash[n]][i].key # D[Hash[n]][j].key
    /\ \A x \in Cells : x.key # n =>
          ((\E i \in 1 .. Len(D[Hash[n]]) : D[Hash[n]][i] = x)
              <=> (\E i \in 1 .. Len(C[Hash[n]]) : C[Hash[n]][i] = x))

\* Such a change leaves every other lookup as it is.
LEMMA OtherLookups ==
  ASSUME NEW C, NEW D, TableOK(C), NEW n \in Names, ChangedAt(C, D, n)
  PROVE  /\ TableOK(D)
         /\ \A m \in Names \ {n} : GetStr(D, m) = GetStr(C, m)
<1> USE DEF ChangedAt
<1>1. TableOK(D)
  <2>1. \A a \in Buckets : \A i, j \in 1 .. Len(D[a]) : i # j => D[a][i].key # D[a][j].key
    <3> SUFFICES ASSUME NEW a \in Buckets
                 PROVE  \A i, j \in 1 .. Len(D[a]) : i # j => D[a][i].key # D[a][j].key
      OBVIOUS
    <3>1. CASE a = Hash[n]
      BY <3>1
    <3>2. CASE a # Hash[n]
      BY <3>2, SMTT(30) DEF TableOK
    <3> QED
      BY <3>1, <3>2
  <2> QED
    BY <2>1 DEF TableOK
<1>2. ASSUME NEW m \in Names, m # n
      PROVE  GetStr(D, m) = GetStr(C, m)
  <2>1. Hash[m] \in Buckets
    BY DEF Buckets
  <2>2. \A x \in Entries : [key |-> m, val |-> x] \in Cells /\ [key |-> m, val |-> x].key # n
    BY <1>2 DEF Cells
  <2>3. \A x \in Entries : Holds(D, m, x) <=> Holds(C, m, x)
    <3>1. CASE Hash[m] = Hash[n]
      BY <2>2, <3>1, SMTT(30) DEF Holds
    <3>2. CASE Hash[m] # Hash[n]
      BY <2>1, <3>2 DEF Holds
    <3> QED
      BY <3>1, <3>2
  <2> QED
    BY <1>1, <2>3, SameLookup, SMTT(30)
<1> QED
  BY <1>1, <1>2

\* ssn_hash_table_set_str changes the value of its name and of no other, also in
\* the same chain.
LEMMA SetLookup ==
  ASSUME NEW C, TableOK(C), NEW n \in Names, NEW e \in Entries
  PROVE  /\ TableOK(SetStr(C, n, e))
         /\ GetStr(SetStr(C, n, e), n) = e
         /\ \A m \in Names \ {n} : GetStr(SetStr(C, n, e), m) = GetStr(C, m)
<1> DEFINE b == Hash[n]
           c == C[b]
           D == SetStr(C, n, e)
           new == [key |-> n, val |-> e]
<1>1. /\ b \in Buckets /\ c \in Seq(Cells) /\ Len(c) \in Nat
      /\ \A i \in 1 .. Len(c) : c[i] \in Cells
      /\ \A i \in 1 .. Len(c) : c[i].key = n => At(C, n) = i
      /\ (\A i \in 1 .. Len(c) : c[i].key # n) => At(C, n) = 0
  BY Walk
<1>2. new \in Cells
  BY DEF Cells
<1>3. C \in [Buckets -> Seq(Cells)]
  BY DEF TableOK
<1>4. \A i, j \in 1 .. Len(c) : i # j => c[i].key # c[j].key
  BY <1>1 DEF TableOK
<1>5. /\ D \in [Buckets -> Seq(Cells)]
      /\ \A a \in Buckets : a # b => D[a] = C[a]
      /\ \A i, j \in 1 .. Len(D[b]) : i # j => D[b][i].key # D[b][j].key
      /\ \E i \in 1 .. Len(D[b]) : D[b][i] = new
      /\ \A x \in Cells : x.key # n =>
            ((\E i \in 1 .. Len(D[b]) : D[b][i] = x) <=> (\E i \in 1 .. Len(c) : c[i] = x))
  <2>1. CASE At(C, n) = 0
    <3>1. D = [C EXCEPT ![b] = <<new>> \o c]
      BY <2>1 DEF SetStr
    <3>2. /\ <<new>> \in Seq(Cells) /\ Len(<<new>>) = 1 /\ <<new>>[1] = new
      BY <1>2, SMTT(30)
    <3>3. /\ <<new>> \o c \in Seq(Cells) /\ Len(<<new>> \o c) = 1 + Len(c)
          /\ \A i \in 1 .. 1 + Len(c) :
                (<<new>> \o c)[i] = IF i <= 1 THEN <<new>>[i] ELSE c[i - 1]
      BY <1>1, <3>2, ConcatProperties, ZenonT(30)
    <3>4. D[b] = <<new>> \o c /\ D \in [Buckets -> Seq(Cells)]
      BY <1>1, <1>3, <3>1, <3>3
    <3>5. /\ Len(D[b]) = Len(c) + 1 /\ D[b][1] = new
          /\ \A i \in 2 .. Len(c) + 1 : D[b][i] = c[i - 1]
      BY <1>1, <3>2, <3>3, <3>4, SMTT(30)
    <3>6. \A i \in 1 .. Len(c) : c[i].key # n
      BY <1>1, <2>1, SMTT(30)
    <3>7. \A i \in 1 .. Len(c) : D[b][i + 1] = c[i] /\ i + 1 \in 1 .. Len(D[b])
      BY <1>1, <3>5, SMTT(30)
    <3>8. \A i \in 1 .. Len(D[b]) : i # 1 => i - 1 \in 1 .. Len(c) /\ D[b][i] = c[i - 1]
      BY <1>1, <3>5, SMTT(30)
    <3>9. \A i, j \in 1 .. Len(D[b]) : i # j => D[b][i].key # D[b][j].key
      <4> SUFFICES ASSUME NEW i \in 1 .. Len(D[b]), NEW j \in 1 .. Len(D[b]), i # j
                   PROVE  D[b][i].key # D[b][j].key
        OBVIOUS
      <4>1. i \in Nat /\ j \in Nat
        BY <1>1, <3>5, SMTT(30)
      <4>2. CASE i = 1
        <5>1. D[b][i].key = n
          BY <3>5, <4>2, SMTT(30)
        <5> QED
          BY <3>6, <3>8, <4>2, <5>1
      <4>3. CASE j = 1
        <5>1. D[b][j].key = n
          BY <3>5, <4>3, SMTT(30)
        <5> QED
          BY <3>6, <3>8, <4>3, <5>1
      <4>4. CASE i # 1 /\ j # 1
        <5>1. i - 1 # j - 1
          BY <4>1, SMTT(30)
        <5> QED
          BY <1>4, <3>8, <4>4, <5>1
      <4> QED
        BY <4>2, <4>3, <4>4
    <3>10. \A x \in Cells : x.key # n =>
            ((\E i \in 1 .. Len(D[b]) : D[b][i] = x) <=> (\E i \in 1 .. Len(c) : c[i] = x))
      <4> SUFFICES ASSUME NEW x \in Cells, x.key # n
                   PROVE  (\E i \in 1 .. Len(D[b]) : D[b][i] = x)
                            <=> (\E i \in 1 .. Len(c) : c[i] = x)
        OBVIOUS
      <4>1. ASSUME NEW i \in 1 .. Len(c), c[i] = x
            PROVE  \E j \in 1 .. Len(D[b]) : D[b][j] = x
        BY <3>7, <4>1
      <4>2. ASSUME NEW i \in 1 .. Len(D[b]), D[b][i] = x
            PROVE  \E j \in 1 .. Len(c) : c[j] = x
        <5>1. i # 1
          BY <3>5, <4>2, SMTT(30)
        <5> QED
          BY <3>8, <4>2, <5>1
      <4> QED
        BY <4>1, <4>2
    <3>11. 1 \in 1 .. Len(D[b])
      BY <1>1, <3>5, SMTT(30)
    <3>12. \A a \in Buckets : a # b => D[a] = C[a]
      BY <1>3, <3>1
    <3> QED
      BY <3>4, <3>5, <3>9, <3>10, <3>11, <3>12
  <2>2. CASE At(C, n) # 0
    <3>1. PICK k \in 1 .. Len(c) : c[k].key = n /\ At(C, n) = k
      BY <1>1, <2>2
    <3>2. D = [C EXCEPT ![b][k].val = e]
      BY <2>2, <3>1 DEF SetStr
    <3>3. D = [C EXCEPT ![b] = [c EXCEPT ![k].val = e]]
      BY <3>2
    <3>4. [c EXCEPT ![k].val = e] = [c EXCEPT ![k] = new]
      BY <1>1, <3>1, LenProperties, SMTT(30) DEF Cells
    <3>5. /\ [c EXCEPT ![k] = new] \in Seq(Cells)
          /\ Len([c EXCEPT ![k] = new]) = Len(c)
          /\ \A i \in 1 .. Len(c) : [c EXCEPT ![k] = new][i] = IF i = k THEN new ELSE c[i]
      BY <1>1, <1>2, ExceptSeq, SMTT(30)
    <3>6. /\ D \in [Buckets -> Seq(Cells)]
          /\ D[b] = [c EXCEPT ![k] = new]
          /\ \A a \in Buckets : a # b => D[a] = C[a]
      <4> DEFINE X == [c EXCEPT ![k] = new]
      <4>1. X \in Seq(Cells) /\ D = [C EXCEPT ![b] = X]
        BY <3>3, <3>4, <3>5
      <4> HIDE DEF X
      <4>2. D \in [Buckets -> Seq(Cells)] /\ D[b] = X /\ \A a \in Buckets : a # b => D[a] = C[a]
        BY <1>1, <1>3, <4>1
      <4> QED
        BY <4>2 DEF X
    <3>7. /\ Len(D[b]) = Len(c) /\ D[b][k] = new
          /\ \A i \in 1 .. Len(c) : i # k => D[b][i] = c[i]
      BY <3>5, <3>6
    <3>8. \A i \in 1 .. Len(c) : D[b][i].key = c[i].key
      BY <3>1, <3>7, SMTT(30)
    <3>9. \A i, j \in 1 .. Len(D[b]) : i # j => D[b][i].key # D[b][j].key
      BY <1>4, <3>7, <3>8
    <3>10. \A x \in Cells : x.key # n =>
            ((\E i \in 1 .. Len(D[b]) : D[b][i] = x) <=> (\E i \in 1 .. Len(c) : c[i] = x))
      BY <3>1, <3>7, SMTT(30)
    <3> QED
      BY <3>6, <3>7, <3>9, <3>10
  <2> QED
    BY <2>1, <2>2
<1> HIDE DEF D
<1>6. TableOK(D) /\ \A m \in Names \ {n} : GetStr(D, m) = GetStr(C, m)
  <2>1. ChangedAt(C, D, n)
    BY <1>5 DEF ChangedAt
  <2> QED
    BY <2>1, OtherLookups
<1>7. GetStr(D, n) = e
  BY <1>5, <1>6, GetHolds, SMTT(30) DEF Holds
<1> QED
  BY <1>6, <1>7 DEF D

\* ssn_hash_table_remove_str takes its name out and no other, also from the middle
\* of a chain.
LEMMA RemoveLookup ==
  ASSUME NEW C, TableOK(C), NEW n \in Names
  PROVE  /\ TableOK(RemoveStr(C, n))
         /\ GetStr(RemoveStr(C, n), n) = NULL
         /\ \A m \in Names \ {n} : GetStr(RemoveStr(C, n), m) = GetStr(C, m)
<1> DEFINE b == Hash[n]
           c == C[b]
           k == At(C, n)
           D == RemoveStr(C, n)
           X == SubSeq(c, 1, k - 1)
           Y == SubSeq(c, k + 1, Len(c))
<1>1. /\ b \in Buckets /\ c \in Seq(Cells) /\ Len(c) \in Nat
      /\ \A i \in 1 .. Len(c) : c[i] \in Cells
      /\ \A i \in 1 .. Len(c) : c[i].key = n => At(C, n) = i
      /\ (\A i \in 1 .. Len(c) : c[i].key # n) => At(C, n) = 0
  BY Walk
<1>2. CASE At(C, n) = 0
  <2>1. D = C /\ GetStr(C, n) = NULL
    BY <1>2 DEF RemoveStr, GetStr
  <2> QED
    BY <2>1
<1>3. CASE At(C, n) # 0
  <2>1. k \in 1 .. Len(c) /\ c[k].key = n
    BY <1>1, <1>3
  <2>2. C \in [Buckets -> Seq(Cells)] /\ \A i, j \in 1 .. Len(c) : i # j => c[i].key # c[j].key
    BY <1>1 DEF TableOK
  <2>3. D = [C EXCEPT ![b] = X \o Y]
    BY <1>3 DEF RemoveStr
  <2> HIDE DEF k
  <2>4. /\ X \in Seq(Cells) /\ Len(X) = k - 1
        /\ \A i \in 1 .. k - 1 : X[i] = c[i]
    <3>1. /\ 1 \in Int /\ k - 1 \in Int /\ \A i \in 1 .. (k - 1) : c[i] \in Cells
      BY <1>1, <2>1, SMTT(30)
    <3>2. /\ X \in Seq(Cells) /\ Len(X) = IF 1 <= k - 1 THEN (k - 1) - 1 + 1 ELSE 0
          /\ \A i \in 1 .. ((k - 1) - 1 + 1) : X[i] = c[1 + i - 1]
      BY <3>1, SubSeqProperties, SMTT(30)
    <3>3. ASSUME NEW i \in 1 .. k - 1 PROVE X[i] = c[i]
      <4>1. i \in 1 .. ((k - 1) - 1 + 1) /\ 1 + i - 1 = i
        BY <2>1, SMTT(30)
      <4> QED
        BY <3>2, <4>1
    <3> QED
      BY <2>1, <3>2, <3>3, SMTT(30)
  <2>5. /\ Y \in Seq(Cells) /\ Len(Y) = Len(c) - k
        /\ \A i \in 1 .. Len(c) - k : Y[i] = c[i + k]
    <3>1. /\ k + 1 \in Int /\ Len(c) \in Int /\ \A i \in (k + 1) .. Len(c) : c[i] \in Cells
      BY <1>1, <2>1, SMTT(30)
    <3>2. /\ Y \in Seq(Cells) /\ Len(Y) = IF k + 1 <= Len(c) THEN Len(c) - (k + 1) + 1 ELSE 0
          /\ \A i \in 1 .. (Len(c) - (k + 1) + 1) : Y[i] = c[(k + 1) + i - 1]
      BY <3>1, SubSeqProperties, SMTT(30)
    <3>3. ASSUME NEW i \in 1 .. Len(c) - k PROVE Y[i] = c[i + k]
      <4>1. i \in 1 .. (Len(c) - (k + 1) + 1) /\ (k + 1) + i - 1 = i + k
        BY <1>1, <2>1, SMTT(30)
      <4> QED
        BY <3>2, <4>1
    <3> QED
      <4>1. Len(c) \in Nat /\ k \in 1 .. Len(c) /\ Len(Y) = IF k + 1 <= Len(c) THEN Len(c) - (k + 1) + 1 ELSE 0
        BY <1>1, <2>1, <3>2
      <4>2. Len(Y) = Len(c) - k
        BY <4>1, SMTT(30)
      <4> QED
        BY <3>2, <3>3, <4>2
  <2> HIDE DEF X, Y
  <2>6. /\ X \o Y \in Seq(Cells) /\ Len(X \o Y) = Len(X) + Len(Y)
        /\ \A i \in 1 .. Len(X) + Len(Y) : (X \o Y)[i] = IF i <= Len(X) THEN X[i] ELSE Y[i - Len(X)]
    BY <2>4, <2>5, ConcatProperties
  <2>7. D \in [Buckets -> Seq(Cells)] /\ D[b] = X \o Y /\ \A a \in Buckets : a # b => D[a] = C[a]
    BY <1>1, <2>2, <2>3, <2>6
  <2>8. /\ Len(D[b]) = Len(c) - 1
        /\ \A i \in 1 .. Len(c) - 1 : D[b][i] = IF i < k THEN c[i] ELSE c[i + 1]
    <3>0. Len(X) + Len(Y) = Len(c) - 1
      BY <1>1, <2>1, <2>4, <2>5, SMTT(30)
    <3>1. Len(D[b]) = Len(c) - 1
      BY <2>6, <2>7, <3>0
    <3>2. ASSUME NEW i \in 1 .. Len(c) - 1 PROVE D[b][i] = IF i < k THEN c[i] ELSE c[i + 1]
      <4>1. D[b][i] = IF i <= k - 1 THEN X[i] ELSE Y[i - (k - 1)]
        BY <2>4, <2>6, <2>7, <3>0
      <4>2. CASE i < k
        BY <2>1, <2>4, <4>1, <4>2, SMTT(30)
      <4>3. CASE ~(i < k)
        <5>1. i - (k - 1) \in 1 .. Len(c) - k /\ (i - (k - 1)) + k = i + 1 /\ ~(i <= k - 1)
          BY <1>1, <2>1, <4>3, SMTT(30)
        <5> QED
          BY <2>5, <4>1, <4>3, <5>1
      <4> QED
        BY <4>2, <4>3
    <3> QED
      BY <3>1, <3>2
  <2> HIDE DEF D, c
  \* Where the cell at i was before.
  <2> DEFINE was(i) == IF i < k THEN i ELSE i + 1
  <2>9. \A i \in 1 .. Len(D[b]) : was(i) \in 1 .. Len(c) /\ was(i) # k /\ D[b][i] = c[was(i)]
    BY <1>1, <2>1, <2>8, SMTT(30)
  <2>10. \A i, j \in 1 .. Len(D[b]) : i # j => was(i) # was(j)
    BY <1>1, <2>1, <2>8, SMTT(30)
  <2>11. \A j \in 1 .. Len(c) : j # k => \E i \in 1 .. Len(D[b]) : was(i) = j
    <3> SUFFICES ASSUME NEW j \in 1 .. Len(c), j # k
                 PROVE  \E i \in 1 .. Len(D[b]) : was(i) = j
      OBVIOUS
    <3>1. CASE j < k
      BY <1>1, <2>1, <2>8, <3>1, SMTT(30)
    <3>2. CASE ~(j < k)
      <4>1. j - 1 \in 1 .. Len(D[b]) /\ was(j - 1) = j
        BY <1>1, <2>1, <2>8, <3>2, SMTT(30)
      <4> QED
        BY <4>1
    <3> QED
      BY <3>1, <3>2
  <2> HIDE DEF was
  <2>12. \A i, j \in 1 .. Len(D[b]) : i # j => D[b][i].key # D[b][j].key
    BY <2>2, <2>9, <2>10, SMTT(30)
  <2>13. ASSUME NEW x \in Cells, x.key # n
         PROVE  (\E i \in 1 .. Len(D[b]) : D[b][i] = x) <=> (\E i \in 1 .. Len(c) : c[i] = x)
    <3>1. ASSUME NEW i \in 1 .. Len(D[b]), D[b][i] = x
          PROVE  \E j \in 1 .. Len(c) : c[j] = x
      BY <2>9, <3>1
    <3>2. ASSUME NEW j \in 1 .. Len(c), c[j] = x
          PROVE  \E i \in 1 .. Len(D[b]) : D[b][i] = x
      BY <2>1, <2>9, <2>11, <2>13, <3>2
    <3> QED
      BY <3>1, <3>2
  <2>14. TableOK(D) /\ \A m \in Names \ {n} : GetStr(D, m) = GetStr(C, m)
    <3>1. ChangedAt(C, D, n)
      BY <2>7, <2>12, <2>13 DEF c, ChangedAt
    <3> QED
      BY <3>1, OtherLookups
  <2>15. \A i \in 1 .. Len(D[b]) : D[b][i].key # n
    BY <2>1, <2>2, <2>9, ZenonT(30)
  <2>16. GetStr(D, n) = NULL
    <3>1. At(D, n) = 0
      BY <2>14, <2>15, Walk
    <3> QED
      BY <3>1 DEF GetStr
  <2> QED
    BY <2>14, <2>16 DEF D
<1> QED
  BY <1>2, <1>3

-----------------------------------------------------------------------------
(* What the table holds. *)

Allocated == {e \in Entries : entry[e] # NoName}

\* The table agrees with the calls of the user, as EntriesKept says of lookups.
TableAgrees ==
    /\ TableOK(chain)
    /\ entry \in [Entries -> Names \cup {NoName}]
    /\ wanted \subseteq Names /\ IsFiniteSet(wanted)
    /\ \A n \in Names : GetStr(chain, n) # NULL <=> n \in wanted
    /\ \A n \in wanted : entry[GetStr(chain, n)] = n
    /\ size = Cardinality(wanted)

NoneLost == ~again => counted = size /\ Allocated = InTable

TableInv == alive => TableAgrees /\ NoneLost

\* An instance that was just created has an empty table.
LEMMA InitTable == ChannelsInit => TableInv
<1> SUFFICES ASSUME ChannelsInit PROVE TableAgrees /\ NoneLost
  BY DEF TableInv
<1>1. /\ chain = [b \in Buckets |-> <<>>] /\ size = 0 /\ entry = [e \in Entries |-> NoName]
      /\ counted = 0 /\ wanted = {}
  BY DEF ChannelsInit
<1>2. TableOK(chain)
  <2>1. \A b \in Buckets : chain[b] = <<>>
    BY <1>1
  <2>2. <<>> \in Seq(Cells) /\ Len(<<>>) = 0
    BY EmptySeq
  <2>3. \A b \in Buckets : 1 .. Len(chain[b]) = {}
    BY <2>1, <2>2, SMTT(30)
  <2> QED
    BY <1>1, <2>2, <2>3 DEF TableOK
<1>3. \A n \in Names : GetStr(chain, n) = NULL
  <2> SUFFICES ASSUME NEW n \in Names PROVE GetStr(chain, n) = NULL
    OBVIOUS
  <2>1. Hash[n] \in Buckets
    BY DEF Buckets
  <2>2. chain[Hash[n]] = <<>> /\ Len(<<>>) = 0
    BY <1>1, <2>1, EmptySeq
  <2>3. At(chain, n) = 0
    BY <1>2, <2>2, Walk, SMTT(30)
  <2> QED
    BY <2>3 DEF GetStr
<1>4. IsFiniteSet({}) /\ Cardinality({}) = 0
  BY FS_EmptySet
<1>5. Allocated = {} /\ InTable = {}
  BY <1>1 DEF Allocated, InTable
<1> QED
  BY <1>1, <1>2, <1>3, <1>4, <1>5 DEF TableAgrees, NoneLost

\* Entries are found where they were put: what an accepted subscribe or register
\* does to the table.
LEMMA EnterTable ==
  ASSUME TableAgrees, NoneLost, NEW n \in Names, NEW e \in Entries, Enter(n, e),
         again' = (again \/ GetStr(chain, n) # NULL)
  PROVE  TableAgrees' /\ NoneLost'
<1>1. /\ entry[e] = NoName /\ entry' = [entry EXCEPT ![e] = n]
      /\ chain' = SetStr(chain, n, e) /\ counted' = counted + 1
      /\ size' = IF GetStr(chain, n) = NULL THEN size + 1 ELSE size
      /\ wanted' = wanted \cup {n}
  BY DEF Enter, IsNew
<1>2. /\ TableOK(chain') /\ GetStr(chain', n) = e
      /\ \A m \in Names \ {n} : GetStr(chain', m) = GetStr(chain, m)
  BY <1>1, SetLookup, SMTT(30) DEF TableAgrees
<1>3. \A m \in Names : GetStr(chain, m) \in Entries \cup {NULL}
  BY GetHolds DEF TableAgrees
<1>4. NULL \notin Entries /\ NoName \notin Names
  BY ChannelsAssumption, SMTT(30) DEF NULL, Entries
<1>5. /\ IsFiniteSet(wanted')
      /\ Cardinality(wanted') = IF n \in wanted THEN Cardinality(wanted) ELSE Cardinality(wanted) + 1
  BY <1>1, FS_AddElement DEF TableAgrees
<1>6. \A m \in wanted : m \in Names /\ GetStr(chain, m) \in Entries /\ GetStr(chain, m) # e
  BY <1>1, <1>3, <1>4 DEF TableAgrees
<1>7. \A m \in wanted' : entry'[GetStr(chain', m)] = m
  BY <1>1, <1>2, <1>6 DEF TableAgrees
<1>8. \A m \in Names : GetStr(chain', m) # NULL <=> m \in wanted'
  BY <1>1, <1>2, <1>4 DEF TableAgrees
<1>9. size' = Cardinality(wanted')
  BY <1>1, <1>5 DEF TableAgrees
<1>10. TableAgrees'
  BY <1>1, <1>2, <1>5, <1>7, <1>8, <1>9 DEF TableAgrees
<1>11. ASSUME ~again' PROVE counted' = size' /\ Allocated' = InTable'
  <2>1. ~again /\ GetStr(chain, n) = NULL
    BY <1>11
  <2>2. n \notin wanted /\ counted = size /\ Allocated = InTable
    BY <2>1 DEF TableAgrees, NoneLost
  <2>3. Allocated' = Allocated \cup {e}
    BY <1>1, <1>4 DEF Allocated, TableAgrees
  <2>4. InTable' = InTable \cup {e}
    BY <1>1, <1>2, <1>6, <2>2 DEF InTable
  <2> QED
    BY <1>1, <2>1, <2>2, <2>3, <2>4
<1> QED
  BY <1>10, <1>11 DEF NoneLost

\* What is taken out is freed, and nothing else is: unsubscribe and unregister.
LEMMA LeaveTable ==
  ASSUME TableAgrees, NoneLost, NEW n \in Names, Leave(n), again' = again
  PROVE  TableAgrees' /\ NoneLost'
<1>1. /\ GetStr(chain, n) # NULL
      /\ entry' = [entry EXCEPT ![GetStr(chain, n)] = NoName]
      /\ chain' = RemoveStr(chain, n) /\ size' = size - 1
      /\ counted' = counted - 1 /\ wanted' = wanted \ {n}
  BY DEF Leave
<1>2. /\ TableOK(chain') /\ GetStr(chain', n) = NULL
      /\ \A m \in Names \ {n} : GetStr(chain', m) = GetStr(chain, m)
  BY <1>1, RemoveLookup DEF TableAgrees
<1>3. \A m \in Names : GetStr(chain, m) \in Entries \cup {NULL}
  BY GetHolds DEF TableAgrees
<1>4. NULL \notin Entries /\ NoName \notin Names
  BY ChannelsAssumption, SMTT(30) DEF NULL, Entries
<1>5. n \in wanted /\ GetStr(chain, n) \in Entries
  BY <1>1, <1>3 DEF TableAgrees
<1>6. IsFiniteSet(wanted') /\ Cardinality(wanted') = Cardinality(wanted) - 1
  BY <1>1, <1>5, FS_RemoveElement DEF TableAgrees
<1>7. \A m \in wanted' :
        /\ m \in wanted /\ m # n /\ m \in Names
        /\ GetStr(chain', m) = GetStr(chain, m)
        /\ GetStr(chain, m) \in Entries /\ GetStr(chain, m) # GetStr(chain, n)
  BY <1>1, <1>2, <1>3, <1>5 DEF TableAgrees
<1>8. \A m \in wanted' : entry'[GetStr(chain', m)] = m
  BY <1>1, <1>7 DEF TableAgrees
<1>9. \A m \in Names : GetStr(chain', m) # NULL <=> m \in wanted'
  BY <1>1, <1>2 DEF TableAgrees
<1>10. TableAgrees'
  BY <1>1, <1>2, <1>6, <1>8, <1>9 DEF TableAgrees
<1>11. ASSUME ~again' PROVE counted' = size' /\ Allocated' = InTable'
  <2>1. counted = size /\ Allocated = InTable
    BY <1>11 DEF NoneLost
  <2>2. Allocated' = Allocated \ {GetStr(chain, n)}
    BY <1>1, <1>5 DEF Allocated, TableAgrees
  <2>3. InTable' = InTable \ {GetStr(chain, n)}
    BY <1>1, <1>7 DEF InTable
  <2> QED
    BY <1>1, <2>1, <2>2, <2>3
<1> QED
  BY <1>10, <1>11 DEF NoneLost

\* A subscribe whose frame cannot be sent takes its topic back, and with it the
\* one that an earlier subscribe left there.
LEMMA TakeBackTable ==
  ASSUME TableAgrees, NoneLost, NEW n \in Names, NEW e \in Entries,
         chain' = RemoveStr(SetStr(chain, n, e), n),
         size' = IF GetStr(chain, n) = NULL THEN size ELSE size - 1,
         wanted' = wanted \ {n}, UNCHANGED <<entry, counted>>,
         again' = (again \/ GetStr(chain, n) # NULL)
  PROVE  TableAgrees' /\ NoneLost'
<1>1. /\ TableOK(SetStr(chain, n, e))
      /\ \A m \in Names \ {n} : GetStr(SetStr(chain, n, e), m) = GetStr(chain, m)
  BY SetLookup DEF TableAgrees
<1>2. /\ TableOK(chain') /\ GetStr(chain', n) = NULL
      /\ \A m \in Names \ {n} : GetStr(chain', m) = GetStr(chain, m)
  BY <1>1, RemoveLookup
<1>3. /\ IsFiniteSet(wanted')
      /\ Cardinality(wanted') = IF n \in wanted THEN Cardinality(wanted) - 1 ELSE Cardinality(wanted)
  BY FS_RemoveElement DEF TableAgrees
<1>4. \A m \in wanted' : m \in wanted /\ m # n /\ m \in Names
  BY DEF TableAgrees
<1>5. \A m \in wanted' : entry'[GetStr(chain', m)] = m
  BY <1>2, <1>4 DEF TableAgrees
<1>6. \A m \in Names : GetStr(chain', m) # NULL <=> m \in wanted'
  BY <1>2 DEF TableAgrees
<1>7. size' = Cardinality(wanted')
  BY <1>3 DEF TableAgrees
<1>8. TableAgrees'
  BY <1>2, <1>3, <1>4, <1>5, <1>6, <1>7 DEF TableAgrees
<1>9. ASSUME ~again' PROVE counted' = size' /\ Allocated' = InTable'
  <2>1. ~again /\ GetStr(chain, n) = NULL
    BY <1>9
  <2>2. n \notin wanted /\ counted = size /\ Allocated = InTable
    BY <2>1 DEF TableAgrees, NoneLost
  <2>3. wanted' = wanted /\ InTable' = InTable
    BY <1>2, <1>4, <2>2 DEF InTable
  <2> QED
    BY <2>1, <2>2, <2>3 DEF Allocated
<1> QED
  BY <1>8, <1>9 DEF NoneLost

\* Every step of the instances keeps the table in order.
LEMMA StepTable ==
  ASSUME TableInv, [ChannelsNext]_channels
  PROVE  TableInv'
<1>1. ASSUME NEW n \in Names, Subscribe(n) PROVE TableInv'
  <2>1. /\ TableAgrees /\ NoneLost
        /\ again' = (again \/ GetStr(chain, n) # NULL)
    BY <1>1 DEF Subscribe, TableInv
  <2>2. PICK e \in Entries :
          \/ Enter(n, e)
          \/ /\ chain' = RemoveStr(SetStr(chain, n, e), n)
             /\ size' = IF GetStr(chain, n) = NULL THEN size ELSE size - 1
             /\ wanted' = wanted \ {n}
             /\ UNCHANGED <<entry, counted>>
    BY <1>1 DEF Subscribe
  <2> QED
    BY <2>1, <2>2, EnterTable, TakeBackTable DEF TableInv
<1>2. ASSUME NEW n \in Names, Register(n) PROVE TableInv'
  <2>1. /\ TableAgrees /\ NoneLost
        /\ again' = (again \/ GetStr(chain, n) # NULL)
    BY <1>2 DEF Register, TableInv
  <2>2. PICK e \in Entries : Enter(n, e)
    BY <1>2 DEF Register
  <2> QED
    BY <2>1, <2>2, EnterTable DEF TableInv
<1>3. ASSUME NEW n \in Names, Unsubscribe(n) \/ Unregister(n) PROVE TableInv'
  <2>1. TableAgrees /\ NoneLost /\ Leave(n) /\ again' = again
    BY <1>3 DEF Unsubscribe, Unregister, TableInv
  <2> QED
    BY <2>1, LeaveTable DEF TableInv
<1>4. CASE ChannelDestroy
  BY <1>4 DEF ChannelDestroy, TableInv
<1>5. ASSUME UNCHANGED <<alive, table>> PROVE TableInv'
  BY <1>5 DEF table, TableInv, TableAgrees, NoneLost, Allocated, InTable
<1>6. CASE PubPublish \/ MsgSend \/ ChannelPoll \/ PeerPoll \/ ChannelConnect \/ ChannelLost
  BY <1>5, <1>6 DEF PubPublish, MsgSend, ChannelPoll, PeerPoll, ChannelConnect, ChannelLost
<1>7. CASE UNCHANGED channels
  BY <1>5, <1>7 DEF channels
<1> QED
  BY <1>1, <1>2, <1>3, <1>4, <1>6, <1>7 DEF ChannelsNext

\* Every lookup gives what the calls of the user left in the table, for any names,
\* any hash of them and any number of entries, and unless a name is added twice,
\* the count is right and no entry is leaked.
THEOREM EntriesAreKept == ProtocolSpec => []EntriesKept
<1>1. TableInv /\ [ProtocolNext]_<<vars, channels>> => TableInv'
  BY StepTable, ProtocolParts
<1>2. ProtocolInit => TableInv
  BY InitTable DEF ProtocolInit
<1>3. TableInv => EntriesKept
  BY DEF TableInv, TableAgrees, NoneLost, Allocated, EntriesKept
<1> QED
  BY <1>1, <1>2, <1>3, PTL DEF ProtocolSpec

=============================================================================
