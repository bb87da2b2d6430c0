------------------------ MODULE ClientRequestsProofs ------------------------
(***************************************************************************)
(* Proofs about ClientRequests, for any number of requests and slots, any  *)
(* timeouts and any number of disconnects and connects, under the usage    *)
(* rule that nobody disconnects from another thread or from inside a       *)
(* callback.                                                               *)
(*                                                                         *)
(* IInv says whose slot is whose: it gives the types, AtMostOnce and the   *)
(* refinement of RequestPromise, whatever becomes of the numbers.          *)
(* AnswerInv adds what the numbers are for: seqno_to_index and the slots   *)
(* are inverse to each other, and a frame on its way can meet no slot but  *)
(* its own.  It needs numbers that are not reused too early (Fresh).       *)
(***************************************************************************)
EXTENDS ClientRequests, FiniteSetTheorems, TLAPS

\* Most leaves are first-order reasoning about functions, sets and records, which
\* Zenon does well; a leaf that needs arithmetic or sequences names SMT.
USE Zenon

\* Pushing a return point and taking it off again gives the stack back.
LEMMA PushPop ==
    ASSUME NEW x \in PCs, NEW s \in Seq(PCs)
    PROVE  /\ <<x>> \o s \in Seq(PCs)
           /\ <<x>> \o s # << >>
           /\ Head(<<x>> \o s) = x
           /\ Tail(<<x>> \o s) = s
<1>1. <<x>> \in Seq(PCs) /\ Len(<<x>>) = 1
  BY SMTT(30)
<1>2. <<x>> \o s \in Seq(PCs) /\ Len(<<x>> \o s) = 1 + Len(s)
  BY <1>1, SMTT(30)
<1>3. <<x>> \o s # << >>
  BY <1>2, SMTT(30)
<1>4. Head(<<x>> \o s) = x
  BY <1>1, <1>2, <1>3, SMTT(30)
<1>5. Tail(<<x>> \o s) = s
  BY <1>1, <1>2, <1>3, SMTT(30)
<1> QED
  BY <1>2, <1>3, <1>4, <1>5

-----------------------------------------------------------------------------
(* The inductive invariant. *)

\* TypeOK in parts, one for each group of variables.
PoolType ==
    /\ bitmap \subseteq Slots
    /\ pool \in [Slots -> [seqno : SeqNos, timeout : Nat, req : Requests \cup {NoReq}]]
    /\ seqIndex \in [SeqNos -> Slots \cup {NoSlot}]
    /\ seqno \in SeqNos /\ nextSilent \in SeqNos
FlagType == connected \in BOOLEAN /\ evt \in BOOLEAN
LinkType ==
    link \in {"none", "closed", "eof", "up"} /\ wire \subseteq Frames /\ timer \in {"sleep", "signal"}
StageType == stage \in [Requests -> {"new", "checked", "refused", "accepted", "returned"}]
PcType == pc \in [Threads -> PCs] /\ ret \in [Threads -> Seq(PCs)]
TodoType == todo \in [Threads -> SUBSET Requests]
PollType ==
    /\ rfds \subseteq {"sock", "evt"}
    /\ batch \subseteq Frames /\ frame \in Frames \cup {NoFrame}
    /\ hit \in Slots \cup {NoSlot}
    /\ snap \in [index : Slots \cup {NoSlot}, req : Requests \cup {NoReq}]
PingType == pinging \in Ping \cup {NoReq} /\ pingSeqno \in SeqNos
CountType == disconnects \in 0 .. MaxDisconnects /\ connects \in 0 .. MaxConnects
GhostType == called \in [Requests -> Nat] /\ answeredBy \in [Requests -> SUBSET Requests]

Types ==
    /\ PoolType /\ FlagType /\ LinkType /\ StageType /\ PcType /\ TodoType
    /\ PollType /\ PingType /\ CountType /\ GhostType

Level1 == {"idle", "handshake", "destroy"}
Nested == {"collect_all", "call", "disconnect"}

\* Where the poll thread is neither in a routine that returns nor in a reply.
Flat == {"idle", "socket", "dispatch", "snapshot", "event", "collect_due", "destroy", "handshake"}
Plain == Flat \cup {"collect_all", "disconnect"}

\* s holds one return point, of a routine entered between two polls.
OneLevel(s) == s # << >> /\ Head(s) \in Level1 /\ Tail(s) = << >>

\* The return stack of the poll thread has the shape its control state needs.
StackInv ==
    LET s == ret["poll"] IN
    /\ pc["poll"] \notin Nested \cup {"in_cb"} => s = << >>
    /\ pc["poll"] \in Nested => OneLevel(s)
    /\ pc["poll"] = "in_cb" =>
         /\ s # << >>
         /\ \/ Head(s) = "free" /\ Tail(s) = << >>
            \/ Head(s) = "call" /\ OneLevel(Tail(s))

\* The poll thread has run the callback of its snapshot and not yet freed it.
InReply == pc["poll"] = "free" \/ (pc["poll"] = "in_cb" /\ Head(ret["poll"]) = "free")

\* The poll thread is calling back what it collected.
InCalls == pc["poll"] = "call" \/ (pc["poll"] = "in_cb" /\ Head(ret["poll"]) = "call")

Registered == {"accepted", "returned"}

\* Each slot in use belongs to one accepted request, whose callback has not
\* run unless it is the snapshot in hand; the snapshot's slot stays its own.
SlotInv ==
    /\ \A i \in bitmap : pool[i].req \in Requests /\ stage[pool[i].req] \in Registered
    /\ \A i, j \in bitmap : i # j => pool[i].req # pool[j].req
    /\ \A i \in bitmap : called[pool[i].req] = 0 \/ (InReply /\ i = snap.index)
    /\ pc["poll"] = "reply" \/ InReply =>
         snap.index \in bitmap /\ pool[snap.index].req = snap.req

\* What was collected is in no slot and was not called back.
TodoInv ==
    /\ todo["poll"] # {} => InCalls
    /\ \A r \in todo["poll"] :
         called[r] = 0 /\ stage[r] \in Registered /\ \A i \in bitmap : pool[i].req # r

\* A request that is not registered was never called back.
EarlyInv == \A r \in Requests : stage[r] \notin Registered => called[r] = 0

OnceInv == SlotInv /\ TodoInv /\ EarlyInv /\ AtMostOnce

\* The application thread stays outside the API.
AppInv == pc["app"] = "idle" /\ todo["app"] = {}

IInv == Types /\ StackInv /\ AppInv /\ OnceInv

\* The parts are the whole type invariant.
LEMMA TypesAre == Types <=> TypeOK
  BY DEF Types, TypeOK, PoolType, FlagType, LinkType, StageType, PcType, TodoType, PollType,
         PingType, CountType, GhostType

\* Zero is a sequence number, and the number after one is one again.
LEMMA NextSeqnoType ==
    /\ 0 \in SeqNos /\ 1 \in SeqNos
    /\ \A s \in SeqNos : NextSeqno(s) \in SeqNos
BY KindsAssumption, SMTT(30) DEF NextSeqno, SeqNos

\* Initially nothing is registered.
LEMMA InitInv == Init => IInv
<1> SUFFICES ASSUME Init PROVE IInv
  OBVIOUS
<1>1. Types
  <2>1. << >> \in Seq(PCs)
    BY SMT
  <2>2. PcType
    BY <2>1 DEF Init, PCs, PcType
  <2>3. PollType
    BY DEF Init, NoSnap, PollType
  <2>4. PoolType
    BY NextSeqnoType DEF Init, PoolType
  <2>5. FlagType
    BY DEF Init, FlagType
  <2>6. CountType
    BY KindsAssumption, SMTT(30) DEF Init, CountType
  <2>7. LinkType /\ StageType /\ TodoType /\ PingType /\ GhostType
    BY NextSeqnoType DEF Init, LinkType, StageType, TodoType, PingType, GhostType
  <2> QED
    BY <2>2, <2>3, <2>4, <2>5, <2>6, <2>7 DEF Types
<1>2. StackInv /\ AppInv
  BY DEF Init, StackInv, AppInv, Nested, Threads
<1>3. OnceInv
  BY SMTT(30) DEF Init, OnceInv, SlotInv, TodoInv, EarlyInv, AtMostOnce, InReply, InCalls, Threads
<1> QED
  BY <1>1, <1>2, <1>3 DEF IInv

-----------------------------------------------------------------------------
(* What a step leaves alone. *)

\* A group of variables that does not change keeps its type.
LEMMA SameTypes ==
    ASSUME Types
    PROVE  /\ UNCHANGED poolVars => PoolType'
           /\ UNCHANGED <<connected, evt>> => FlagType'
           /\ UNCHANGED <<link, wire, timer>> => LinkType'
           /\ UNCHANGED stage => StageType'
           /\ UNCHANGED <<pc, ret>> => PcType'
           /\ UNCHANGED todo => TodoType'
           /\ UNCHANGED pollVars => PollType'
           /\ UNCHANGED pingVars => PingType'
           /\ UNCHANGED countVars => CountType'
           /\ UNCHANGED ghostVars => GhostType'
<1> USE DEF Types
<1>1. UNCHANGED poolVars => PoolType'
  BY DEF poolVars, PoolType
<1>2. UNCHANGED <<connected, evt>> => FlagType'
  BY DEF FlagType
<1>3. UNCHANGED <<link, wire, timer>> => LinkType'
  BY DEF LinkType
<1>4. (UNCHANGED stage => StageType') /\ (UNCHANGED <<pc, ret>> => PcType')
  BY DEF StageType, PcType
<1>5. (UNCHANGED todo => TodoType') /\ (UNCHANGED pollVars => PollType')
  BY DEF TodoType, PollType, pollVars
<1>6. (UNCHANGED pingVars => PingType') /\ (UNCHANGED countVars => CountType')
  BY DEF PingType, CountType, pingVars, countVars
<1>7. UNCHANGED ghostVars => GhostType'
  BY DEF GhostType, ghostVars
<1> QED
  BY <1>1, <1>2, <1>3, <1>4, <1>5, <1>6, <1>7

\* A step that leaves control alone keeps the stacks.
LEMMA SameControl ==
    ASSUME IInv, UNCHANGED ctlVars
    PROVE  PcType' /\ TodoType' /\ StackInv' /\ AppInv'
<1>1. UNCHANGED <<pc, ret, todo>>
  BY DEF ctlVars
<1>2. PcType' /\ TodoType'
  BY <1>1, SameTypes DEF IInv
<1> QED
  BY <1>1, <1>2 DEF IInv, StackInv, AppInv

\* The poll thread goes on, in no routine that returns.
LEMMA MovedOn ==
    ASSUME IInv, pc["poll"] \in Flat, NEW p \in Flat, Goto("poll", p)
    PROVE  PcType' /\ StackInv' /\ pc'["poll"] = p /\ pc'["app"] = "idle"
<1>1. pc' = [pc EXCEPT !["poll"] = p] /\ ret' = ret /\ pc \in [Threads -> PCs] /\ p \in PCs
  BY DEF Goto, IInv, Types, PcType, Flat, PCs
<1>2. pc'["poll"] = p /\ pc'["app"] = pc["app"] /\ pc' \in [Threads -> PCs]
  BY <1>1 DEF Threads
<1>3. ret["poll"] = << >>
  BY DEF IInv, StackInv, Flat, Nested
<1>4. PcType'
  BY <1>1, <1>2 DEF IInv, Types, PcType
<1>5. StackInv'
  BY <1>1, <1>2, <1>3 DEF StackInv, Flat, Nested
<1> QED
  BY <1>2, <1>4, <1>5 DEF IInv, AppInv

\* The poll thread enters a routine between two polls, or where a poll ends.
LEMMA Entered ==
    ASSUME IInv, pc["poll"] \in Flat, NEW p \in Nested, NEW back \in Level1,
           Enter("poll", p, back)
    PROVE  PcType' /\ StackInv' /\ pc'["poll"] = p /\ pc'["app"] = "idle"
<1>1. /\ pc' = [pc EXCEPT !["poll"] = p] /\ ret' = [ret EXCEPT !["poll"] = <<back>> \o ret["poll"]]
      /\ pc \in [Threads -> PCs] /\ ret \in [Threads -> Seq(PCs)] /\ p \in PCs /\ back \in PCs
  BY DEF Enter, IInv, Types, PcType, Nested, Level1, PCs
<1>2. /\ pc'["poll"] = p /\ pc'["app"] = pc["app"] /\ pc' \in [Threads -> PCs]
      /\ ret["poll"] \in Seq(PCs)
  BY <1>1 DEF Threads
<1>3. ret["poll"] = << >>
  BY DEF IInv, StackInv, Flat, Nested
<1>4. <<back>> \o ret["poll"] \in Seq(PCs) /\ OneLevel(<<back>> \o ret["poll"])
  BY <1>1, <1>2, <1>3, PushPop DEF OneLevel
<1>5. ret' \in [Threads -> Seq(PCs)] /\ ret'["poll"] = <<back>> \o ret["poll"]
  BY <1>1, <1>4 DEF Threads
<1>6. PcType'
  BY <1>2, <1>5 DEF PcType
<1>7. StackInv'
  BY <1>2, <1>4, <1>5 DEF StackInv, Nested
<1> QED
  BY <1>2, <1>6, <1>7 DEF IInv, AppInv

\* A step that calls nobody back keeps OnceInv, where it frees slots only while
\* no callback of theirs is running or due.
LEMMA QuietOnce ==
    ASSUME IInv, UNCHANGED <<todo, called>>,
           \A i \in bitmap : pool'[i].req = pool[i].req,
           \A r \in Requests : stage'[r] \in Registered <=> stage[r] \in Registered,
           \/ UNCHANGED <<pc, ret, snap, bitmap>>
           \/ pc["poll"] \in Plain /\ pc'["poll"] \in Plain /\ bitmap' \subseteq bitmap
           \/ pc["poll"] = "free" /\ pc'["poll"] \in Plain /\ bitmap' = bitmap \ {snap.index}
    PROVE  OnceInv'
<1>1. SlotInv /\ TodoInv /\ EarlyInv /\ AtMostOnce /\ todo["poll"] \subseteq Requests
  BY DEF IInv, OnceInv, Types, TodoType, Threads
<1>2. EarlyInv' /\ AtMostOnce'
  BY <1>1 DEF EarlyInv, AtMostOnce
<1>3. CASE UNCHANGED <<pc, ret, snap, bitmap>>
  <2>1. (InReply' <=> InReply) /\ (InCalls' <=> InCalls)
    BY <1>3 DEF InReply, InCalls
  <2>2. SlotInv'
    BY <1>1, <1>3, <2>1, SMTT(30) DEF SlotInv
  <2>3. TodoInv'
    BY <1>1, <1>3, <2>1 DEF TodoInv
  <2> QED
    BY <1>2, <2>2, <2>3 DEF OnceInv
<1>4. CASE pc["poll"] \in Plain /\ pc'["poll"] \in Plain /\ bitmap' \subseteq bitmap
  <2>1. ~InReply /\ ~InReply' /\ ~InCalls /\ pc'["poll"] # "reply"
    BY <1>4 DEF InReply, InCalls, Plain, Flat
  <2>2. SlotInv'
    BY <1>1, <1>4, <2>1 DEF SlotInv
  <2>3. TodoInv'
    BY <1>1, <1>4, <2>1 DEF TodoInv
  <2> QED
    BY <1>2, <2>2, <2>3 DEF OnceInv
<1>5. CASE pc["poll"] = "free" /\ pc'["poll"] \in Plain /\ bitmap' = bitmap \ {snap.index}
  <2>1. ~InReply' /\ ~InCalls /\ pc'["poll"] # "reply"
    BY <1>5 DEF InReply, InCalls, Plain, Flat
  <2>2. SlotInv'
    BY <1>1, <1>5, <2>1, SMTT(30) DEF SlotInv
  <2>3. TodoInv'
    BY <1>1, <1>5, <2>1 DEF TodoInv
  <2> QED
    BY <1>2, <2>2, <2>3 DEF OnceInv
<1> QED
  BY <1>3, <1>4, <1>5

\* Freed slots leave a map with the same type.
LEMMA FreeType ==
    ASSUME Types, NEW S, Free(S), UNCHANGED <<pool, seqno, nextSilent>>
    PROVE  PoolType'
<1>1. bitmap' \subseteq bitmap /\ seqIndex' = ClearIndex(S)
  BY DEF Free
<1>2. ClearIndex(S) \in [SeqNos -> Slots \cup {NoSlot}]
  BY DEF ClearIndex, Types, PoolType
<1> QED
  BY <1>1, <1>2 DEF Types, PoolType

-----------------------------------------------------------------------------
(* Every step keeps IInv. *)

\* A caller's step, a ping's end, and a step that changes nothing, keep IInv.
LEMMA CallInv ==
    ASSUME IInv,
           \/ UNCHANGED vars
           \/ \E r \in Requests : CallCheck(r) \/ RegisterStep(r)
           \/ \E r \in Ping : PingStep(r)
    PROVE  IInv'
<1> USE DEF IInv
<1>1. CASE UNCHANGED vars
  <2>1. /\ UNCHANGED <<poolVars, link, wire, connected, evt, timer, stage, pc, ret, todo, ctlVars>>
        /\ UNCHANGED <<bitmap, pool, snap, pollVars, pingVars, countVars, ghostVars, called>>
    BY <1>1 DEF vars, linkVars, ctlVars, poolVars, ghostVars, pollVars
  <2>2. Types'
    BY <2>1, SameTypes DEF Types
  <2> QED
    BY <2>1, <2>2, SameControl, QuietOnce
<1>2. ASSUME NEW r \in Requests, CallCheck(r)
      PROVE  IInv'
  <2>1. /\ UNCHANGED <<poolVars, link, wire, connected, evt, timer, pc, ret, todo, ctlVars>>
        /\ UNCHANGED <<bitmap, pool, snap, pollVars, countVars, ghostVars, called>>
    BY <1>2 DEF CallCheck, linkVars, ctlVars, poolVars, ghostVars, pollVars
  <2>2. StageType' /\ \A q \in Requests : stage'[q] \in Registered <=> stage[q] \in Registered
    BY <1>2 DEF CallCheck, Types, StageType, Registered
  <2>3. PingType'
    BY <1>2 DEF CallCheck, Types, PingType
  <2>4. Types'
    BY <2>1, <2>2, <2>3, SameTypes DEF Types
  <2> QED
    BY <2>1, <2>2, <2>4, SameControl, QuietOnce
<1>3. ASSUME NEW r \in Requests, RegisterFull(r)
      PROVE  IInv'
  <2>1. /\ UNCHANGED <<poolVars, link, wire, connected, evt, timer, pc, ret, todo, ctlVars>>
        /\ UNCHANGED <<bitmap, pool, snap, pollVars, countVars, ghostVars, called>>
    BY <1>3 DEF RegisterFull, linkVars, ctlVars, poolVars, ghostVars, pollVars
  <2>2. StageType' /\ \A q \in Requests : stage'[q] \in Registered <=> stage[q] \in Registered
    BY <1>3 DEF RegisterFull, Types, StageType, Registered
  <2>3. PingType'
    BY <1>3 DEF RegisterFull, Types, PingType
  <2>4. Types'
    BY <2>1, <2>2, <2>3, SameTypes DEF Types
  <2> QED
    BY <2>1, <2>2, <2>4, SameControl, QuietOnce
<1>4. ASSUME NEW r \in Requests, NEW i \in Slots, NEW sent \in BOOLEAN, NEW timeout \in Timeouts,
             Register(r, i, sent, timeout)
      PROVE  IInv'
  <2>1. /\ UNCHANGED <<connected, evt, timer, pc, ret, todo, ctlVars>>
        /\ UNCHANGED <<snap, pollVars, countVars, ghostVars, called>>
    BY <1>4 DEF Register, ctlVars, ghostVars, pollVars
  <2>2. stage[r] = "checked" /\ i \notin bitmap
    BY <1>4 DEF Register, FirstFree
  <2>3. PoolType'
    <3>1. NextSeqno(seqno) \in SeqNos /\ timeout \in Nat
      BY NextSeqnoType, KindsAssumption DEF Types, PoolType
    <3>2. pool' \in [Slots -> [seqno : SeqNos, timeout : Nat, req : Requests \cup {NoReq}]]
      BY <1>4, <3>1 DEF Register, Types, PoolType
    <3>3. seqIndex' \in [SeqNos -> Slots \cup {NoSlot}]
      BY <1>4 DEF Register, Types, PoolType
    <3>4. bitmap' \subseteq Slots /\ seqno' \in SeqNos /\ nextSilent' \in SeqNos
      BY <1>4, <3>1 DEF Register, Types, PoolType
    <3> QED
      BY <3>2, <3>3, <3>4 DEF PoolType
  <2>4. LinkType'
    <3>1. Sent(TypeOf(r), seqno, r) \subseteq Frames
      BY SMTT(30) DEF Sent, TypeOf, Frames, Types, PoolType, LinkType
    <3> QED
      BY <1>4, <3>1 DEF Register, Types, LinkType
  <2>5. StageType' /\ PingType'
    BY <1>4 DEF Register, Types, StageType, PingType, PoolType
  <2>6. OnceInv'
    <3>1. /\ pool'[i].req = r /\ bitmap' \subseteq bitmap \cup {i} /\ bitmap \subseteq bitmap'
          /\ \A j \in bitmap : pool'[j] = pool[j]
      BY <1>4, <2>2 DEF Register, Types, PoolType
    <3>2. /\ i \in bitmap' => stage'[r] = "accepted"
          /\ \A q \in Requests : q # r => stage'[q] = stage[q]
      BY <1>4, <2>2 DEF Register, Types, StageType
    <3>3. SlotInv /\ TodoInv /\ EarlyInv /\ AtMostOnce /\ todo["poll"] \subseteq Requests
      BY DEF OnceInv, Types, TodoType, Threads
    <3>4. called[r] = 0 /\ r \notin todo["poll"] /\ \A j \in bitmap : pool[j].req # r
      BY <2>2, <3>3 DEF SlotInv, TodoInv, EarlyInv, Registered
    <3>5. (InReply' <=> InReply) /\ (InCalls' <=> InCalls)
      BY <2>1 DEF InReply, InCalls
    <3>6. SlotInv'
      BY <2>1, <2>2, <3>1, <3>2, <3>3, <3>4, <3>5, SMTT(30) DEF SlotInv, Registered
    <3>7. TodoInv'
      BY <2>1, <3>1, <3>2, <3>3, <3>4, <3>5 DEF TodoInv
    <3>8. EarlyInv' /\ AtMostOnce'
      BY <2>1, <3>2, <3>3, <3>4 DEF EarlyInv, AtMostOnce
    <3> QED
      BY <3>6, <3>7, <3>8 DEF OnceInv
  <2>7. Types'
    BY <2>1, <2>3, <2>4, <2>5, SameTypes DEF Types
  <2> QED
    BY <2>1, <2>6, <2>7, SameControl
<1>5. ASSUME NEW r \in Requests, NEW sent \in BOOLEAN, RegisterSilent(r, sent)
      PROVE  IInv'
  <2> DEFINE q == IF nextSilent = 0 THEN 1 ELSE nextSilent
  <2>1. /\ UNCHANGED <<bitmap, pool, seqIndex, seqno, connected, evt, timer, pc, ret, todo, ctlVars>>
        /\ UNCHANGED <<snap, pollVars, pingVars, countVars, ghostVars, called>>
    BY <1>5 DEF RegisterSilent, ctlVars, ghostVars, pollVars
  <2>2. q \in SeqNos /\ NextSeqno(q) \in SeqNos
    BY NextSeqnoType DEF Types, PoolType
  <2>3. PoolType'
    BY <1>5, <2>1, <2>2 DEF RegisterSilent, Types, PoolType
  <2>4. LinkType'
    <3>1. Sent("sub", q, r) \subseteq Frames
      BY <2>2, SMTT(30) DEF Sent, Frames, Types, LinkType
    <3> QED
      BY <1>5, <2>1, <3>1 DEF RegisterSilent, Types, LinkType
  <2>5. StageType' /\ \A x \in Requests : x # r => stage'[x] = stage[x]
    BY <1>5 DEF RegisterSilent, Types, StageType
  <2>6. Types'
    BY <2>1, <2>3, <2>4, <2>5, SameTypes DEF Types
  <2>7. OnceInv'
    <3>1. SlotInv /\ TodoInv /\ EarlyInv /\ AtMostOnce /\ todo["poll"] \subseteq Requests
      BY DEF OnceInv, Types, TodoType, Threads
    <3>2. stage[r] = "checked"
      BY <1>5 DEF RegisterSilent
    <3>3. called[r] = 0 /\ r \notin todo["poll"] /\ \A j \in bitmap : pool[j].req # r
      BY <3>1, <3>2 DEF SlotInv, TodoInv, EarlyInv, Registered
    <3>4. (InReply' <=> InReply) /\ (InCalls' <=> InCalls)
      BY <2>1 DEF InReply, InCalls
    <3>5. SlotInv'
      BY <2>1, <2>5, <3>1, <3>3, <3>4 DEF SlotInv
    <3>6. TodoInv'
      BY <2>1, <2>5, <3>1, <3>3, <3>4 DEF TodoInv
    <3>7. EarlyInv' /\ AtMostOnce'
      BY <2>1, <2>5, <3>1, <3>3 DEF EarlyInv, AtMostOnce
    <3> QED
      BY <3>5, <3>6, <3>7 DEF OnceInv
  <2> QED
    BY <2>1, <2>6, <2>7, SameControl
<1>6. ASSUME NEW r \in Ping, PingReplied(r)
      PROVE  IInv'
  <2>1. /\ UNCHANGED <<poolVars, link, wire, connected, evt, timer, pc, ret, todo, ctlVars>>
        /\ UNCHANGED <<bitmap, pool, snap, pollVars, countVars, ghostVars, called>>
    BY <1>6 DEF PingReplied, linkVars, ctlVars, poolVars, ghostVars, pollVars
  <2>2. StageType' /\ \A q \in Requests : stage'[q] \in Registered <=> stage[q] \in Registered
    BY <1>6 DEF PingReplied, Types, StageType, Registered
  <2>3. PingType'
    BY <1>6 DEF PingReplied, Types, PingType
  <2>4. Types'
    BY <2>1, <2>2, <2>3, SameTypes DEF Types
  <2> QED
    BY <2>1, <2>2, <2>4, SameControl, QuietOnce
<1>7. ASSUME NEW r \in Ping, PingTimeout(r)
      PROVE  IInv'
  <2>1. /\ UNCHANGED <<pool, seqno, nextSilent, link, wire, connected, evt, timer>>
        /\ UNCHANGED <<pc, ret, todo, ctlVars, pollVars, countVars, ghostVars, called>>
        /\ pc["poll"] = "idle"
    BY <1>7 DEF PingTimeout, linkVars, ctlVars, ghostVars
  <2>2. StageType' /\ \A q \in Requests : stage'[q] \in Registered <=> stage[q] \in Registered
    BY <1>7 DEF PingTimeout, Types, StageType, Registered
  <2>3. PingType'
    BY <1>7 DEF PingTimeout, Types, PingType
  <2>4. UNCHANGED <<bitmap, seqIndex>> \/ Free({seqIndex[pingSeqno]})
    BY <1>7 DEF PingTimeout
  <2>5. PoolType'
    BY <2>1, <2>4, FreeType, SameTypes DEF poolVars
  <2>6. Types'
    BY <2>1, <2>2, <2>3, <2>5, SameTypes DEF Types
  <2>7. bitmap' \subseteq bitmap /\ pc["poll"] \in Plain /\ pc'["poll"] \in Plain
    BY <2>1, <2>4 DEF Free, Plain, Flat
  <2> QED
    BY <2>1, <2>2, <2>6, <2>7, SameControl, QuietOnce
<1> QED
  BY <1>1, <1>2, <1>3, <1>4, <1>5, <1>6, <1>7 DEF RegisterStep, PingStep

\* So does a step of the timer, of the server, or of the poll thread that only
\* moves on: around its pselect and recv, in ssn_client_input up to the lookup,
\* at the event descriptor, and in the steps of a lost or a new connection.
LEMMA PollInv ==
    ASSUME IInv,
           \/ TimerStep \/ PeerClose \/ PollSelect \/ PollNoSocket \/ PollRecv \/ PollDestroy
           \/ InputLookup \/ InputDone \/ PollDrain \/ PollEof \/ Connect
           \/ \E ok \in BOOLEAN : Handshake(ok)
    PROVE  IInv'
<1> USE DEF IInv
<1>1. CASE TimerRound
  <2>1. /\ UNCHANGED <<bitmap, seqIndex, seqno, nextSilent, link, wire, connected, evt, stage>>
        /\ UNCHANGED <<pc, ret, todo, ctlVars, snap, pollVars, pingVars, countVars, ghostVars, called>>
    BY <1>1 DEF TimerRound, linkVars, ctlVars, ghostVars, pollVars
  <2>2. \A i \in Slots :
          /\ pool'[i].req = pool[i].req /\ pool'[i].seqno = pool[i].seqno
          /\ pool'[i] \in [seqno : SeqNos, timeout : Nat, req : Requests \cup {NoReq}]
    BY <1>1, SMTT(30) DEF TimerRound, Types, PoolType
  <2>3. pool' \in [Slots -> [seqno : SeqNos, timeout : Nat, req : Requests \cup {NoReq}]]
    BY <1>1, <2>2 DEF TimerRound
  <2>4. PoolType'
    BY <2>1, <2>3 DEF Types, PoolType
  <2>5. LinkType'
    BY <1>1, <2>1 DEF TimerRound, Types, LinkType
  <2>6. Types'
    BY <2>1, <2>4, <2>5, SameTypes DEF Types
  <2>7. \A i \in bitmap : pool'[i].req = pool[i].req
    BY <2>2 DEF Types, PoolType
  <2> QED
    BY <2>1, <2>6, <2>7, SameControl, QuietOnce
<1>2. CASE TimerSignal
  <2>1. /\ UNCHANGED <<poolVars, link, wire, connected, stage, pc, ret, todo, ctlVars>>
        /\ UNCHANGED <<bitmap, pool, snap, pollVars, pingVars, countVars, ghostVars, called>>
    BY <1>2 DEF TimerSignal, linkVars, ctlVars, poolVars, ghostVars, pollVars
  <2>2. LinkType'
    BY <1>2, <2>1 DEF TimerSignal, Types, LinkType
  <2>3. FlagType'
    BY <1>2, <2>1 DEF TimerSignal, Types, FlagType
  <2>4. Types'
    BY <2>1, <2>2, <2>3, SameTypes DEF Types
  <2> QED
    BY <2>1, <2>4, SameControl, QuietOnce
<1>3. CASE PeerClose
  <2>1. /\ UNCHANGED <<poolVars, wire, connected, evt, timer, stage, pc, ret, todo, ctlVars>>
        /\ UNCHANGED <<bitmap, pool, snap, pollVars, pingVars, countVars, ghostVars, called>>
    BY <1>3 DEF PeerClose, ctlVars, poolVars, ghostVars, pollVars
  <2>2. LinkType'
    BY <1>3, <2>1 DEF PeerClose, Types, LinkType
  <2>3. Types'
    BY <2>1, <2>2, SameTypes DEF Types
  <2> QED
    BY <2>1, <2>3, SameControl, QuietOnce
<1>4. CASE PollSelect
  <2>1. /\ UNCHANGED <<poolVars, link, wire, connected, evt, timer, stage, todo, pingVars, countVars, ghostVars>>
        /\ UNCHANGED <<bitmap, pool, called>> /\ pc["poll"] = "idle"
        /\ Goto("poll", "socket")
    BY <1>4 DEF PollSelect, poolVars, linkVars, ghostVars
  <2>2. PollType'
    BY <1>4, <2>1 DEF PollSelect, Types, PollType
  <2>3. PcType' /\ StackInv' /\ pc'["poll"] = "socket" /\ pc'["app"] = "idle"
    BY <2>1, MovedOn DEF Flat
  <2>4. Types'
    BY <2>1, <2>2, <2>3, SameTypes DEF Types
  <2>5. pc["poll"] \in Plain /\ pc'["poll"] \in Plain
    BY <2>1, <2>3 DEF Plain, Flat
  <2> QED
    BY <2>1, <2>3, <2>4, <2>5, QuietOnce DEF AppInv
<1>5. CASE PollNoSocket
  <2>1. /\ UNCHANGED <<poolVars, link, wire, connected, evt, timer, stage, todo, pollVars, pingVars, countVars, ghostVars>>
        /\ UNCHANGED <<bitmap, pool, called>> /\ pc["poll"] = "socket"
        /\ Goto("poll", "event")
    BY <1>5 DEF PollNoSocket, poolVars, linkVars, ghostVars
  <2>2. PcType' /\ StackInv' /\ pc'["poll"] = "event" /\ pc'["app"] = "idle"
    BY <2>1, MovedOn DEF Flat
  <2>3. Types'
    BY <2>1, <2>2, SameTypes DEF Types
  <2>4. pc["poll"] \in Plain /\ pc'["poll"] \in Plain
    BY <2>1, <2>2 DEF Plain, Flat
  <2> QED
    BY <2>1, <2>2, <2>3, <2>4, QuietOnce DEF AppInv
<1>6. CASE PollRecv
  <2>1. /\ UNCHANGED <<poolVars, connected, evt, timer, stage, todo, pingVars, countVars, ghostVars>>
        /\ UNCHANGED <<bitmap, pool, called>> /\ pc["poll"] = "socket"
        /\ Goto("poll", "dispatch")
    BY <1>6 DEF PollRecv, poolVars, linkVars, ghostVars
  <2>2. LinkType'
    BY <1>6, <2>1 DEF PollRecv, Types, LinkType
  <2>3. PollType'
    BY <1>6, <2>1 DEF PollRecv, Types, PollType, PoolType, LinkType
  <2>4. PcType' /\ StackInv' /\ pc'["poll"] = "dispatch" /\ pc'["app"] = "idle"
    BY <2>1, MovedOn DEF Flat
  <2>5. Types'
    BY <2>1, <2>2, <2>3, <2>4, SameTypes DEF Types
  <2>6. pc["poll"] \in Plain /\ pc'["poll"] \in Plain
    BY <2>1, <2>4 DEF Plain, Flat
  <2> QED
    BY <2>1, <2>4, <2>5, <2>6, QuietOnce DEF AppInv
<1>7. CASE PollDestroy
  <2>1. /\ UNCHANGED <<poolVars, evt, timer, stage, todo, pingVars, countVars, ghostVars>>
        /\ UNCHANGED <<bitmap, pool, called>> /\ pc["poll"] = "destroy"
        /\ Goto("poll", "idle")
    BY <1>7 DEF PollDestroy, poolVars, linkVars, ghostVars
  <2>2. LinkType'
    BY <1>7, <2>1 DEF PollDestroy, Types, LinkType
  <2>3. FlagType'
    BY <1>7, <2>1 DEF PollDestroy, Types, FlagType
  <2>4. PollType'
    BY <1>7, <2>1 DEF PollDestroy, Types, PollType
  <2>5. PcType' /\ StackInv' /\ pc'["poll"] = "idle" /\ pc'["app"] = "idle"
    BY <2>1, MovedOn DEF Flat
  <2>6. Types'
    BY <2>1, <2>2, <2>3, <2>4, <2>5, SameTypes DEF Types
  <2>7. pc["poll"] \in Plain /\ pc'["poll"] \in Plain
    BY <2>1, <2>5 DEF Plain, Flat
  <2> QED
    BY <2>1, <2>5, <2>6, <2>7, QuietOnce DEF AppInv
<1>8. CASE InputLookup
  <2>1. /\ UNCHANGED <<poolVars, link, wire, connected, evt, timer, stage, todo, pingVars, countVars, ghostVars>>
        /\ UNCHANGED <<bitmap, pool, called>> /\ pc["poll"] = "dispatch"
        /\ (Goto("poll", "dispatch") \/ Goto("poll", "snapshot"))
    BY <1>8 DEF InputLookup, poolVars, linkVars, ghostVars
  <2>2. PollType'
    <3>1. PICK f \in batch :
            /\ batch' = batch \ {f} /\ hit' = seqIndex[f.seqno]
            /\ frame' = frame \/ frame' = f
      BY <1>8 DEF InputLookup
    <3>2. f \in Frames /\ f.seqno \in SeqNos
      BY DEF Types, PollType, Frames
    <3>3. hit' \in Slots \cup {NoSlot} /\ UNCHANGED <<rfds, snap>>
      BY <1>8, <3>1, <3>2 DEF InputLookup, Types, PoolType
    <3> QED
      BY <3>1, <3>2, <3>3 DEF Types, PollType
  <2>3. PcType' /\ StackInv' /\ pc'["poll"] \in {"dispatch", "snapshot"} /\ pc'["app"] = "idle"
    BY <2>1, MovedOn DEF Flat
  <2>4. Types'
    BY <2>1, <2>2, <2>3, SameTypes DEF Types
  <2>5. pc["poll"] \in Plain /\ pc'["poll"] \in Plain
    BY <2>1, <2>3 DEF Plain, Flat
  <2> QED
    BY <2>1, <2>3, <2>4, <2>5, QuietOnce DEF AppInv
<1>9. CASE InputDone
  <2>1. /\ UNCHANGED <<poolVars, link, wire, connected, evt, timer, stage, todo, pollVars, pingVars, countVars, ghostVars>>
        /\ UNCHANGED <<bitmap, pool, called>> /\ pc["poll"] = "dispatch"
        /\ Goto("poll", "event")
    BY <1>9 DEF InputDone, poolVars, linkVars, ghostVars
  <2>2. PcType' /\ StackInv' /\ pc'["poll"] = "event" /\ pc'["app"] = "idle"
    BY <2>1, MovedOn DEF Flat
  <2>3. Types'
    BY <2>1, <2>2, SameTypes DEF Types
  <2>4. pc["poll"] \in Plain /\ pc'["poll"] \in Plain
    BY <2>1, <2>2 DEF Plain, Flat
  <2> QED
    BY <2>1, <2>2, <2>3, <2>4, QuietOnce DEF AppInv
<1>10. CASE PollDrain
  <2>1. /\ UNCHANGED <<poolVars, link, wire, connected, timer, stage, todo, pingVars, countVars, ghostVars>>
        /\ UNCHANGED <<bitmap, pool, called>> /\ pc["poll"] = "event"
        /\ (Goto("poll", "collect_due") \/ Goto("poll", "idle"))
    BY <1>10 DEF PollDrain, poolVars, linkVars, ghostVars
  <2>2. FlagType'
    BY <1>10, <2>1 DEF PollDrain, Types, FlagType
  <2>3. PollType'
    BY <1>10, <2>1 DEF PollDrain, Types, PollType
  <2>4. PcType' /\ StackInv' /\ pc'["poll"] \in {"collect_due", "idle"} /\ pc'["app"] = "idle"
    BY <2>1, MovedOn DEF Flat
  <2>5. Types'
    BY <2>1, <2>2, <2>3, <2>4, SameTypes DEF Types
  <2>6. pc["poll"] \in Plain /\ pc'["poll"] \in Plain
    BY <2>1, <2>4 DEF Plain, Flat
  <2> QED
    BY <2>1, <2>4, <2>5, <2>6, QuietOnce DEF AppInv
<1>11. CASE PollEof
  <2>1. /\ UNCHANGED <<poolVars, link, wire, evt, timer, stage, todo, pollVars, pingVars, countVars, ghostVars>>
        /\ UNCHANGED <<bitmap, pool, called>> /\ pc["poll"] = "socket"
        /\ Enter("poll", "collect_all", "destroy")
    BY <1>11 DEF PollEof, poolVars, linkVars, ghostVars
  <2>2. FlagType'
    BY <1>11, <2>1 DEF PollEof, Types, FlagType
  <2>3. PcType' /\ StackInv' /\ pc'["poll"] = "collect_all" /\ pc'["app"] = "idle"
    BY <2>1, Entered DEF Flat, Nested, Level1
  <2>4. Types'
    BY <2>1, <2>2, <2>3, SameTypes DEF Types
  <2>5. pc["poll"] \in Plain /\ pc'["poll"] \in Plain
    BY <2>1, <2>3 DEF Plain, Flat
  <2> QED
    BY <2>1, <2>3, <2>4, <2>5, QuietOnce DEF AppInv
<1>12. CASE Connect
  <2>1. /\ UNCHANGED <<poolVars, evt, timer, stage, todo, pollVars, pingVars, ghostVars>>
        /\ UNCHANGED <<bitmap, pool, called>> /\ pc["poll"] = "idle"
        /\ Enter("poll", "collect_all", "handshake")
    BY <1>12 DEF Connect, poolVars, linkVars, ghostVars, Enter
  <2>2. LinkType'
    BY <1>12, <2>1 DEF Connect, Types, LinkType
  <2>3. FlagType'
    BY <1>12, <2>1 DEF Connect, Types, FlagType
  <2>4. CountType'
    BY <1>12, <2>1, KindsAssumption, SMTT(30) DEF Connect, Types, CountType
  <2>5. PcType' /\ StackInv' /\ pc'["poll"] = "collect_all" /\ pc'["app"] = "idle"
    BY <2>1, Entered DEF Flat, Nested, Level1
  <2>6. Types'
    BY <2>1, <2>2, <2>3, <2>4, <2>5, SameTypes DEF Types
  <2>7. pc["poll"] \in Plain /\ pc'["poll"] \in Plain
    BY <2>1, <2>5 DEF Plain, Flat
  <2> QED
    BY <2>1, <2>5, <2>6, <2>7, QuietOnce DEF AppInv
<1>13. ASSUME NEW ok \in BOOLEAN, Handshake(ok)
      PROVE  IInv'
  <2>1. /\ UNCHANGED <<poolVars, evt, timer, stage, todo, pollVars, pingVars, countVars, ghostVars>>
        /\ UNCHANGED <<bitmap, pool, called>> /\ pc["poll"] = "handshake"
        /\ Goto("poll", "idle")
    BY <1>13 DEF Handshake, poolVars, linkVars, ghostVars
  <2>2. LinkType'
    BY <1>13, <2>1 DEF Handshake, Types, LinkType, linkVars
  <2>3. FlagType'
    BY <1>13, <2>1 DEF Handshake, Types, FlagType, linkVars
  <2>4. PcType' /\ StackInv' /\ pc'["poll"] = "idle" /\ pc'["app"] = "idle"
    BY <2>1, MovedOn DEF Flat
  <2>5. Types'
    BY <2>1, <2>2, <2>3, <2>4, SameTypes DEF Types
  <2>6. pc["poll"] \in Plain /\ pc'["poll"] \in Plain
    BY <2>1, <2>4 DEF Plain, Flat
  <2> QED
    BY <2>1, <2>4, <2>5, <2>6, QuietOnce DEF AppInv
<1> QED
  BY <1>1, <1>2, <1>3, <1>4, <1>5, <1>6, <1>7, <1>8, <1>9, <1>10, <1>11, <1>12, <1>13 DEF TimerStep

\* A callback starts: it is counted, and control is in it or, for ping_reply_cb,
\* already past it.
LEMMA Invoked ==
    ASSUME IInv, NEW r \in Requests, NEW by \in SUBSET Requests, NEW back \in {"call", "free"},
           Invoke("poll", r, by, back),
           \/ back = "call" /\ pc["poll"] = "call"
           \/ back = "free" /\ pc["poll"] = "reply"
    PROVE  /\ PcType' /\ GhostType' /\ StackInv' /\ pc'["app"] = "idle"
           /\ pc'["poll"] = back \/ (pc'["poll"] = "in_cb" /\ Head(ret'["poll"]) = back)
           /\ called' = [called EXCEPT ![r] = called[r] + 1]
<1> USE DEF IInv
<1>1. ret["poll"] \in Seq(PCs) /\ back \in PCs
  BY DEF Types, PcType, Threads, PCs
<1>2. /\ <<back>> \o ret["poll"] \in Seq(PCs) /\ <<back>> \o ret["poll"] # << >>
      /\ Head(<<back>> \o ret["poll"]) = back /\ Tail(<<back>> \o ret["poll"]) = ret["poll"]
  BY <1>1, PushPop
<1>3. /\ back = "call" => OneLevel(ret["poll"])
      /\ back = "free" => ret["poll"] = << >>
  BY DEF StackInv, Nested
<1>4. /\ called' = [called EXCEPT ![r] = called[r] + 1]
      /\ answeredBy' = [answeredBy EXCEPT ![r] = answeredBy[r] \cup by]
  BY DEF Invoke
<1>5. GhostType'
  BY <1>4, SMTT(30) DEF Types, GhostType
<1>6. Goto("poll", back) \/ Enter("poll", "in_cb", back)
  BY DEF Invoke
<1>7. CASE Goto("poll", back)
  <2>1. pc' = [pc EXCEPT !["poll"] = back] /\ ret' = ret
    BY <1>7 DEF Goto
  <2>2. PcType' /\ pc'["poll"] = back /\ pc'["app"] = "idle"
    BY <2>1, <1>1 DEF Types, PcType, Threads, AppInv
  <2>3. StackInv'
    BY <2>1, <2>2, <1>3 DEF StackInv, Nested
  <2> QED
    BY <1>4, <1>5, <2>2, <2>3
<1>8. CASE Enter("poll", "in_cb", back)
  <2>1. /\ pc' = [pc EXCEPT !["poll"] = "in_cb"]
        /\ ret' = [ret EXCEPT !["poll"] = <<back>> \o ret["poll"]]
    BY <1>8 DEF Enter
  <2>2. /\ pc' \in [Threads -> PCs] /\ pc'["poll"] = "in_cb" /\ pc'["app"] = "idle"
    BY <2>1 DEF Types, PcType, Threads, AppInv, PCs
  <2>3. ret' \in [Threads -> Seq(PCs)] /\ ret'["poll"] = <<back>> \o ret["poll"]
    BY <2>1, <1>2 DEF Types, PcType, Threads
  <2>4. StackInv'
    BY <2>2, <2>3, <1>2, <1>3 DEF StackInv, Nested
  <2>5. PcType' /\ Head(ret'["poll"]) = back
    BY <2>2, <2>3, <1>2 DEF PcType
  <2> QED
    BY <1>4, <1>5, <2>2, <2>4, <2>5
<1> QED
  BY <1>6, <1>7, <1>8

\* The collected requests are no longer in a slot.
LEMMA Collected ==
    ASSUME IInv, NEW S \in SUBSET bitmap, Collect("poll", S), UNCHANGED <<stage, called, snap>>,
           pc["poll"] \in {"collect_all", "collect_due"}, pc'["poll"] = "call"
    PROVE  PoolType' /\ TodoType' /\ todo'["app"] = {} /\ OnceInv'
<1> USE DEF IInv
<1>1. /\ SlotInv /\ TodoInv /\ EarlyInv /\ AtMostOnce /\ AppInv
      /\ todo \in [Threads -> SUBSET Requests]
  BY DEF OnceInv, Types, TodoType
<1>2. Free(S) /\ UNCHANGED <<pool, seqno, nextSilent>> /\ bitmap' = bitmap \ S
  BY DEF Collect, Free
<1>3. {pool[i].req : i \in S} \subseteq Requests
  BY <1>1 DEF SlotInv
<1>4. todo' = [todo EXCEPT !["poll"] = todo["poll"] \cup {pool[i].req : i \in S}]
  BY DEF Collect
<1>5. /\ TodoType' /\ todo'["app"] = {}
      /\ todo'["poll"] = todo["poll"] \cup {pool[i].req : i \in S}
  BY <1>1, <1>3, <1>4 DEF TodoType, Threads, AppInv
<1>6. ~InReply /\ ~InReply' /\ ~InCalls /\ InCalls'
  BY DEF InReply, InCalls
<1>7. todo["poll"] = {}
  BY <1>1, <1>6 DEF TodoInv
<1>8. SlotInv'
  BY <1>1, <1>2, <1>6 DEF SlotInv
<1>9. TodoInv'
  BY <1>1, <1>2, <1>5, <1>6, <1>7, SMTT(30) DEF SlotInv, TodoInv
<1>10. EarlyInv' /\ AtMostOnce'
  BY <1>1 DEF EarlyInv, AtMostOnce
<1> QED
  BY <1>2, <1>5, <1>8, <1>9, <1>10, FreeType DEF OnceInv

\* The steps that take a slot's snapshot, call back and free keep IInv.
LEMMA CallbackInv ==
    ASSUME IInv,
           \/ InputSnapshot \/ InputReply \/ InputFree \/ CollectDue
           \/ \E t \in Threads : ThreadStep(t)
           \/ DisconnectIn \subseteq {"poller"} /\ \E t \in Threads : Disconnect(t)
    PROVE  IInv'
<1> USE DEF IInv
<1>0. /\ SlotInv /\ TodoInv /\ EarlyInv /\ AtMostOnce /\ AppInv
      /\ todo["poll"] \subseteq Requests
  BY DEF OnceInv, Types, TodoType, Threads
<1>1. CASE InputSnapshot
  <2>1. /\ UNCHANGED <<poolVars, link, wire, connected, evt, timer, stage, todo>>
        /\ UNCHANGED <<pingVars, countVars, ghostVars, bitmap, pool, called, rfds, batch>>
        /\ pc["poll"] = "snapshot" /\ hit' = NoSlot
    BY <1>1 DEF InputSnapshot, poolVars, linkVars, ghostVars
  <2>2. CASE hit \notin bitmap
    <3>1. frame' = NoFrame /\ snap' = snap /\ Goto("poll", "dispatch")
      BY <1>1, <2>2 DEF InputSnapshot
    <3>2. PcType' /\ StackInv' /\ pc'["poll"] = "dispatch" /\ pc'["app"] = "idle"
      BY <2>1, <3>1, MovedOn DEF Flat
    <3>3. PollType'
      BY <2>1, <3>1 DEF Types, PollType
    <3>4. Types'
      BY <2>1, <3>2, <3>3, SameTypes DEF Types
    <3>5. pc["poll"] \in Plain /\ pc'["poll"] \in Plain
      BY <2>1, <3>2 DEF Plain, Flat
    <3> QED
      BY <2>1, <3>2, <3>4, <3>5, QuietOnce DEF AppInv
  <2>3. CASE hit \in bitmap
    <3>1. /\ frame' = frame /\ snap' = [index |-> hit, req |-> pool[hit].req]
          /\ Goto("poll", "reply")
      BY <1>1, <2>3 DEF InputSnapshot
    <3>2. /\ pc' = [pc EXCEPT !["poll"] = "reply"] /\ ret' = ret
          /\ pc'["poll"] = "reply" /\ pc'["app"] = "idle"
      BY <3>1 DEF Goto, Types, PcType, Threads, AppInv
    <3>3. PcType'
      BY <3>2 DEF Types, PcType, PCs
    <3>4. StackInv'
      BY <2>1, <3>2 DEF StackInv, Nested
    <3>5. PollType'
      BY <2>1, <2>3, <3>1, <1>0 DEF Types, PollType, PoolType, SlotInv
    <3>6. Types'
      BY <2>1, <3>3, <3>5, SameTypes DEF Types
    <3>7. ~InReply /\ ~InReply' /\ ~InCalls
      BY <2>1, <3>2 DEF InReply, InCalls
    <3>8. SlotInv'
      BY <1>0, <2>1, <2>3, <3>1, <3>2, <3>7 DEF SlotInv
    <3>9. TodoInv' /\ EarlyInv' /\ AtMostOnce'
      BY <1>0, <2>1, <3>7 DEF TodoInv, EarlyInv, AtMostOnce
    <3> QED
      BY <2>1, <3>2, <3>4, <3>6, <3>8, <3>9 DEF AppInv, OnceInv
  <2> QED
    BY <2>2, <2>3
<1>2. CASE InputFree
  <2>1. /\ UNCHANGED <<pool, seqno, nextSilent, link, wire, connected, evt, timer, stage, todo>>
        /\ UNCHANGED <<pingVars, countVars, ghostVars, called, rfds, batch, hit>>
        /\ pc["poll"] = "free" /\ Free({snap.index}) /\ Goto("poll", "dispatch")
        /\ frame' = NoFrame /\ snap' = NoSnap
    BY <1>2 DEF InputFree, linkVars, ghostVars
  <2>2. /\ pc' = [pc EXCEPT !["poll"] = "dispatch"] /\ ret' = ret
        /\ pc'["poll"] = "dispatch" /\ pc'["app"] = "idle"
    BY <2>1 DEF Goto, Types, PcType, Threads, AppInv
  <2>3. PcType'
    BY <2>2 DEF Types, PcType, PCs
  <2>4. StackInv'
    BY <2>1, <2>2 DEF StackInv, Nested
  <2>5. PoolType' /\ PollType'
    BY <2>1, FreeType DEF Types, PollType, NoSnap
  <2>6. Types'
    BY <2>1, <2>3, <2>5, SameTypes DEF Types
  <2>7. bitmap' = bitmap \ {snap.index} /\ pc'["poll"] \in Plain
    BY <2>1, <2>2 DEF Free, Plain, Flat
  <2> QED
    BY <2>1, <2>2, <2>4, <2>6, <2>7, QuietOnce DEF AppInv
<1>3. CASE CollectDue
  <2>1. /\ UNCHANGED <<link, wire, connected, evt, timer, stage, called, snap>>
        /\ UNCHANGED <<pollVars, pingVars, countVars, ghostVars>>
        /\ pc["poll"] = "collect_due" /\ Enter("poll", "call", "idle")
        /\ \E S \in SUBSET bitmap : Collect("poll", S)
    BY <1>3 DEF CollectDue, linkVars, ghostVars, pollVars
  <2>2. PcType' /\ StackInv' /\ pc'["poll"] = "call" /\ pc'["app"] = "idle"
    BY <2>1, Entered DEF Flat, Nested, Level1
  <2>3. PoolType' /\ TodoType' /\ todo'["app"] = {} /\ OnceInv'
    BY <2>1, <2>2, Collected
  <2>4. Types'
    BY <2>1, <2>2, <2>3, SameTypes DEF Types
  <2> QED
    BY <2>2, <2>3, <2>4 DEF AppInv
<1>4. ASSUME NEW t \in Threads, CollectAll(t)
      PROVE  IInv'
  <2>1. t = "poll" /\ pc["poll"] = "collect_all"
    BY <1>4, <1>0 DEF CollectAll, AppInv, Threads
  <2>2. /\ UNCHANGED <<link, wire, connected, evt, timer, stage, called, snap>>
        /\ UNCHANGED <<pollVars, pingVars, countVars, ghostVars>>
        /\ Goto("poll", "call") /\ Collect("poll", bitmap)
    BY <1>4, <2>1 DEF CollectAll, linkVars, ghostVars, pollVars
  <2>3. /\ pc' = [pc EXCEPT !["poll"] = "call"] /\ ret' = ret
        /\ pc'["poll"] = "call" /\ pc'["app"] = "idle"
    BY <2>2 DEF Goto, Types, PcType, Threads, AppInv
  <2>4. PcType'
    BY <2>3 DEF Types, PcType, PCs
  <2>5. StackInv'
    BY <2>1, <2>3 DEF StackInv, Nested
  <2>6. PoolType' /\ TodoType' /\ todo'["app"] = {} /\ OnceInv'
    BY <2>1, <2>2, <2>3, Collected
  <2>7. Types'
    BY <2>2, <2>4, <2>6, SameTypes DEF Types
  <2> QED
    BY <2>3, <2>5, <2>6, <2>7 DEF AppInv
<1>5. ASSUME NEW t \in Threads, CallPendingDone(t)
      PROVE  IInv'
  <2>1. t = "poll" /\ pc["poll"] = "call" /\ todo["poll"] = {} /\ Return("poll")
    BY <1>5, <1>0 DEF CallPendingDone, AppInv, Threads
  <2>2. /\ UNCHANGED <<poolVars, link, wire, connected, evt, timer, stage, todo>>
        /\ UNCHANGED <<pollVars, pingVars, countVars, ghostVars, bitmap, pool, called, snap>>
    BY <1>5 DEF CallPendingDone, poolVars, linkVars, ghostVars, pollVars
  <2>3. OneLevel(ret["poll"])
    BY <2>1 DEF StackInv, Nested
  <2>4. /\ pc' = [pc EXCEPT !["poll"] = Head(ret["poll"])] /\ Head(ret["poll"]) \in Level1
        /\ ret' = [ret EXCEPT !["poll"] = << >>]
    BY <2>1, <2>3 DEF Return, OneLevel
  <2>5. PcType'
    <3>1. << >> \in Seq(PCs)
      BY SMT
    <3> QED
      BY <2>4, <3>1 DEF Types, PcType, Level1, PCs
  <2>6. pc'["poll"] \in Level1 /\ pc'["app"] = "idle" /\ ret'["poll"] = << >>
    BY <2>4 DEF Types, PcType, Threads, AppInv
  <2>7. StackInv'
    BY <2>6 DEF StackInv, Nested, Level1
  <2>8. Types'
    BY <2>2, <2>5, SameTypes DEF Types
  <2>9. ~InReply /\ ~InReply' /\ pc'["poll"] # "reply"
    BY <2>1, <2>6 DEF InReply, Level1
  <2>10. SlotInv'
    BY <1>0, <2>2, <2>9 DEF SlotInv
  <2>11. TodoInv' /\ EarlyInv' /\ AtMostOnce'
    BY <1>0, <2>1, <2>2 DEF TodoInv, EarlyInv, AtMostOnce
  <2> QED
    BY <2>2, <2>6, <2>7, <2>8, <2>10, <2>11 DEF AppInv, OnceInv
<1>6. ASSUME NEW t \in Threads, CallbackReturn(t)
      PROVE  IInv'
  <2>1. t = "poll" /\ pc["poll"] = "in_cb" /\ Return("poll")
    BY <1>6, <1>0 DEF CallbackReturn, AppInv, Threads
  <2>2. /\ UNCHANGED <<poolVars, link, wire, connected, evt, timer, stage, todo>>
        /\ UNCHANGED <<pollVars, pingVars, countVars, ghostVars, bitmap, pool, called, snap>>
    BY <1>6 DEF CallbackReturn, poolVars, linkVars, ghostVars, pollVars
  <2>3. /\ ret["poll"] # << >> /\ ret["poll"] \in Seq(PCs)
        /\ \/ Head(ret["poll"]) = "free" /\ Tail(ret["poll"]) = << >>
           \/ Head(ret["poll"]) = "call" /\ OneLevel(Tail(ret["poll"]))
    BY <2>1 DEF StackInv, Types, PcType, Threads
  <2>4. Tail(ret["poll"]) \in Seq(PCs)
    BY <2>3, SMTT(30)
  <2>5. /\ pc' = [pc EXCEPT !["poll"] = Head(ret["poll"])]
        /\ ret' = [ret EXCEPT !["poll"] = Tail(ret["poll"])]
    BY <2>1 DEF Return
  <2>6. /\ pc'["poll"] = Head(ret["poll"]) /\ pc'["app"] = "idle"
        /\ ret'["poll"] = Tail(ret["poll"])
    BY <2>5 DEF Types, PcType, Threads, AppInv
  <2>7. PcType'
    BY <2>3, <2>4, <2>5 DEF Types, PcType, PCs
  <2>8. StackInv'
    BY <2>3, <2>6 DEF StackInv, Nested
  <2>9. Types'
    BY <2>2, <2>7, SameTypes DEF Types
  <2>10. (InReply' <=> InReply) /\ (InCalls' <=> InCalls) /\ pc'["poll"] # "reply"
    BY <2>1, <2>3, <2>6 DEF InReply, InCalls
  <2>11. SlotInv'
    BY <1>0, <2>2, <2>10 DEF SlotInv
  <2>12. TodoInv' /\ EarlyInv' /\ AtMostOnce'
    BY <1>0, <2>2, <2>10 DEF TodoInv, EarlyInv, AtMostOnce
  <2> QED
    BY <2>2, <2>6, <2>8, <2>9, <2>11, <2>12 DEF AppInv, OnceInv
<1>7. ASSUME NEW t \in Threads, CallPending(t)
      PROVE  IInv'
  <2>1. t = "poll" /\ pc["poll"] = "call"
    BY <1>7, <1>0 DEF CallPending, AppInv, Threads
  <2>2. /\ UNCHANGED <<poolVars, link, wire, connected, evt, timer, stage>>
        /\ UNCHANGED <<pollVars, pingVars, countVars, bitmap, pool, snap>>
    BY <1>7 DEF CallPending, poolVars, linkVars, pollVars
  <2>3. PICK r \in todo["poll"] : /\ todo' = [todo EXCEPT !["poll"] = todo["poll"] \ {r}]
                                  /\ Invoke("poll", r, {}, "call")
    BY <1>7, <2>1 DEF CallPending
  <2>4. /\ r \in Requests /\ called[r] = 0 /\ stage[r] \in Registered
        /\ \A i \in bitmap : pool[i].req # r
    BY <1>0, <2>3 DEF TodoInv
  <2>5. /\ PcType' /\ GhostType' /\ StackInv' /\ pc'["app"] = "idle"
        /\ pc'["poll"] = "call" \/ (pc'["poll"] = "in_cb" /\ Head(ret'["poll"]) = "call")
        /\ called' = [called EXCEPT ![r] = called[r] + 1]
    BY <2>1, <2>3, <2>4, Invoked
  <2>6. TodoType' /\ todo'["app"] = {} /\ todo'["poll"] = todo["poll"] \ {r}
    BY <2>3, <1>0 DEF Types, TodoType, Threads, AppInv
  <2>7. Types'
    BY <2>2, <2>5, <2>6, SameTypes DEF Types
  <2>8. ~InReply /\ ~InReply' /\ InCalls' /\ pc'["poll"] # "reply"
    BY <2>1, <2>5 DEF InReply, InCalls
  <2>9. called'[r] = 1 /\ \A q \in Requests : q # r => called'[q] = called[q]
    BY <2>4, <2>5, SMTT(30) DEF Types, GhostType
  <2>10. SlotInv'
    BY <1>0, <2>2, <2>4, <2>8, <2>9 DEF SlotInv
  <2>11. TodoInv'
    BY <1>0, <2>2, <2>6, <2>8, <2>9 DEF TodoInv
  <2>12. EarlyInv' /\ AtMostOnce'
    BY <1>0, <2>2, <2>4, <2>9, SMTT(30) DEF EarlyInv, AtMostOnce
  <2> QED
    BY <2>5, <2>6, <2>7, <2>10, <2>11, <2>12 DEF AppInv, OnceInv
<1>8. CASE InputReply
  <2>1. /\ UNCHANGED <<poolVars, link, wire, connected, evt, timer, stage, todo>>
        /\ UNCHANGED <<pollVars, pingVars, countVars, bitmap, pool, snap>>
        /\ pc["poll"] = "reply"
    BY <1>8 DEF InputReply, poolVars, linkVars, pollVars
  <2>2. ~InReply /\ ~InCalls
    BY <2>1 DEF InReply, InCalls
  <2>3. /\ snap.index \in bitmap /\ pool[snap.index].req = snap.req /\ snap.req \in Requests
        /\ called[snap.req] = 0 /\ stage[snap.req] \in Registered
    BY <1>0, <2>1, <2>2 DEF SlotInv
  <2>4. CASE Matches(frame, snap.req)
    <3>1. PICK r \in Requests : r = snap.req
      BY <2>3
    <3>2. frame.req \in Requests
      BY <2>4, SMTT(30) DEF Matches, Types, PollType, Frames, NoFrame
    <3>3. Invoke("poll", r, {frame.req}, "free")
      BY <1>8, <2>4, <3>1 DEF InputReply
    <3>4. /\ PcType' /\ GhostType' /\ StackInv' /\ pc'["app"] = "idle"
          /\ pc'["poll"] = "free" \/ (pc'["poll"] = "in_cb" /\ Head(ret'["poll"]) = "free")
          /\ called' = [called EXCEPT ![r] = called[r] + 1]
      BY <2>1, <3>2, <3>3, Invoked
    <3>5. Types'
      BY <2>1, <3>4, SameTypes DEF Types
    <3>6. InReply' /\ pc'["poll"] # "reply"
      BY <3>4 DEF InReply
    <3>7. called'[r] = 1 /\ \A q \in Requests : q # r => called'[q] = called[q]
      BY <2>3, <3>1, <3>4, SMTT(30) DEF Types, GhostType
    <3>8. SlotInv'
      BY <1>0, <2>1, <2>2, <2>3, <3>1, <3>6, <3>7, SMTT(30) DEF SlotInv
    <3>9. TodoInv'
      BY <1>0, <2>1, <2>2 DEF TodoInv
    <3>10. EarlyInv' /\ AtMostOnce'
      BY <1>0, <2>1, <2>3, <3>1, <3>7, SMTT(30) DEF EarlyInv, AtMostOnce
    <3> QED
      BY <1>0, <2>1, <3>4, <3>5, <3>8, <3>9, <3>10 DEF AppInv, OnceInv
  <2>5. CASE ~Matches(frame, snap.req)
    <3>1. UNCHANGED <<ghostVars, called>> /\ Goto("poll", "free")
      BY <1>8, <2>5 DEF InputReply, ghostVars
    <3>2. /\ pc' = [pc EXCEPT !["poll"] = "free"] /\ ret' = ret
          /\ pc'["poll"] = "free" /\ pc'["app"] = "idle"
      BY <3>1 DEF Goto, Types, PcType, Threads, AppInv
    <3>3. PcType'
      BY <3>2 DEF Types, PcType, PCs
    <3>4. StackInv'
      BY <2>1, <3>2 DEF StackInv, Nested
    <3>5. Types'
      BY <2>1, <3>1, <3>3, SameTypes DEF Types
    <3>6. InReply' /\ pc'["poll"] # "reply"
      BY <3>2 DEF InReply
    <3>7. SlotInv'
      BY <1>0, <2>1, <2>2, <2>3, <3>1, <3>6 DEF SlotInv
    <3>8. TodoInv' /\ EarlyInv' /\ AtMostOnce'
      BY <1>0, <2>1, <2>2, <3>1 DEF TodoInv, EarlyInv, AtMostOnce
    <3> QED
      BY <1>0, <2>1, <3>2, <3>4, <3>5, <3>7, <3>8 DEF AppInv, OnceInv
  <2> QED
    BY <2>4, <2>5
<1>9. ASSUME NEW t \in Threads, DisconnectLocked(t)
      PROVE  IInv'
  <2>1. t = "poll" /\ pc["poll"] = "disconnect"
    BY <1>9, <1>0 DEF DisconnectLocked, AppInv, Threads
  <2>2. /\ UNCHANGED <<poolVars, evt, timer, stage, todo>>
        /\ UNCHANGED <<pollVars, pingVars, countVars, ghostVars, bitmap, pool, called>>
        /\ Goto("poll", "collect_all")
    BY <1>9, <2>1 DEF DisconnectLocked, poolVars, ghostVars
  <2>3. /\ pc' = [pc EXCEPT !["poll"] = "collect_all"] /\ ret' = ret
        /\ pc'["poll"] = "collect_all" /\ pc'["app"] = "idle"
    BY <2>2 DEF Goto, Types, PcType, Threads, AppInv
  <2>4. PcType'
    BY <2>3 DEF Types, PcType, PCs
  <2>5. StackInv'
    BY <2>1, <2>3 DEF StackInv, Nested
  <2>6. FlagType'
    BY <1>9, <2>2 DEF DisconnectLocked, Types, FlagType
  <2>7. LinkType'
    BY <1>9, <2>2 DEF DisconnectLocked, Types, LinkType
  <2>8. Types'
    BY <2>2, <2>4, <2>6, <2>7, SameTypes DEF Types
  <2>9. pc["poll"] \in Plain /\ pc'["poll"] \in Plain
    BY <2>1, <2>3 DEF Plain, Flat
  <2> QED
    BY <1>0, <2>2, <2>3, <2>5, <2>8, <2>9, QuietOnce DEF AppInv
<1>10. ASSUME NEW t \in Threads, Disconnect(t), DisconnectIn \subseteq {"poller"}
       PROVE  IInv'
  <2>1. t = "poll" /\ pc["poll"] = "idle"
    BY <1>10, <1>0 DEF Disconnect, MayDisconnect, AppInv, Threads
  <2>2. /\ UNCHANGED <<poolVars, link, wire, connected, evt, timer, stage, todo>>
        /\ UNCHANGED <<pollVars, pingVars, ghostVars, bitmap, pool, called>>
        /\ Enter("poll", "disconnect", "idle")
    BY <1>10, <2>1 DEF Disconnect, poolVars, linkVars, ghostVars
  <2>3. PcType' /\ StackInv' /\ pc'["poll"] = "disconnect" /\ pc'["app"] = "idle"
    BY <2>1, <2>2, Entered DEF Flat, Nested, Level1
  <2>4. CountType'
    BY <1>10, KindsAssumption, SMTT(30) DEF Disconnect, Types, CountType
  <2>5. Types'
    BY <2>2, <2>3, <2>4, SameTypes DEF Types
  <2>6. pc["poll"] \in Plain /\ pc'["poll"] \in Plain
    BY <2>1, <2>3 DEF Plain, Flat
  <2> QED
    BY <1>0, <2>2, <2>3, <2>5, <2>6, QuietOnce DEF AppInv
<1> QED
  BY <1>1, <1>2, <1>3, <1>4, <1>5, <1>6, <1>7, <1>8, <1>9, <1>10 DEF ThreadStep

\* Every step keeps the invariant when only the poll thread disconnects, and
\* only between two polls.
LEMMA StepInv ==
    ASSUME IInv, [Next]_vars, DisconnectIn \subseteq {"poller"}
    PROVE  IInv'
BY CallInv, PollInv, CallbackInv DEF Next, PollStep

\* The inductive invariant holds in every reachable state.
LEMMA Invariant ==
    ASSUME DisconnectIn \subseteq {"poller"}
    PROVE  Spec => []IInv
<1>1. IInv /\ [Next]_vars => IInv'
  BY StepInv
<1> QED
  BY InitInv, <1>1, PTL DEF Spec

\* Type correctness: no sequence number, slot index or program counter ever
\* leaves the range of the arrays in struct ssn_client.
THEOREM TypeCorrect ==
    ASSUME DisconnectIn \subseteq {"poller"}
    PROVE  Spec => []TypeOK
<1>1. IInv => TypeOK
  BY TypesAre DEF IInv
<1> QED
  BY Invariant, <1>1, PTL

\* No request's callback runs twice, whatever the interleaving of callers,
\* timer, answers, pings, lost connections and reconnects, and even when
\* sequence numbers wrap or collide with those of requests without a callback.
THEOREM CallbackAtMostOnce ==
    ASSUME DisconnectIn \subseteq {"poller"}
    PROVE  Spec => []AtMostOnce
<1>1. IInv => AtMostOnce
  BY DEF IInv, OnceInv
<1> QED
  BY Invariant, <1>1, PTL

-----------------------------------------------------------------------------
(* Whose answer is whose. *)

\* A call still to take a number.
Unspent == \E r \in Rpc \cup Ping : stage[r] \in {"new", "checked"}

\* The answers to remote calls that are on their way, or being dispatched.
Live == {f \in wire \cup batch \cup {frame} : f.type = "rpc"}

\* client->seqno is a number nobody waits for and no answer carries.
Fresh ==
    Unspent => (\A i \in bitmap : pool[i].seqno # seqno) /\ (\A f \in Live : f.seqno # seqno)

\* seqno_to_index and the slots in use are inverse to each other.
IndexInv ==
    /\ \A i \in bitmap : seqIndex[pool[i].seqno] = i
    /\ \A s \in SeqNos : seqIndex[s] # NoSlot =>
         seqIndex[s] \in bitmap /\ pool[seqIndex[s]].seqno = s

\* The only slot that waits for the number of an answer is that of its call.
FrameInv ==
    \A f \in Live : \A i \in bitmap : pool[i].seqno = f.seqno => pool[i].req = f.req

\* So it is once the slot is found, and once its snapshot is taken.
LookupInv ==
    /\ pc["poll"] = "snapshot" => hit \in bitmap /\ pool[hit].seqno = frame.seqno
    /\ pc["poll"] = "reply" /\ frame.type = "rpc" => snap.req = frame.req

\* A ping that has not returned is the one the poll thread is in, and its slot
\* carries the number ssn_client_ping remembers.
PingInv ==
    /\ \A r \in Ping : stage[r] \in {"checked", "accepted"} => pinging = r
    /\ \A i \in bitmap : pool[i].req \in Ping =>
         stage[pool[i].req] = "accepted" /\ pool[i].seqno = pingSeqno
    /\ \A r \in todo["poll"] : r \in Ping => stage[r] = "accepted"
    /\ \A r \in Ping : answeredBy[r] # {} => called[r] > 0

AnswerInv == IndexInv /\ FrameInv /\ LookupInv /\ PingInv /\ RightAnswer

\* The calls that took a number, or were refused one.
Spent == {r \in Rpc \cup Ping : stage[r] \notin {"new", "checked"}}

\* While calls are still to come, no more numbers are taken than calls made,
\* and every number in use is an earlier one.
CountInv ==
    Unspent =>
      /\ seqno <= Cardinality(Spent)
      /\ \A i \in bitmap : pool[i].seqno < seqno
      /\ \A f \in Live : f.seqno < seqno

\* A step that leaves the slots alone and sends no call keeps the two maps.
LEMMA SameSlots ==
    ASSUME IInv, AnswerInv, UNCHANGED <<bitmap, seqIndex>>, Live' \subseteq Live,
           \A i \in bitmap : pool'[i].seqno = pool[i].seqno /\ pool'[i].req = pool[i].req
    PROVE  IndexInv' /\ FrameInv'
<1>1. IndexInv'
  BY DEF AnswerInv, IndexInv
<1>2. FrameInv'
  BY ZenonT(30) DEF AnswerInv, FrameInv
<1> QED
  BY <1>1, <1>2

\* Freeing slots keeps them too: exactly the entries of those slots are cleared.
LEMMA FreedSlots ==
    ASSUME IInv, AnswerInv, NEW S \in SUBSET bitmap, Free(S), UNCHANGED pool, Live' \subseteq Live
    PROVE  IndexInv' /\ FrameInv'
<1>1. bitmap' = bitmap \ S /\ bitmap \subseteq Slots /\ IndexInv /\ FrameInv
  BY DEF Free, AnswerInv, IInv, Types, PoolType
<1>2. \A s \in SeqNos : seqIndex'[s] = IF seqIndex[s] \in S /\ pool[seqIndex[s]].seqno = s
                                        THEN NoSlot ELSE seqIndex[s]
  BY DEF Free, ClearIndex
<1>3. \A i \in bitmap : pool[i].seqno \in SeqNos
  BY DEF IInv, Types, PoolType
<1>4. IndexInv'
  BY <1>1, <1>2, <1>3, ZenonT(30) DEF IndexInv
<1>5. FrameInv'
  BY <1>1 DEF FrameInv
<1> QED
  BY <1>4, <1>5

\* A step that neither calls back nor touches a ping keeps what is said of both.
LEMMA SamePings ==
    ASSUME AnswerInv, bitmap' \subseteq bitmap, UNCHANGED <<pingVars, todo, ghostVars>>,
           \A i \in bitmap : pool'[i].seqno = pool[i].seqno /\ pool'[i].req = pool[i].req,
           \A r \in Ping : stage'[r] = stage[r]
    PROVE  PingInv' /\ RightAnswer'
<1>1. UNCHANGED <<pinging, pingSeqno, called, answeredBy>>
  BY DEF pingVars, ghostVars
<1> QED
  BY <1>1, SMTT(30) DEF AnswerInv, PingInv, RightAnswer

\* Away from the lookup, LookupInv says nothing.
LEMMA NoLookup ==
    ASSUME pc'["poll"] \notin {"snapshot", "reply"}
    PROVE  LookupInv'
BY DEF LookupInv

\* A caller's step keeps AnswerInv as long as the number it takes is fresh.
LEMMA CallAnswer ==
    ASSUME IInv, IInv', AnswerInv, Fresh,
           \/ UNCHANGED vars \/ TimerStep \/ PeerClose
           \/ \E r \in Requests : CallCheck(r) \/ RegisterStep(r)
           \/ \E r \in Ping : PingStep(r)
    PROVE  AnswerInv'
<1>0. IndexInv /\ FrameInv /\ LookupInv /\ PingInv /\ RightAnswer
  BY DEF AnswerInv
<1>a. bitmap \subseteq Slots
  BY DEF IInv, Types, PoolType
<1>1. CASE UNCHANGED vars \/ TimerSignal \/ PeerClose
  <2>1. /\ UNCHANGED <<bitmap, seqIndex, pool, wire, batch, frame, pc, hit, snap>>
        /\ UNCHANGED <<stage, pingVars, todo, ghostVars>>
    BY <1>1 DEF vars, TimerSignal, PeerClose, poolVars, linkVars, pollVars, ctlVars
  <2>2. Live' \subseteq Live
    BY <2>1 DEF Live
  <2>3. LookupInv'
    BY <1>0, <2>1 DEF LookupInv
  <2> QED
    BY <2>1, <2>2, <2>3, SameSlots, SamePings DEF AnswerInv
<1>2. CASE TimerRound
  <2>1. /\ UNCHANGED <<bitmap, seqIndex, wire, batch, frame, pc, hit, snap>>
        /\ UNCHANGED <<stage, pingVars, todo, ghostVars>>
    BY <1>2 DEF TimerRound, linkVars, pollVars, ctlVars
  <2>2. \A i \in bitmap : pool'[i].seqno = pool[i].seqno /\ pool'[i].req = pool[i].req
    BY <1>2, <1>a DEF TimerRound, IInv, Types, PoolType
  <2>3. Live' \subseteq Live
    BY <2>1 DEF Live
  <2>4. LookupInv'
    BY <1>0, <2>1, <2>2 DEF LookupInv
  <2> QED
    BY <2>1, <2>2, <2>3, <2>4, SameSlots, SamePings DEF AnswerInv
<1>3. ASSUME NEW r \in Requests, CallCheck(r) \/ RegisterFull(r)
      PROVE  AnswerInv'
  <2>1. /\ UNCHANGED <<bitmap, seqIndex, pool, wire, batch, frame, pc, hit, snap>>
        /\ UNCHANGED <<pingSeqno, todo, called, answeredBy>>
    BY <1>3 DEF CallCheck, RegisterFull, poolVars, linkVars, pollVars, ctlVars, ghostVars
  <2>2. Live' \subseteq Live
    BY <2>1 DEF Live
  <2>3. LookupInv'
    BY <1>0, <2>1 DEF LookupInv
  <2>4. /\ \A q \in Requests : q # r => stage'[q] = stage[q]
        /\ stage[r] \in {"new", "checked"} /\ stage'[r] \in {"checked", "refused"}
        /\ todo["poll"] \subseteq Requests /\ Ping \subseteq Requests
    BY <1>3 DEF CallCheck, RegisterFull, IInv, Types, StageType, TodoType, Threads, Requests
  <2>5. \A q \in Ping : stage'[q] \in {"checked", "accepted"} => pinging' = q
    <3>1. NoReq \notin Ping
      BY KindsAssumption DEF Requests
    <3>2. CASE CallCheck(r)
      BY <3>1, <3>2, <2>4, <1>0, SMTT(30) DEF CallCheck, PingInv, IInv, Types, StageType
    <3>3. CASE RegisterFull(r)
      BY <3>1, <3>3, <2>4, <1>0 DEF RegisterFull, PingInv, IInv, Types, StageType
    <3> QED
      BY <1>3, <3>2, <3>3
  <2>6. PingInv'
    BY <1>0, <2>1, <2>4, <2>5 DEF PingInv
  <2>7. RightAnswer'
    BY <1>0, <2>1 DEF RightAnswer
  <2> QED
    BY <2>1, <2>2, <2>3, <2>6, <2>7, SameSlots DEF AnswerInv
<1>4. ASSUME NEW r \in Requests, NEW i \in Slots, NEW sent \in BOOLEAN, NEW timeout \in Timeouts,
             Register(r, i, sent, timeout)
      PROVE  AnswerInv'
  <2>1. /\ UNCHANGED <<batch, frame, pc, hit, snap, todo, called, answeredBy>>
        /\ stage[r] = "checked" /\ i \notin bitmap /\ r \in Rpc \cup Ping
    BY <1>4 DEF Register, FirstFree, pollVars, ctlVars, ghostVars, Requests
  <2>2. /\ \A j \in bitmap : pool[j].seqno # seqno /\ pool[j].seqno \in SeqNos
        /\ \A f \in Live : f.seqno # seqno
        /\ seqno \in SeqNos
    BY <2>1, <1>a DEF Fresh, Unspent, IInv, Types, PoolType
  <2>3. /\ \A j \in bitmap : pool'[j] = pool[j]
        /\ pool'[i].seqno = seqno /\ pool'[i].req = r
    BY <1>4, <2>1, <1>a DEF Register, IInv, Types, PoolType
  <2>4. /\ \A q \in Requests : q # r => stage'[q] = stage[q]
        /\ todo["poll"] \subseteq Requests /\ Ping \subseteq Requests
        /\ r \notin todo["poll"] /\ \A j \in bitmap : pool[j].req \in Requests \ {r}
    BY <1>4, <2>1, ZenonT(30) DEF Register, IInv, Types, StageType, TodoType, Threads, Requests, OnceInv,
       SlotInv, TodoInv, Registered
  <2>5. \A q \in Ping : stage[q] = "accepted" => r \notin Ping
    BY <1>0, <2>1 DEF PingInv
  <2>6. LookupInv'
    <3>1. pc["poll"] = "snapshot" => hit \in bitmap'
      BY <1>0, <1>4 DEF LookupInv, Register
    <3> QED
      BY <1>0, <2>1, <2>3, <3>1 DEF LookupInv
  <2>7. RightAnswer'
    BY <1>0, <2>1 DEF RightAnswer
  <2>8. CASE sent
    <3>1. /\ bitmap' = bitmap \cup {i} /\ seqIndex' = [seqIndex EXCEPT ![seqno] = i]
          /\ wire' \subseteq wire \cup {[type |-> TypeOf(r), seqno |-> seqno, req |-> r]}
          /\ stage'[r] = "accepted" /\ pinging' = pinging
          /\ pingSeqno' = IF r \in Ping THEN seqno ELSE pingSeqno
      BY <1>4, <2>8 DEF Register, Sent, IInv, Types, StageType
    <3>2. /\ seqIndex'[seqno] = i
          /\ \A s \in SeqNos : s # seqno => seqIndex'[s] = seqIndex[s]
      BY <3>1, <2>2 DEF IInv, Types, PoolType
    <3>3. IndexInv'
      BY <1>0, <2>1, <2>2, <2>3, <3>1, <3>2, SMTT(30) DEF IndexInv
    <3>4. \A f \in Live' : f \in Live \/ (f.seqno = seqno /\ f.req = r)
      BY <2>1, <3>1, SMTT(30) DEF Live
    <3>5. FrameInv'
      BY <1>0, <2>2, <2>3, <3>1, <3>4, SMTT(30) DEF FrameInv
    <3>6. PingInv'
      <4>1. \A q \in Ping : stage'[q] \in {"checked", "accepted"} => pinging' = q
        BY <1>0, <2>1, <2>4, <3>1 DEF PingInv
      <4>2. \A j \in bitmap' : pool'[j].req \in Ping =>
              stage'[pool'[j].req] = "accepted" /\ pool'[j].seqno = pingSeqno'
        BY <1>0, <2>3, <2>4, <2>5, <3>1, SMTT(30) DEF PingInv
      <4>3. \A q \in todo'["poll"] : q \in Ping => stage'[q] = "accepted"
        BY <1>0, <2>1, <2>4 DEF PingInv
      <4>4. \A q \in Ping : answeredBy'[q] # {} => called'[q] > 0
        BY <1>0, <2>1 DEF PingInv
      <4> QED
        BY <4>1, <4>2, <4>3, <4>4 DEF PingInv
    <3> QED
      BY <2>6, <2>7, <3>3, <3>5, <3>6 DEF AnswerInv
  <2>9. CASE ~sent
    <3>1. /\ bitmap' = bitmap /\ seqIndex' = [seqIndex EXCEPT ![seqno] = NoSlot]
          /\ wire' = {} /\ stage'[r] = "refused" /\ pingSeqno' = pingSeqno
          /\ pinging' = IF pinging = r THEN NoReq ELSE pinging
      BY <1>4, <2>9 DEF Register, IInv, Types, StageType
    <3>2. /\ seqIndex'[seqno] = NoSlot
          /\ \A s \in SeqNos : s # seqno => seqIndex'[s] = seqIndex[s]
      BY <3>1, <2>2 DEF IInv, Types, PoolType
    <3>3. IndexInv'
      <4>1. \A j \in bitmap' : seqIndex'[pool'[j].seqno] = j
        BY <1>0, <2>2, <2>3, <3>1, <3>2, SMTT(30) DEF IndexInv
      <4>2. \A s \in SeqNos : seqIndex'[s] # NoSlot =>
              seqIndex'[s] \in bitmap' /\ pool'[seqIndex'[s]].seqno = s
        BY <1>0, <2>3, <3>1, <3>2, SMTT(30) DEF IndexInv
      <4> QED
        BY <4>1, <4>2 DEF IndexInv
    <3>4. Live' \subseteq Live
      BY <2>1, <3>1 DEF Live
    <3>5. FrameInv'
      BY <1>0, <2>3, <3>1, <3>4, ZenonT(30) DEF FrameInv
    <3>6. PingInv'
      BY <1>0, <2>1, <2>3, <2>4, <3>1, SMTT(30) DEF PingInv
    <3> QED
      BY <2>6, <2>7, <3>3, <3>5, <3>6 DEF AnswerInv
  <2> QED
    BY <2>8, <2>9
<1>5. ASSUME NEW r \in Requests, NEW sent \in BOOLEAN, RegisterSilent(r, sent)
      PROVE  AnswerInv'
  <2>1. /\ UNCHANGED <<bitmap, seqIndex, pool, batch, frame, pc, hit, snap>>
        /\ UNCHANGED <<pingVars, todo, ghostVars>> /\ r \in Silent
    BY <1>5 DEF RegisterSilent, pollVars, ctlVars
  <2>2. \A f \in wire' : f \in wire \/ f.type = "sub"
    BY <1>5, SMTT(30) DEF RegisterSilent, Sent
  <2>3. Live' \subseteq Live
    BY <2>1, <2>2 DEF Live
  <2>4. LookupInv'
    BY <1>0, <2>1 DEF LookupInv
  <2>5. \A q \in Ping : stage'[q] = stage[q]
    BY <1>5, <2>1, KindsAssumption, ZenonT(30) DEF RegisterSilent, IInv, Types, StageType, Requests
  <2> QED
    BY <2>1, <2>3, <2>4, <2>5, SameSlots, SamePings DEF AnswerInv
<1>6. ASSUME NEW r \in Ping, PingReplied(r)
      PROVE  AnswerInv'
  <2>1. /\ UNCHANGED <<bitmap, seqIndex, pool, wire, batch, frame, pc, hit, snap>>
        /\ UNCHANGED <<pingSeqno, todo, called, answeredBy>>
        /\ pinging = r /\ pc["poll"] = "idle" /\ answeredBy[r] # {}
    BY <1>6 DEF PingReplied, Replied, poolVars, linkVars, pollVars, ctlVars, ghostVars
  <2>2. Live' \subseteq Live
    BY <2>1 DEF Live
  <2>3. LookupInv'
    BY <1>0, <2>1 DEF LookupInv
  <2>4. /\ \A q \in Requests : q # r => stage'[q] = stage[q]
        /\ stage'[r] = "returned"
        /\ r \in Requests /\ Ping \subseteq Requests
    BY <1>6 DEF PingReplied, IInv, Types, StageType, Requests
  <2>5. todo["poll"] = {} /\ \A j \in bitmap : called[pool[j].req] = 0 /\ pool[j].req \in Requests
    BY <2>1 DEF IInv, OnceInv, SlotInv, TodoInv, InReply, InCalls
  <2>6. \A j \in bitmap : pool[j].req # r
    BY <1>0, <2>1, <2>5, SMTT(30) DEF PingInv
  <2>7. \A q \in Ping : q # r => stage[q] \notin {"checked", "accepted"}
    BY <1>0, <2>1 DEF PingInv
  <2>8. PingInv'
    BY <1>0, <2>1, <2>4, <2>5, <2>6, <2>7 DEF PingInv
  <2>9. RightAnswer'
    BY <1>0, <2>1 DEF RightAnswer
  <2> QED
    BY <2>1, <2>2, <2>3, <2>8, <2>9, SameSlots DEF AnswerInv
<1>7. ASSUME NEW r \in Ping, PingTimeout(r)
      PROVE  AnswerInv'
  <2> DEFINE i == seqIndex[pingSeqno]
  <2>1. /\ UNCHANGED <<pool, wire, batch, frame, pc, hit, snap>>
        /\ UNCHANGED <<pingSeqno, todo, called, answeredBy>>
        /\ pinging = r /\ pc["poll"] = "idle"
    BY <1>7 DEF PingTimeout, linkVars, pollVars, ctlVars, ghostVars
  <2>2. Live' \subseteq Live
    BY <2>1 DEF Live
  <2>3. LookupInv'
    BY <1>0, <2>1 DEF LookupInv
  <2>4. /\ \A q \in Requests : q # r => stage'[q] = stage[q]
        /\ stage'[r] = "returned"
        /\ r \in Requests /\ Ping \subseteq Requests
    BY <1>7 DEF PingTimeout, IInv, Types, StageType, Requests
  <2>5. todo["poll"] = {} /\ \A j \in bitmap : pool[j].req \in Requests
    BY <2>1 DEF IInv, OnceInv, SlotInv, TodoInv, InCalls
  <2>6. IF i # NoSlot /\ i \in bitmap THEN Free({i}) ELSE UNCHANGED <<bitmap, seqIndex>>
    BY <1>7 DEF PingTimeout
  <2>7. IndexInv' /\ FrameInv'
    <3>1. CASE i # NoSlot /\ i \in bitmap
      BY <2>1, <2>2, <2>6, <3>1, FreedSlots
    <3>2. CASE ~(i # NoSlot /\ i \in bitmap)
      BY <2>1, <2>2, <2>6, <3>2, SameSlots
    <3> QED
      BY <3>1, <3>2
  <2>8. bitmap' \subseteq bitmap /\ \A j \in bitmap' : pool[j].req # r
    <3>1. NoSlot \notin bitmap
      BY <1>a, KindsAssumption, SMTT(30) DEF Slots, NoSlot
    <3>2. \A j \in bitmap : pool[j].req = r => j = i
      BY <1>0 DEF PingInv, IndexInv
    <3>3. CASE i # NoSlot /\ i \in bitmap
      BY <2>6, <3>2, <3>3 DEF Free
    <3>4. CASE ~(i # NoSlot /\ i \in bitmap)
      BY <2>6, <3>1, <3>2, <3>4, SMTT(30)
    <3> QED
      BY <3>3, <3>4
  <2>9. \A q \in Ping : q # r => stage[q] \notin {"checked", "accepted"}
    BY <1>0, <2>1 DEF PingInv
  <2>10. PingInv'
    BY <1>0, <2>1, <2>4, <2>5, <2>8, <2>9 DEF PingInv
  <2>11. RightAnswer'
    BY <1>0, <2>1 DEF RightAnswer
  <2> QED
    BY <2>3, <2>7, <2>10, <2>11 DEF AnswerInv
<1> QED
  BY <1>1, <1>2, <1>3, <1>4, <1>5, <1>6, <1>7 DEF RegisterStep, PingStep, TimerStep

\* A step of the poll thread keeps AnswerInv.
LEMMA PollAnswer ==
    ASSUME IInv, IInv', AnswerInv,
           \/ PollStep \/ Connect
           \/ \E t \in Threads : ThreadStep(t) \/ Disconnect(t)
    PROVE  AnswerInv'
<1>0. /\ IndexInv /\ FrameInv /\ LookupInv /\ PingInv /\ RightAnswer
      /\ SlotInv /\ TodoInv /\ StackInv /\ AppInv /\ todo["poll"] \subseteq Requests
      /\ bitmap \subseteq Slots /\ pc \in [Threads -> PCs]
  BY DEF AnswerInv, IInv, OnceInv, Types, PoolType, TodoType, PcType, Threads
<1>1. CASE \/ PollSelect \/ PollNoSocket \/ PollRecv \/ PollEof \/ PollDestroy \/ InputDone
           \/ PollDrain \/ Connect \/ \E ok \in BOOLEAN : Handshake(ok)
  <2>1. /\ UNCHANGED <<bitmap, seqIndex, pool, stage, pingVars, todo, ghostVars>>
        /\ wire' \cup batch' \subseteq wire \cup batch /\ frame' = frame
    BY <1>1 DEF PollSelect, PollNoSocket, PollRecv, PollEof, PollDestroy, InputDone, PollDrain,
       Connect, Handshake, poolVars, linkVars, pollVars
  <2>2. Live' \subseteq Live
    BY <2>1 DEF Live
  <2>3. pc'["poll"] \notin {"snapshot", "reply"}
    BY <1>0, <1>1 DEF PollSelect, PollNoSocket, PollRecv, PollEof, PollDestroy, InputDone, PollDrain,
       Connect, Handshake, Goto, Enter, Threads
  <2> QED
    BY <2>1, <2>2, <2>3, SameSlots, SamePings, NoLookup DEF AnswerInv
<1>2. ASSUME NEW t \in Threads,
             CallPendingDone(t) \/ CallbackReturn(t) \/ DisconnectLocked(t) \/ Disconnect(t)
      PROVE  AnswerInv'
  <2>1. /\ UNCHANGED <<bitmap, seqIndex, pool, stage, pingVars, todo, ghostVars>>
        /\ UNCHANGED <<batch, frame, hit, snap>> /\ wire' \subseteq wire
    BY <1>2 DEF CallPendingDone, CallbackReturn, DisconnectLocked, Disconnect, poolVars, linkVars,
       pollVars
  <2>2. Live' \subseteq Live
    BY <2>1 DEF Live
  <2>3. LookupInv'
    <3>1. CASE t = "app"
      <4>1. pc'["poll"] = pc["poll"]
        BY <1>0, <1>2, <3>1 DEF CallPendingDone, CallbackReturn, DisconnectLocked, Disconnect,
           AppInv, Enter, Threads
      <4> QED
        BY <1>0, <2>1, <4>1 DEF LookupInv
    <3>2. CASE t = "poll"
      <4>1. CASE CallPendingDone(t)
        <5>1. pc["poll"] = "call" /\ pc'["poll"] = Head(ret["poll"])
          BY <1>0, <3>2, <4>1 DEF CallPendingDone, Return, Threads
        <5>2. pc'["poll"] \in Level1
          BY <1>0, <5>1 DEF StackInv, Nested, OneLevel
        <5> QED
          BY <5>2, NoLookup DEF Level1
      <4>2. CASE CallbackReturn(t)
        <5>1. pc["poll"] = "in_cb" /\ pc'["poll"] = Head(ret["poll"])
          BY <1>0, <3>2, <4>2 DEF CallbackReturn, Return, Threads
        <5>2. pc'["poll"] \in {"free", "call"}
          BY <1>0, <5>1 DEF StackInv
        <5> QED
          BY <5>2, NoLookup
      <4>3. CASE DisconnectLocked(t) \/ Disconnect(t)
        <5>1. pc'["poll"] \in {"collect_all", "disconnect"}
          BY <1>0, <3>2, <4>3 DEF DisconnectLocked, Disconnect, Goto, Enter, Threads
        <5> QED
          BY <5>1, NoLookup
      <4> QED
        BY <1>2, <4>1, <4>2, <4>3
    <3> QED
      BY <3>1, <3>2 DEF Threads
  <2> QED
    BY <2>1, <2>2, <2>3, SameSlots, SamePings DEF AnswerInv
<1>3. CASE InputLookup
  <2>1. UNCHANGED <<bitmap, seqIndex, pool, stage, pingVars, todo, ghostVars, wire>>
    BY <1>3 DEF InputLookup, poolVars, linkVars
  <2>2. PICK f \in batch :
          /\ batch' = batch \ {f} /\ hit' = seqIndex[f.seqno]
          /\ \/ frame' = frame /\ Goto("poll", "dispatch")
             \/ hit' # NoSlot /\ frame' = f /\ Goto("poll", "snapshot")
    BY <1>3 DEF InputLookup
  <2>3. Live' \subseteq Live
    BY <2>1, <2>2 DEF Live
  <2>4. f.seqno \in SeqNos
    BY DEF IInv, Types, PollType, Frames
  <2>5. LookupInv'
    <3>1. CASE Goto("poll", "dispatch")
      <4>1. pc'["poll"] = "dispatch"
        BY <1>0, <3>1 DEF Goto, Threads
      <4> QED
        BY <4>1, NoLookup
    <3>2. CASE hit' # NoSlot /\ frame' = f /\ Goto("poll", "snapshot")
      <4>1. pc'["poll"] = "snapshot"
        BY <1>0, <3>2 DEF Goto, Threads
      <4>2. hit' \in bitmap /\ pool[hit'].seqno = f.seqno
        BY <1>0, <2>2, <2>4, <3>2 DEF IndexInv
      <4> QED
        BY <2>1, <3>2, <4>1, <4>2 DEF LookupInv
    <3> QED
      BY <2>2, <3>1, <3>2
  <2> QED
    BY <2>1, <2>3, <2>5, SameSlots, SamePings DEF AnswerInv
<1>4. CASE InputSnapshot
  <2>1. UNCHANGED <<bitmap, seqIndex, pool, stage, pingVars, todo, ghostVars, wire, batch>>
    BY <1>4 DEF InputSnapshot, poolVars, linkVars
  <2>2. /\ pc["poll"] = "snapshot" /\ hit \in bitmap /\ pool[hit].seqno = frame.seqno
    BY <1>0, <1>4 DEF InputSnapshot, LookupInv
  <2>3. frame' = frame /\ snap' = [index |-> hit, req |-> pool[hit].req] /\ Goto("poll", "reply")
    BY <1>4, <2>2 DEF InputSnapshot
  <2>4. Live' \subseteq Live
    BY <2>1, <2>3 DEF Live
  <2>5. pc'["poll"] = "reply"
    BY <1>0, <2>3 DEF Goto, Threads
  <2>6. frame.type = "rpc" => pool[hit].req = frame.req
    BY <1>0, <2>2 DEF FrameInv, Live
  <2>7. LookupInv'
    BY <2>3, <2>5, <2>6 DEF LookupInv
  <2> QED
    BY <2>1, <2>4, <2>7, SameSlots, SamePings DEF AnswerInv
<1>5. CASE InputReply
  <2>1. /\ UNCHANGED <<bitmap, seqIndex, pool, stage, pinging, pingSeqno, todo, wire, batch, frame>>
        /\ pc["poll"] = "reply"
    BY <1>5 DEF InputReply, poolVars, linkVars, pollVars, pingVars
  <2>2. Live' \subseteq Live
    BY <2>1 DEF Live
  <2>3. pc'["poll"] \notin {"snapshot", "reply"}
    BY <1>0, <1>5 DEF InputReply, Invoke, Goto, Enter, Threads
  <2>4. snap.req \in Requests
    BY <1>0, <2>1 DEF SlotInv
  <2>5. CASE Matches(frame, snap.req)
    <3>1. PICK r \in Requests : r = snap.req
      BY <2>4
    <3>2. /\ called' = [called EXCEPT ![r] = called[r] + 1]
          /\ answeredBy' = [answeredBy EXCEPT ![r] = answeredBy[r] \cup {frame.req}]
      BY <1>5, <2>5, <3>1 DEF InputReply, Invoke
    <3>3. /\ \A q \in Requests : q # r => called'[q] = called[q] /\ answeredBy'[q] = answeredBy[q]
          /\ called'[r] > 0 /\ answeredBy'[r] = answeredBy[r] \cup {frame.req}
      BY <3>2, SMTT(30) DEF IInv, Types, GhostType
    <3>4. r \in Rpc => frame.req = r
      BY <1>0, <2>1, <2>5, <3>1, KindsAssumption DEF LookupInv, Matches
    <3>5. RightAnswer'
      BY <1>0, <3>3, <3>4 DEF RightAnswer, Requests
    <3>6. PingInv'
      BY <1>0, <2>1, <3>3 DEF PingInv, Requests
    <3> QED
      BY <2>1, <2>2, <2>3, <3>5, <3>6, SameSlots, NoLookup DEF AnswerInv
  <2>6. CASE ~Matches(frame, snap.req)
    <3>1. UNCHANGED ghostVars
      BY <1>5, <2>6 DEF InputReply
    <3> QED
      BY <2>1, <2>2, <2>3, <3>1, SameSlots, SamePings, NoLookup DEF AnswerInv, pingVars
  <2> QED
    BY <2>5, <2>6
<1>6. ASSUME NEW t \in Threads, CallPending(t)
      PROVE  AnswerInv'
  <2>1. t = "poll" /\ pc["poll"] = "call"
    BY <1>6, <1>0 DEF CallPending, AppInv, Threads
  <2>2. UNCHANGED <<bitmap, seqIndex, pool, stage, pinging, pingSeqno, wire, batch, frame>>
    BY <1>6 DEF CallPending, poolVars, linkVars, pollVars, pingVars
  <2>3. Live' \subseteq Live
    BY <2>2 DEF Live
  <2>4. PICK r \in todo["poll"] : /\ todo' = [todo EXCEPT !["poll"] = todo["poll"] \ {r}]
                                  /\ Invoke("poll", r, {}, "call")
    BY <1>6, <2>1 DEF CallPending
  <2>5. pc'["poll"] \in {"call", "in_cb"}
    BY <1>0, <2>4 DEF Invoke, Goto, Enter, Threads
  <2>6. todo'["poll"] \subseteq todo["poll"]
    BY <2>4 DEF IInv, Types, TodoType, Threads
  <2>7. \A q \in Requests : /\ called'[q] >= called[q] /\ answeredBy'[q] = answeredBy[q]
                            /\ called[q] \in Nat /\ called'[q] \in Nat
    BY <2>4, SMTT(30) DEF Invoke, IInv, Types, GhostType
  <2>8. RightAnswer'
    BY <1>0, <2>7 DEF RightAnswer, Requests
  <2>9. PingInv'
    <3>1. \A q \in Ping : answeredBy'[q] # {} => called'[q] > 0
      <4>1. ASSUME NEW q \in Ping, answeredBy'[q] # {} PROVE called'[q] > 0
        <5>1. called[q] > 0 /\ called'[q] >= called[q] /\ called[q] \in Nat /\ called'[q] \in Nat
          BY <1>0, <2>7, <4>1 DEF PingInv, Requests
        <5> QED
          BY <5>1, SMTT(30)
      <4> QED
        BY <4>1
    <3> QED
      BY <1>0, <2>2, <2>6, <3>1 DEF PingInv
  <2> QED
    BY <2>2, <2>3, <2>5, <2>8, <2>9, SameSlots, NoLookup DEF AnswerInv
<1>7. CASE InputFree
  <2>1. /\ UNCHANGED <<pool, stage, pingVars, todo, ghostVars, wire, batch>>
        /\ Free({snap.index}) /\ frame' = NoFrame
    BY <1>7 DEF InputFree, linkVars
  <2>2. Live' \subseteq Live
    BY <2>1, SMTT(30) DEF Live, NoFrame
  <2>3. pc'["poll"] = "dispatch" /\ snap.index \in bitmap
    BY <1>0, <1>7 DEF InputFree, Goto, Threads, SlotInv, InReply
  <2>4. IndexInv' /\ FrameInv'
    BY <2>1, <2>2, <2>3, FreedSlots
  <2>5. bitmap' \subseteq bitmap
    BY <2>1 DEF Free
  <2> QED
    BY <2>1, <2>3, <2>4, <2>5, SamePings, NoLookup DEF AnswerInv
<1>8. ASSUME NEW S \in SUBSET bitmap, Collect("poll", S), pc["poll"] \in {"collect_due", "collect_all"},
             pc'["poll"] = "call", UNCHANGED <<stage, pingVars, ghostVars, linkVars, pollVars>>
      PROVE  AnswerInv'
  <2>1. /\ Free(S) /\ pool' = pool /\ bitmap' = bitmap \ S
        /\ UNCHANGED <<wire, batch, frame, pinging, pingSeqno, called, answeredBy>>
    BY <1>8 DEF Collect, Free, linkVars, pollVars, pingVars, ghostVars
  <2>2. Live' \subseteq Live
    BY <2>1 DEF Live
  <2>3. IndexInv' /\ FrameInv'
    BY <2>1, <2>2, FreedSlots
  <2>4. todo'["poll"] = todo["poll"] \cup {pool[i].req : i \in S}
    BY <1>8 DEF Collect, IInv, Types, TodoType, Threads
  <2>5. \A r \in todo'["poll"] : r \in Ping => stage[r] = "accepted"
    BY <1>0, <2>4, SMTT(30) DEF PingInv
  <2>6. PingInv'
    BY <1>0, <1>8, <2>1, <2>5 DEF PingInv
  <2>7. RightAnswer'
    BY <1>0, <2>1 DEF RightAnswer
  <2> QED
    BY <1>8, <2>3, <2>6, <2>7, NoLookup DEF AnswerInv
<1>9. ASSUME NEW t \in Threads, CollectAll(t)
      PROVE  AnswerInv'
  <2>1. t = "poll"
    BY <1>9, <1>0 DEF CollectAll, AppInv, Threads
  <2>2. /\ Collect("poll", bitmap) /\ pc["poll"] = "collect_all" /\ pc'["poll"] = "call"
        /\ UNCHANGED <<stage, pingVars, ghostVars, linkVars, pollVars>>
    BY <1>9, <2>1, <1>0 DEF CollectAll, Goto, Threads
  <2> QED
    BY <2>2, <1>8
<1>10. CASE CollectDue
  <2>1. /\ pc["poll"] = "collect_due" /\ pc'["poll"] = "call"
        /\ UNCHANGED <<stage, pingVars, ghostVars, linkVars, pollVars>>
        /\ \E S \in SUBSET bitmap : Collect("poll", S)
    BY <1>10, <1>0 DEF CollectDue, Enter, Threads
  <2> QED
    BY <2>1, <1>8
<1> QED
  BY <1>1, <1>2, <1>3, <1>4, <1>5, <1>6, <1>7, <1>9, <1>10 DEF PollStep, ThreadStep

\* As long as numbers are fresh when they are taken, AnswerInv holds.
LEMMA AnswersInvariant ==
    ASSUME DisconnectIn \subseteq {"poller"}
    PROVE  Spec /\ []Fresh => []AnswerInv
<1>1. Init => AnswerInv
  <2> SUFFICES ASSUME Init PROVE AnswerInv
    OBVIOUS
  <2>1. IndexInv /\ FrameInv
    BY DEF Init, IndexInv, FrameInv
  <2>2. LookupInv
    BY DEF Init, LookupInv, Threads
  <2>3. PingInv /\ RightAnswer
    BY DEF Init, PingInv, RightAnswer, Requests, Threads
  <2> QED
    BY <2>1, <2>2, <2>3 DEF AnswerInv
<1>2. IInv /\ IInv' /\ AnswerInv /\ Fresh /\ [Next]_vars => AnswerInv'
  BY CallAnswer, PollAnswer DEF Next
<1> QED
  BY <1>1, <1>2, Invariant, PTL DEF Spec

\* A callback is given the answer to its own call, whenever the uint16_t seqno
\* has not come round to a number that is still waited for or still answered.
THEOREM AnswersAreOwn ==
    ASSUME DisconnectIn \subseteq {"poller"}
    PROVE  Spec /\ []Fresh => []RightAnswer
<1>1. AnswerInv => RightAnswer
  BY DEF AnswerInv
<1> QED
  BY AnswersInvariant, <1>1, PTL

\* Under the same condition ping_reply_cb, which writes to the stack frame of
\* ssn_client_ping, does not run once ssn_client_ping has returned.
THEOREM PingsAreStackSafe ==
    ASSUME DisconnectIn \subseteq {"poller"}
    PROVE  Spec /\ []Fresh => PingStackSafe
<1> DEFINE Safe == \A r \in Ping : stage[r] = "returned" => called'[r] = called[r]
<1>1. IInv /\ AnswerInv /\ [Next]_vars =>
        [\A r \in Ping : stage[r] = "returned" => called'[r] = called[r]]_vars
  <2> SUFFICES ASSUME IInv, AnswerInv, Next
               PROVE  Safe
    OBVIOUS
  <2>0. /\ SlotInv /\ TodoInv /\ AppInv /\ PingInv /\ Ping \subseteq Requests
        /\ called \in [Requests -> Nat]
    BY DEF IInv, OnceInv, AnswerInv, Requests, Types, GhostType
  <2>1. CASE called' = called
    BY <2>1
  <2>2. ASSUME NEW t \in Threads, CallPending(t) PROVE Safe
    <3>1. PICK r \in todo["poll"] : Invoke("poll", r, {}, "call")
      BY <2>0, <2>2 DEF CallPending, AppInv, Threads
    <3>2. r \in Ping => stage[r] = "accepted"
      BY <2>0, <3>1 DEF PingInv
    <3> QED
      BY <2>0, <3>1, <3>2 DEF Invoke
  <2>3. ASSUME InputReply PROVE Safe
    <3>1. snap.req \in Ping => stage[snap.req] = "accepted"
      BY <2>0, <2>3 DEF InputReply, SlotInv, PingInv
    <3>2. called' = called \/ called' = [called EXCEPT ![snap.req] = called[snap.req] + 1]
      BY <2>3 DEF InputReply, Invoke, ghostVars
    <3> QED
      BY <2>0, <3>1, <3>2
  <2> QED
    BY <2>1, <2>2, <2>3, ZenonT(30) DEF Next, ThreadStep, PollStep, TimerStep, RegisterStep, PingStep, CallCheck,
       RegisterFull, Register, RegisterSilent, PingReplied, PingTimeout, TimerRound, TimerSignal,
       PeerClose, CollectAll, CallPendingDone, CallbackReturn, DisconnectLocked, Disconnect, PollSelect,
       PollNoSocket, PollRecv, PollEof, PollDestroy, InputLookup, InputDone, InputSnapshot, InputFree,
       PollDrain, CollectDue, Handshake, Connect, ghostVars
<1> QED
  BY <1>1, Invariant, AnswersInvariant, PTL DEF Spec, PingStackSafe

-----------------------------------------------------------------------------
(* Numbers that cannot come round: fewer calls than numbers. *)

\* The set of spent calls only grows.
LEMMA MoreSpent ==
    ASSUME IInv, IsFiniteSet(Rpc \cup Ping), Spent \subseteq Spent'
    PROVE  Cardinality(Spent) \in Nat /\ Cardinality(Spent') \in Nat
           /\ Cardinality(Spent) <= Cardinality(Spent')
<1>1. Spent' \subseteq Rpc \cup Ping
  BY DEF Spent
<1>2. IsFiniteSet(Spent')
  BY <1>1, FS_Subset
<1> QED
  BY <1>2, FS_Subset, FS_CardinalityType

\* Steps that take no number keep CountInv.
LEMMA QuietCount ==
    ASSUME IInv, CountInv, IsFiniteSet(Rpc \cup Ping), seqno' = seqno, bitmap' \subseteq bitmap,
           \A i \in bitmap : pool'[i].seqno = pool[i].seqno, Live' \subseteq Live,
           Spent \subseteq Spent', Unspent' => Unspent
    PROVE  CountInv'
<1> SUFFICES ASSUME Unspent' PROVE CountInv'
  BY DEF CountInv
<1>1. /\ seqno <= Cardinality(Spent)
      /\ \A i \in bitmap : pool[i].seqno < seqno
      /\ \A f \in Live : f.seqno < seqno
      /\ seqno \in Nat
  BY KindsAssumption, SMTT(30) DEF CountInv, IInv, Types, PoolType, SeqNos
<1>2. seqno' <= Cardinality(Spent')
  BY <1>1, MoreSpent, SMTT(30)
<1>3. (\A i \in bitmap' : pool'[i].seqno < seqno') /\ (\A f \in Live' : f.seqno < seqno')
  BY <1>1
<1> QED
  BY <1>2, <1>3 DEF CountInv

\* Every step keeps CountInv when there are no more calls than numbers.
LEMMA CountStep ==
    ASSUME IInv, CountInv, [Next]_vars,
           IsFiniteSet(Rpc \cup Ping), Cardinality(Rpc \cup Ping) <= SeqMod
    PROVE  CountInv'
<1>0. /\ stage \in [Requests -> {"new", "checked", "refused", "accepted", "returned"}]
      /\ Rpc \cup Ping \subseteq Requests
  BY DEF IInv, Types, StageType, Requests
<1>1. ASSUME UNCHANGED <<seqno, pool, stage>>, bitmap' \subseteq bitmap,
             wire' \cup batch' \subseteq wire \cup batch,
             frame' = frame \/ frame' = NoFrame \/ frame' \in batch
      PROVE  CountInv'
  <2>1. Live' \subseteq Live
    BY <1>1, SMTT(30) DEF Live, NoFrame
  <2>2. Spent' = Spent /\ (Unspent' <=> Unspent)
    BY <1>1 DEF Spent, Unspent
  <2> QED
    BY <1>1, <2>1, <2>2, QuietCount
<1>2. CASE UNCHANGED vars \/ TimerSignal \/ PeerClose
  BY <1>1, <1>2 DEF vars, TimerSignal, PeerClose, poolVars, linkVars, pollVars
<1>3. CASE \/ PollSelect \/ PollNoSocket \/ PollRecv \/ PollEof \/ PollDestroy \/ InputDone
           \/ PollDrain \/ Connect \/ \E ok \in BOOLEAN : Handshake(ok)
  BY <1>1, <1>3 DEF PollSelect, PollNoSocket, PollRecv, PollEof, PollDestroy, InputDone, PollDrain,
     Connect, Handshake, poolVars, linkVars, pollVars
<1>4. CASE InputLookup \/ InputSnapshot \/ InputReply \/ InputFree \/ CollectDue
  BY <1>1, <1>4 DEF InputLookup, InputSnapshot, InputReply, InputFree, CollectDue, Collect, Free,
     poolVars, linkVars, pollVars
<1>5. ASSUME NEW t \in Threads, ThreadStep(t) \/ Disconnect(t) PROVE CountInv'
  BY <1>1, <1>5 DEF ThreadStep, CollectAll, CallPending, CallPendingDone, CallbackReturn,
     DisconnectLocked, Disconnect, Collect, Free, poolVars, linkVars, pollVars
<1>6. CASE TimerRound
  <2>1. UNCHANGED <<seqno, bitmap, stage, wire, batch, frame>>
    BY <1>6 DEF TimerRound, linkVars, pollVars
  <2>2. \A i \in bitmap : pool'[i].seqno = pool[i].seqno
    BY <1>6 DEF TimerRound, IInv, Types, PoolType
  <2>3. Live' = Live /\ Spent' = Spent /\ (Unspent' <=> Unspent)
    BY <2>1 DEF Live, Spent, Unspent
  <2> QED
    BY <2>1, <2>2, <2>3, QuietCount
<1>7. ASSUME NEW r \in Requests, CallCheck(r) \/ RegisterFull(r) PROVE CountInv'
  <2>1. UNCHANGED <<seqno, pool, bitmap, wire, batch, frame>>
    BY <1>7 DEF CallCheck, RegisterFull, poolVars, linkVars, pollVars
  <2>2. Spent \subseteq Spent' /\ (Unspent' => Unspent)
    BY <1>0, <1>7 DEF CallCheck, RegisterFull, Spent, Unspent
  <2>3. Live' = Live
    BY <2>1 DEF Live
  <2> QED
    BY <2>1, <2>2, <2>3, QuietCount
<1>8. ASSUME NEW r \in Requests, NEW sent \in BOOLEAN, RegisterSilent(r, sent) PROVE CountInv'
  <2>1. UNCHANGED <<seqno, pool, bitmap, batch, frame>>
    BY <1>8 DEF RegisterSilent, pollVars
  <2>2. Spent \subseteq Spent' /\ (Unspent' => Unspent)
    BY <1>0, <1>8 DEF RegisterSilent, Spent, Unspent
  <2>3. \A f \in wire' : f \in wire \/ f.type = "sub"
    BY <1>8, SMTT(30) DEF RegisterSilent, Sent
  <2>4. Live' \subseteq Live
    BY <2>1, <2>3 DEF Live
  <2> QED
    BY <2>1, <2>2, <2>4, QuietCount
<1>9. ASSUME NEW r \in Ping, PingStep(r) PROVE CountInv'
  <2>1. UNCHANGED <<seqno, pool, wire, batch, frame>> /\ bitmap' \subseteq bitmap
    BY <1>9 DEF PingStep, PingReplied, PingTimeout, Free, poolVars, linkVars, pollVars
  <2>2. Spent \subseteq Spent' /\ (Unspent' => Unspent)
    BY <1>0, <1>9 DEF PingStep, PingReplied, PingTimeout, Spent, Unspent
  <2>3. Live' = Live
    BY <2>1 DEF Live
  <2> QED
    BY <2>1, <2>2, <2>3, QuietCount
<1>10. ASSUME NEW r \in Requests, NEW i \in Slots, NEW sent \in BOOLEAN, NEW timeout \in Timeouts,
              Register(r, i, sent, timeout)
       PROVE  CountInv'
  <2> SUFFICES ASSUME Unspent' PROVE CountInv'
    BY DEF CountInv
  <2>1. /\ UNCHANGED <<batch, frame>> /\ seqno' = NextSeqno(seqno) /\ i \notin bitmap
        /\ stage[r] = "checked" /\ r \in Rpc \cup Ping
        /\ bitmap' \subseteq bitmap \cup {i}
        /\ wire' \subseteq wire \cup {[type |-> TypeOf(r), seqno |-> seqno, req |-> r]}
    BY <1>10 DEF Register, FirstFree, Sent, pollVars, Requests
  <2>2. /\ stage'[r] \in {"accepted", "refused"}
        /\ \A q \in Requests : q # r => stage'[q] = stage[q]
    BY <1>0, <1>10 DEF Register
  <2>3. Unspent /\ r \notin Spent /\ Spent' = Spent \cup {r}
    BY <1>0, <2>1, <2>2 DEF Unspent, Spent
  <2>4. /\ seqno <= Cardinality(Spent) /\ seqno \in Nat
        /\ \A j \in bitmap : pool[j].seqno < seqno
        /\ \A f \in Live : f.seqno < seqno
    BY <2>3, KindsAssumption, SMTT(30) DEF CountInv, IInv, Types, PoolType, SeqNos
  <2>5. /\ IsFiniteSet(Spent) /\ Cardinality(Spent) \in Nat
        /\ Cardinality(Spent') = Cardinality(Spent) + 1
    <3>1. Spent \subseteq Rpc \cup Ping
      BY DEF Spent
    <3>2. IsFiniteSet(Spent)
      BY <3>1, FS_Subset
    <3>3. Cardinality(Spent \cup {r}) = Cardinality(Spent) + 1
      BY <2>3, <3>2, FS_AddElement
    <3> QED
      BY <2>3, <3>2, <3>3, FS_CardinalityType
  <2>6. Cardinality(Spent') < SeqMod
    <3>1. Spent' \subseteq Rpc \cup Ping /\ Spent' # Rpc \cup Ping
      BY DEF Spent, Unspent
    <3>2. Cardinality(Spent') <= Cardinality(Rpc \cup Ping) /\ Cardinality(Spent') # Cardinality(Rpc \cup Ping)
      BY <3>1, FS_Subset
    <3>3. Cardinality(Rpc \cup Ping) \in Nat
      BY FS_CardinalityType
    <3> QED
      BY <2>5, <3>2, <3>3, KindsAssumption, SMTT(30)
  <2>7. seqno' = seqno + 1 /\ seqno' <= Cardinality(Spent')
    BY <2>1, <2>4, <2>5, <2>6, KindsAssumption, SMTT(30) DEF NextSeqno
  <2>8. \A j \in bitmap' : pool'[j].seqno < seqno'
    <3>1. pool'[i].seqno = seqno /\ \A j \in bitmap : pool'[j].seqno = pool[j].seqno /\ pool[j].seqno \in Nat
      BY <1>10, <2>1, KindsAssumption, SMTT(30) DEF Register, IInv, Types, PoolType, SeqNos
    <3> QED
      BY <2>1, <2>4, <2>7, <3>1, SMTT(30)
  <2>9. \A f \in Live' : f.seqno < seqno'
    <3>1. \A f \in Live' : f \in Live \/ f.seqno = seqno
      BY <2>1, SMTT(30) DEF Live
    <3>2. \A f \in Live : f.seqno \in Nat
      BY KindsAssumption, SMTT(30) DEF Live, Frames, NoFrame, SeqNos, IInv, Types, LinkType, PollType
    <3> QED
      BY <2>4, <2>7, <3>1, <3>2, SMTT(30)
  <2> QED
    BY <2>7, <2>8, <2>9 DEF CountInv
<1> QED
  BY <1>2, <1>3, <1>4, <1>5, <1>6, <1>7, <1>8, <1>9, <1>10 DEF Next, PollStep, TimerStep, RegisterStep

\* With no more remote calls and pings than sequence numbers, every number is
\* fresh when it is taken.
LEMMA NumbersAreFresh ==
    ASSUME DisconnectIn \subseteq {"poller"},
           IsFiniteSet(Rpc \cup Ping), Cardinality(Rpc \cup Ping) <= SeqMod
    PROVE  Spec => []Fresh
<1>1. Init => CountInv
  <2> SUFFICES ASSUME Init PROVE CountInv
    OBVIOUS
  <2>1. seqno = 0 /\ bitmap = {} /\ Live = {}
    BY SMTT(30) DEF Init, Live, NoFrame
  <2>2. IsFiniteSet(Spent)
    BY FS_Subset DEF Spent
  <2> QED
    BY <2>1, <2>2, FS_CardinalityType, SMTT(30) DEF CountInv
<1>2. IInv /\ CountInv /\ [Next]_vars => CountInv'
  BY CountStep
<1>3. IInv /\ CountInv => Fresh
  <2> SUFFICES ASSUME IInv, CountInv, Unspent
               PROVE  (\A i \in bitmap : pool[i].seqno # seqno) /\ (\A f \in Live : f.seqno # seqno)
    BY DEF Fresh
  <2>1. seqno \in Nat
    BY KindsAssumption, SMTT(30) DEF IInv, Types, PoolType, SeqNos
  <2> QED
    BY <2>1, SMTT(30) DEF CountInv
<1> QED
  BY <1>1, <1>2, <1>3, Invariant, PTL DEF Spec

\* So with at most SeqMod remote calls and pings (65536 in the code), callbacks
\* get their own answers and ping_reply_cb never runs late, with no assumption
\* on the numbers left.
THEOREM OwnAnswersWithoutWrap ==
    ASSUME DisconnectIn \subseteq {"poller"},
           IsFiniteSet(Rpc \cup Ping), Cardinality(Rpc \cup Ping) <= SeqMod
    PROVE  Spec => []RightAnswer /\ PingStackSafe
<1>1. Spec => []Fresh
  BY NumbersAreFresh
<1>2. Spec /\ []Fresh => []RightAnswer
  BY AnswersAreOwn
<1>3. Spec /\ []Fresh => PingStackSafe
  BY PingsAreStackSafe
<1> QED
  BY <1>1, <1>2, <1>3, PTL

-----------------------------------------------------------------------------
(* The promise to the caller. *)

\* A call refused, accepted or called back is that step of the promise.
LEMMA PromiseSteps ==
    ASSUME NEW r \in Rpc,
           \A q \in Rpc : q # r => stage'[q] = stage[q] /\ called'[q] = called[q]
    PROVE  /\ /\ stage[r] \in {"new", "checked"} /\ stage'[r] = "refused" /\ called'[r] = called[r]
              => Promise!Refuse(r)
           /\ /\ stage[r] \in {"new", "checked"} /\ stage'[r] = "accepted" /\ called'[r] = called[r]
              /\ called[r] = 0
              => Promise!Accept(r)
           /\ /\ stage[r] \in Registered /\ stage'[r] = stage[r] /\ called[r] = 0 /\ called'[r] = 1
              => Promise!Complete(r)
<1>1. \A q \in Rpc : q # r => OutcomeOf(q)' = OutcomeOf(q)
  BY DEF OutcomeOf
<1>2. ASSUME stage[r] \in {"new", "checked"}, stage'[r] = "refused", called'[r] = called[r]
      PROVE  Promise!Refuse(r)
  <2>1. OutcomeOf(r) = "open" /\ OutcomeOf(r)' = "refused"
    BY <1>2 DEF OutcomeOf
  <2> QED
    BY <1>1, <1>2, <2>1 DEF Promise!Refuse
<1>3. ASSUME stage[r] \in {"new", "checked"}, stage'[r] = "accepted", called'[r] = called[r],
             called[r] = 0
      PROVE  Promise!Accept(r)
  <2>1. OutcomeOf(r) = "open" /\ OutcomeOf(r)' = "pending"
    BY <1>3 DEF OutcomeOf
  <2> QED
    BY <1>1, <1>3, <2>1 DEF Promise!Accept
<1>4. ASSUME stage[r] \in Registered, stage'[r] = stage[r], called[r] = 0, called'[r] = 1
      PROVE  Promise!Complete(r)
  <2>1. OutcomeOf(r) = "pending" /\ OutcomeOf(r)' = "done"
    BY <1>4, SMTT(30) DEF OutcomeOf, Registered
  <2>2. called'[r] = called[r] + 1
    BY <1>4, SMTT(30)
  <2> QED
    BY <1>1, <2>1, <2>2 DEF Promise!Complete
<1> QED
  BY <1>2, <1>3, <1>4

\* Any other step leaves the promise where it is.
LEMMA PromiseStutters ==
    ASSUME \A q \in Rpc : called'[q] = called[q],
           \A q \in Rpc : \/ stage'[q] = stage[q]
                          \/ stage[q] \in {"new", "checked"} /\ stage'[q] \in {"new", "checked"}
    PROVE  UNCHANGED Promise!promiseVars
<1>1. \A q \in Rpc : OutcomeOf(q)' = OutcomeOf(q)
  BY DEF OutcomeOf
<1> QED
  BY <1>1 DEF Promise!promiseVars

\* Every step is a step of the promise or leaves it alone.
LEMMA PromiseStep ==
    ASSUME IInv, [Next]_vars
    PROVE  [Promise!PromiseNext]_(Promise!promiseVars)
<1>0. /\ SlotInv /\ TodoInv /\ EarlyInv /\ AppInv /\ Rpc \subseteq Requests
      /\ todo["poll"] \subseteq Requests
      /\ called \in [Requests -> Nat]
      /\ stage \in [Requests -> {"new", "checked", "refused", "accepted", "returned"}]
  BY DEF IInv, OnceInv, Requests, Types, GhostType, StageType, TodoType, Threads
<1>1. ASSUME NEW r \in Requests, CallCheck(r) \/ RegisterFull(r)
      PROVE  [Promise!PromiseNext]_(Promise!promiseVars)
  <2>1. called' = called /\ \A q \in Requests : q # r => stage'[q] = stage[q]
    BY <1>0, <1>1 DEF CallCheck, RegisterFull, ghostVars
  <2>2. stage[r] \in {"new", "checked"} /\ stage'[r] \in {"checked", "refused"}
    BY <1>0, <1>1 DEF CallCheck, RegisterFull
  <2>3. CASE r \in Rpc /\ stage'[r] = "refused"
    <3>1. Promise!Refuse(r)
      BY <1>0, <2>1, <2>2, <2>3, PromiseSteps
    <3> QED
      BY <2>3, <3>1 DEF Promise!PromiseNext
  <2>4. CASE r \notin Rpc \/ stage'[r] = "checked"
    BY <1>0, <2>1, <2>2, <2>4, PromiseStutters
  <2> QED
    BY <2>2, <2>3, <2>4
<1>2. ASSUME NEW r \in Requests, NEW i \in Slots, NEW sent \in BOOLEAN, NEW timeout \in Timeouts,
             Register(r, i, sent, timeout)
      PROVE  [Promise!PromiseNext]_(Promise!promiseVars)
  <2>1. called' = called /\ \A q \in Requests : q # r => stage'[q] = stage[q]
    BY <1>0, <1>2 DEF Register, ghostVars
  <2>2. stage[r] = "checked" /\ stage'[r] \in {"accepted", "refused"}
    BY <1>0, <1>2 DEF Register
  <2>3. called[r] = 0
    BY <1>0, <2>2 DEF EarlyInv, Registered
  <2>4. CASE r \in Rpc
    <3>1. Promise!Refuse(r) \/ Promise!Accept(r)
      BY <1>0, <2>1, <2>2, <2>3, <2>4, PromiseSteps
    <3> QED
      BY <2>4, <3>1 DEF Promise!PromiseNext
  <2>5. CASE r \notin Rpc
    BY <1>0, <2>1, <2>5, PromiseStutters
  <2> QED
    BY <2>4, <2>5
<1>3. ASSUME NEW r \in Requests, NEW sent \in BOOLEAN, RegisterSilent(r, sent)
      PROVE  [Promise!PromiseNext]_(Promise!promiseVars)
  <2>1. called' = called /\ \A q \in Rpc : stage'[q] = stage[q]
    BY <1>0, <1>3, KindsAssumption DEF RegisterSilent, ghostVars
  <2> QED
    BY <2>1, PromiseStutters
<1>4. ASSUME NEW r \in Ping, PingStep(r)
      PROVE  [Promise!PromiseNext]_(Promise!promiseVars)
  <2>1. called' = called /\ \A q \in Rpc : stage'[q] = stage[q]
    BY <1>0, <1>4, KindsAssumption DEF PingStep, PingReplied, PingTimeout, ghostVars
  <2> QED
    BY <2>1, PromiseStutters
<1>5. ASSUME NEW r \in Requests, called[r] = 0, stage[r] \in Registered, stage' = stage,
             called' = [called EXCEPT ![r] = called[r] + 1]
      PROVE  [Promise!PromiseNext]_(Promise!promiseVars)
  <2>1. called'[r] = 1 /\ \A q \in Requests : q # r => called'[q] = called[q]
    BY <1>0, <1>5, SMTT(30)
  <2>2. CASE r \in Rpc
    <3>1. Promise!Complete(r)
      BY <1>0, <1>5, <2>1, <2>2, PromiseSteps
    <3> QED
      BY <2>2, <3>1 DEF Promise!PromiseNext
  <2>3. CASE r \notin Rpc
    BY <1>0, <1>5, <2>1, <2>3, PromiseStutters
  <2> QED
    BY <2>2, <2>3
<1>6. ASSUME NEW t \in Threads, CallPending(t)
      PROVE  [Promise!PromiseNext]_(Promise!promiseVars)
  <2>1. stage' = stage /\ \E r \in todo["poll"] : Invoke("poll", r, {}, "call")
    BY <1>0, <1>6 DEF CallPending, AppInv, Threads
  <2>2. PICK r \in todo["poll"] : called' = [called EXCEPT ![r] = called[r] + 1]
    BY <2>1 DEF Invoke
  <2>3. r \in Requests /\ called[r] = 0 /\ stage[r] \in Registered
    BY <1>0, <2>2 DEF TodoInv
  <2> QED
    BY <1>5, <2>1, <2>2, <2>3
<1>7. CASE InputReply
  <2>1. /\ snap.req \in Requests /\ called[snap.req] = 0 /\ stage[snap.req] \in Registered
        /\ stage' = stage
    BY <1>0, <1>7 DEF InputReply, SlotInv, InReply
  <2>2. called' = called \/ called' = [called EXCEPT ![snap.req] = called[snap.req] + 1]
    BY <1>7 DEF InputReply, Invoke, ghostVars
  <2>3. CASE called' = called
    BY <2>1, <2>3, PromiseStutters
  <2>4. CASE called' = [called EXCEPT ![snap.req] = called[snap.req] + 1]
    BY <1>5, <2>1, <2>4
  <2> QED
    BY <2>2, <2>3, <2>4
<1>8. CASE called' = called /\ stage' = stage
  BY <1>8, PromiseStutters
<1> QED
  BY <1>1, <1>2, <1>3, <1>4, <1>6, <1>7, <1>8
  DEF Next, ThreadStep, PollStep, TimerStep, RegisterStep, TimerRound, TimerSignal, PeerClose,
      CollectAll, CallPendingDone, CallbackReturn, DisconnectLocked, Disconnect, PollSelect,
      PollNoSocket, PollRecv, PollEof, PollDestroy, InputLookup, InputDone, InputSnapshot, InputFree,
      PollDrain, CollectDue, Handshake, Connect, ghostVars, vars

\* The client keeps the promise of ssn_client_call: a refused call is never
\* called back, and an accepted one at most once and not before it is
\* registered.  Every behaviour of the table implements RequestPromise.
THEOREM PromiseKept ==
    ASSUME DisconnectIn \subseteq {"poller"}
    PROVE  Spec => KeepsPromise
<1>1. Init => Promise!PromiseInit
  <2> SUFFICES ASSUME Init PROVE Promise!PromiseInit
    OBVIOUS
  <2>1. \A r \in Rpc : OutcomeOf(r) = "open" /\ called[r] = 0
    BY DEF Init, OutcomeOf, Requests
  <2> QED
    BY <2>1 DEF Promise!PromiseInit
<1>2. IInv /\ [Next]_vars => [Promise!PromiseNext]_(Promise!promiseVars)
  BY PromiseStep
<1> QED
  BY <1>1, <1>2, Invariant, PTL DEF Spec, KeepsPromise, Promise!PromiseSpec

=============================================================================
