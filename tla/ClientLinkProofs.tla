-------------------------- MODULE ClientLinkProofs --------------------------
(***************************************************************************)
(* For any number of threads and transport objects: a client is not freed  *)
(* under a call that holds a reference, and every transport object is the  *)
(* client's, or that of one connect in progress, or free.                  *)
(*                                                                         *)
(* LifeInv says who holds the references that are counted.  A call has one *)
(* from ssn_client_ref to ssn_client_unref.  The one of ssn_client_create  *)
(* is nobody's until ssn_client_close, which gives it back as its own;     *)
(* ssn_client_run that closes the client gives back two.                   *)
(***************************************************************************)
EXTENDS ClientLink, FiniteSetTheorems, TLAPS

\* Most leaves are first-order reasoning about functions, sets and records, which
\* Zenon does well; a leaf that needs arithmetic or sequences names SMT.
USE Zenon

\* Where a thread is at work with one reference, and where it has one at all.
Work == {"c_clear", "c_destroy", "c_new", "c_handshake", "s_send", "d_lock", "t_lock",
         "p_fds", "p_fd", "p_select", "p_recv", "p_clear", "p_lost", "p_destroy", "unref"}
Inside == Work \cup {"unlist", "run_unref"}
Pcs == Inside \cup {"idle", "ref", "free"}

Holders == {t \in Threads : pc[t] \in Inside}

\* The reference of ssn_client_create is nobody's yet, or ssn_client_run is
\* about to give it back.
Created ==
    \/ valid
    \/ pc[Poller] = "run_unref"
    \/ pc[Poller] = "unlist" /\ op[Poller] = "run"
Extra == IF Created THEN 1 ELSE 0

LifeTypes ==
    /\ pc \in [Threads -> Pcs]
    /\ op \in [Threads -> Ops \cup {"none", "close", "poll", "run"}]
    /\ refs \in Nat /\ valid \in BOOLEAN /\ listed \in BOOLEAN
    /\ \A t \in App : op[t] # "run" /\ pc[t] # "run_unref"

LifeCount ==
    /\ refs = Cardinality(Holders) + Extra
    /\ \A t \in Threads : pc[t] \in {"unlist", "run_unref"} => ~valid
    /\ listed => valid \/ \E t \in Threads : pc[t] = "unlist"
    /\ freed => refs = 0
    /\ \A t \in Threads : pc[t] = "free" =>
            refs = 0 /\ ~freed /\ \A u \in Threads : pc[u] = "free" => u = t

LifeInv == LifeTypes /\ (crash = "none" => LifeCount)

LinkInv ==
    /\ pc \in [Threads -> Pcs]
    /\ transport \in Transports \cup {Null}
    /\ sock \in [Transports -> {"free", "open", "eof", "closed"}]
    /\ local \in [App -> Transports \cup {Null}]
    /\ transport # Null => sock[transport] # "free"
    /\ \A t \in App : local[t] # Null <=> pc[t] = "c_handshake"
    /\ NewTransportOwned
    /\ NoTransportLeak

-----------------------------------------------------------------------------
(* Counting references. *)

\* The holders are finitely many, and counted.
LEMMA HoldersFinite == IsFiniteSet(Holders) /\ Cardinality(Holders) \in Nat
<1>1. IsFiniteSet(App \cup {Poller})
  BY ThreadsAssumption, FS_AddElement
<1> QED
  BY <1>1, FS_Subset, FS_CardinalityType DEF Holders, Threads

\* A thread that enters, a thread that leaves, and the others.
LEMMA HoldersChange ==
  ASSUME LifeTypes, NEW t \in Threads, NEW p \in Pcs, pc' = [pc EXCEPT ![t] = p]
  PROVE  /\ pc' \in [Threads -> Pcs]
         /\ pc[t] \in Inside /\ p \in Inside => Cardinality(Holders') = Cardinality(Holders)
         /\ pc[t] \notin Inside /\ p \notin Inside => Cardinality(Holders') = Cardinality(Holders)
         /\ pc[t] \notin Inside /\ p \in Inside => Cardinality(Holders') = Cardinality(Holders) + 1
         /\ pc[t] \in Inside /\ p \notin Inside => Cardinality(Holders') = Cardinality(Holders) - 1
<1>1. pc' \in [Threads -> Pcs]
  BY DEF LifeTypes
<1>2. \A u \in Threads : pc'[u] = IF u = t THEN p ELSE pc[u]
  BY DEF LifeTypes
<1>3. ASSUME pc[t] \in Inside <=> p \in Inside PROVE Holders' = Holders
  BY <1>2, <1>3 DEF Holders
<1>4. ASSUME pc[t] \notin Inside, p \in Inside
      PROVE  Holders' = Holders \cup {t} /\ t \notin Holders
  BY <1>2, <1>4 DEF Holders
<1>5. ASSUME pc[t] \in Inside, p \notin Inside
      PROVE  Holders' = Holders \ {t} /\ t \in Holders
  BY <1>2, <1>5 DEF Holders
<1>6. ASSUME pc[t] \notin Inside, p \in Inside
      PROVE  Cardinality(Holders') = Cardinality(Holders) + 1
  BY <1>4, <1>6, HoldersFinite, FS_AddElement
<1>7. ASSUME pc[t] \in Inside, p \notin Inside
      PROVE  Cardinality(Holders') = Cardinality(Holders) - 1
  BY <1>5, <1>7, HoldersFinite, FS_RemoveElement
<1> QED
  BY <1>1, <1>3, <1>6, <1>7

\* A holder has a reference that is not the one of ssn_client_create.
LEMMA HolderCounts ==
  ASSUME LifeTypes, LifeCount, NEW t \in Threads, pc[t] \in Inside
  PROVE  refs >= 1 + Extra /\ Cardinality(Holders) >= 1
<1>1. Holders # {}
  BY DEF Holders
<1>2. Cardinality(Holders) # 0
  BY <1>1, HoldersFinite, FS_EmptySet
<1> QED
  BY <1>2, HoldersFinite, SMTT(30) DEF LifeCount, Extra

\* A thread that goes on at its work, whatever that is, changes no reference.
LEMMA WorkStep ==
  ASSUME LifeInv, NEW t \in Threads, NEW p \in Work, crash = "none",
         pc[t] \in Work, pc' = [pc EXCEPT ![t] = p], UNCHANGED <<lifeVars, op>>
  PROVE  LifeInv'
<1> USE DEF LifeInv, lifeVars
<1>0. Work \subseteq Inside /\ Inside \subseteq Pcs
  BY DEF Inside, Pcs
<1>1. pc' \in [Threads -> Pcs] /\ Cardinality(Holders') = Cardinality(Holders)
  BY <1>0, HoldersChange
<1>2. \A u \in Threads : pc'[u] = IF u = t THEN p ELSE pc[u]
  BY DEF LifeTypes
<1>3. \A u \in Threads : \A q \in {"unlist", "run_unref", "free"} : pc'[u] = q <=> pc[u] = q
  BY <1>2 DEF Work
<1>4. LifeTypes'
  BY <1>1, <1>3 DEF LifeTypes, Threads
<1>5. Extra' = Extra
  BY <1>3 DEF Extra, Created, Threads
<1>6. LifeCount'
  BY <1>1, <1>3, <1>5 DEF LifeCount
<1> QED
  BY <1>4, <1>6

\* What the calls do between taking and giving back their reference.
LEMMA WorkSteps ==
  ASSUME LifeInv,
         \/ \E t \in App : AppStep(t)
         \/ PollStep /\ ~(PollLost /\ op[Poller] = "run" /\ valid)
  PROVE  LifeInv'
<1> USE DEF At, Goto, lifeVars, linkVars
<1>1. ASSUME NEW t \in App, AppStep(t) PROVE LifeInv'
  <2>1. t \in Threads
    BY DEF Threads
  <2>2. \E p \in Work : /\ crash = "none" /\ pc[t] \in Work /\ pc' = [pc EXCEPT ![t] = p]
                        /\ UNCHANGED <<lifeVars, op>>
    BY <1>1 DEF AppStep, Work, ConnectClear, ConnectDestroy, ConnectNew, ConnectFail,
                ConnectPublish, Send, DisconnectLocked, SendTimeout
  <2> QED
    BY <2>1, <2>2, WorkStep
<1>2. ASSUME PollStep, ~(PollLost /\ op[Poller] = "run" /\ valid) PROVE LifeInv'
  <2>1. Poller \in Threads
    BY DEF Threads
  <2>2. \E p \in Work : /\ crash = "none" /\ pc[Poller] \in Work
                        /\ pc' = [pc EXCEPT ![Poller] = p]
                        /\ UNCHANGED <<lifeVars, op>>
    <3>1. CASE PollLost
      BY <3>1, <1>2 DEF PollLost, Work, LifeInv, LifeTypes
    <3>2. CASE PollFds \/ PollFd \/ PollTimeout \/ PollReady
      BY <3>2 DEF PollFds, PollFd, PollTimeout, PollReady, Again, Work
    <3>3. CASE PollRecv \/ PollClear \/ PollDestroy
      BY <3>3 DEF PollRecv, PollClear, PollDestroy, Again, Work
    <3> QED
      BY <1>2, <3>1, <3>2, <3>3 DEF PollStep
  <2> QED
    BY <2>1, <2>2, WorkStep
<1> QED
  BY <1>1, <1>2

\* The tests at the beginning of a call, and ssn_client_ref.  A call that comes
\* when the last reference is gone crashes and is left out by crash = "none".
LEMMA EnterSteps ==
  ASSUME LifeInv, NEW t \in Threads,
         \/ \E o \in (Ops \ {"close"}) \cup {"poll", "run"} : Begin(t, o) /\ (t # Poller => o # "run")
         \/ Ref(t)
  PROVE  LifeInv'
<1> USE DEF LifeInv, At, Goto, lifeVars
<1>0. crash = "none" /\ LifeTypes /\ LifeCount
  BY DEF Begin, Ref
<1>1. ASSUME NEW o \in (Ops \ {"close"}) \cup {"poll", "run"}, Begin(t, o), t # Poller => o # "run"
      PROVE  LifeInv'
  <2>1. /\ pc[t] = "idle" /\ pc' = [pc EXCEPT ![t] = "ref"] /\ op' = [op EXCEPT ![t] = o]
        /\ UNCHANGED <<lifeVars, crash>>
    BY <1>1 DEF Begin
  <2>2. pc' \in [Threads -> Pcs] /\ Cardinality(Holders') = Cardinality(Holders)
    BY <1>0, <2>1, HoldersChange DEF Pcs, Inside, Work
  <2>3. /\ \A u \in Threads : pc'[u] = IF u = t THEN "ref" ELSE pc[u]
        /\ \A u \in Threads : op'[u] = IF u = t THEN o ELSE op[u]
    BY <1>0, <2>1 DEF LifeTypes
  <2>4. LifeTypes'
    BY <1>0, <1>1, <2>1, <2>2, <2>3, ThreadsAssumption DEF LifeTypes, Threads
  <2>5. Extra' = Extra
    BY <2>1, <2>3, SMTT(30) DEF Extra, Created, Threads
  <2>6. \A u \in Threads : \A q \in {"unlist", "run_unref", "free"} : pc'[u] = q <=> pc[u] = q
    BY <2>1, <2>3, SMTT(30)
  <2>7. LifeCount'
    BY <1>0, <2>1, <2>2, <2>5, <2>6 DEF LifeCount
  <2> QED
    BY <2>4, <2>7
<1>2. ASSUME Ref(t) PROVE LifeInv'
  <2>1. PICK p \in Work : pc' = [pc EXCEPT ![t] = p]
    BY <1>2 DEF Ref, FirstStep, Work
  <2>2. pc[t] = "ref" /\ UNCHANGED <<op, valid, listed, freed>>
    BY <1>2 DEF Ref
  <2>3. p \in Inside /\ p \in Pcs /\ pc[t] \notin Inside
    BY <2>2 DEF Pcs, Inside, Work
  <2>4. pc' \in [Threads -> Pcs] /\ Cardinality(Holders') = Cardinality(Holders) + 1
    BY <1>0, <2>1, <2>3, HoldersChange
  <2>5. \A u \in Threads : pc'[u] = IF u = t THEN p ELSE pc[u]
    BY <1>0, <2>1 DEF LifeTypes
  <2>6. \A u \in Threads : \A q \in {"unlist", "run_unref", "free"} : pc'[u] = q <=> pc[u] = q
    BY <2>2, <2>5 DEF Work
  <2>7. LifeTypes'
    BY <1>0, <1>2, <2>2, <2>4, <2>6, SMTT(30) DEF LifeTypes, Threads, Ref
  <2>8. Extra' = Extra
    BY <2>2, <2>6 DEF Extra, Created, Threads
  <2>9. ASSUME refs # 0 PROVE LifeCount'
    <3>1. refs' = refs + 1
      BY <1>2, <2>9 DEF Ref
    <3>2. refs' = Cardinality(Holders') + Extra'
      BY <1>0, <3>1, <2>4, <2>8, HoldersFinite, SMTT(30) DEF LifeCount, Extra
    <3>3. ~freed /\ \A u \in Threads : pc[u] # "free"
      BY <1>0, <2>9 DEF LifeCount
    <3> QED
      BY <1>0, <2>2, <2>6, <3>2, <3>3 DEF LifeCount
  <2>10. refs = 0 => crash' = "freed"
    BY <1>2 DEF Ref
  <2> QED
    BY <2>7, <2>9, <2>10
<1> QED
  BY <1>1, <1>2

\* ssn_client_unref: the thread that finds the last reference to a closed client
\* goes on to free it, and there is no other.
LEMMA UnrefStep ==
  ASSUME LifeInv, NEW t \in Threads, Unref(t)
  PROVE  LifeInv'
<1> USE DEF LifeInv
<1>0. /\ crash = "none" /\ LifeTypes /\ LifeCount
      /\ pc[t] \in {"unref", "run_unref"} /\ refs' = refs - 1
      /\ UNCHANGED <<valid, listed, freed, crash, op>>
  BY DEF Unref, At
<1>1. pc[t] \in Inside /\ refs >= 1 + Extra /\ Extra \in {0, 1}
  BY <1>0, HolderCounts DEF Inside, Work, Extra
<1>2. ~freed /\ \A u \in Threads : pc[u] # "free"
  BY <1>0, <1>1, SMTT(30) DEF LifeCount
<1>3. t \in App => pc[t] = "unref"
  BY <1>0 DEF LifeTypes
<1>4. CASE pc[t] = "run_unref"
  <2>1. t = Poller /\ Extra = 1 /\ ~LastRef
    BY <1>0, <1>1, <1>3, <1>4, SMTT(30) DEF Threads, Extra, Created, LastRef
  <2>2. pc' = [pc EXCEPT ![t] = "unref"]
    BY <1>4, <2>1 DEF Unref, Goto
  <2>3. pc' \in [Threads -> Pcs] /\ Cardinality(Holders') = Cardinality(Holders)
    BY <1>0, <1>1, <2>2, HoldersChange DEF Pcs, Inside, Work
  <2>4. \A u \in Threads : pc'[u] = IF u = t THEN "unref" ELSE pc[u]
    BY <1>0, <2>2 DEF LifeTypes
  <2>5. Extra' = 0
    BY <1>0, <1>4, <2>1, <2>4 DEF Extra, Created, LifeCount
  <2>6. refs' \in Nat /\ refs' = Cardinality(Holders') + Extra'
    BY <1>0, <1>1, <2>1, <2>3, <2>5, HoldersFinite, SMTT(30) DEF LifeCount, LifeTypes
  <2>7. LifeTypes'
    BY <1>0, <2>3, <2>4, <2>6 DEF LifeTypes, Threads
  <2>8. LifeCount'
    BY <1>0, <1>2, <1>4, <2>4, <2>6 DEF LifeCount
  <2> QED
    BY <2>7, <2>8
<1>5. CASE pc[t] = "unref"
  <2>1. pc' = [pc EXCEPT ![t] = IF LastRef THEN "free" ELSE "idle"]
    BY <1>5 DEF Unref, Goto
  <2>2. pc' \in [Threads -> Pcs] /\ Cardinality(Holders') = Cardinality(Holders) - 1
    BY <1>0, <1>1, <2>1, HoldersChange DEF Pcs, Inside, Work
  <2>3. \A u \in Threads : pc'[u] = IF u = t THEN IF LastRef THEN "free" ELSE "idle" ELSE pc[u]
    BY <1>0, <2>1 DEF LifeTypes
  <2>4. Extra' = Extra
    BY <1>0, <1>5, <2>3 DEF Extra, Created, Threads
  <2>5. refs' \in Nat /\ refs' = Cardinality(Holders') + Extra'
    BY <1>0, <1>1, <2>2, <2>4, HoldersFinite, SMTT(30) DEF LifeCount, LifeTypes
  <2>6. LifeTypes'
    BY <1>0, <2>2, <2>3, <2>5 DEF LifeTypes, Threads
  <2>7. LastRef => refs' = 0
    BY <1>0, SMTT(30) DEF LastRef
  <2>8. LifeCount'
    BY <1>0, <1>2, <1>5, <2>3, <2>5, <2>7 DEF LifeCount
  <2> QED
    BY <2>6, <2>8
<1> QED
  BY <1>0, <1>4, <1>5

\* The memory is released when nobody is inside.
LEMMA FreeStep ==
  ASSUME LifeInv, NEW t \in Threads, Free(t)
  PROVE  LifeInv'
<1> USE DEF LifeInv
<1>0. /\ crash = "none" /\ LifeTypes /\ LifeCount
      /\ pc[t] = "free" /\ freed' = TRUE /\ pc' = [pc EXCEPT ![t] = "idle"]
      /\ UNCHANGED <<valid, listed, refs, crash, op>>
  BY DEF Free, At, Goto
<1>1. pc' \in [Threads -> Pcs] /\ Cardinality(Holders') = Cardinality(Holders)
  BY <1>0, HoldersChange DEF Pcs, Inside, Work
<1>2. \A u \in Threads : pc'[u] = IF u = t THEN "idle" ELSE pc[u]
  BY <1>0 DEF LifeTypes
<1>3. Extra' = Extra
  BY <1>0, <1>2, SMTT(30) DEF Extra, Created, Threads
<1>4. refs = 0 /\ \A u \in Threads : pc'[u] # "free"
  BY <1>0, <1>2, SMTT(30) DEF LifeCount
<1>5. LifeTypes'
  BY <1>0, <1>1, <1>2 DEF LifeTypes, Threads
<1>6. LifeCount'
  BY <1>0, <1>1, <1>2, <1>3, <1>4 DEF LifeCount
<1> QED
  BY <1>5, <1>6

\* ssn_client_close, by itself or from ssn_client_run, takes the client off the
\* global list before its reference is given back.
LEMMA CloseSteps ==
  ASSUME LifeInv, NEW t \in Threads,
         \/ CloseInvalidate(t)
         \/ CloseUnlist(t)
         \/ t = Poller /\ PollLost /\ op[Poller] = "run" /\ valid
  PROVE  LifeInv'
<1> USE DEF LifeInv, At, Goto
<1>0. crash = "none" /\ LifeTypes /\ LifeCount /\ UNCHANGED <<refs, freed, crash>>
  BY DEF CloseInvalidate, CloseUnlist, PollLost
<1>1. CASE CloseInvalidate(t)
  <2>1. /\ pc[t] = "idle" /\ valid /\ valid' = FALSE /\ op' = [op EXCEPT ![t] = "close"]
        /\ pc' = [pc EXCEPT ![t] = "unlist"] /\ UNCHANGED listed
    BY <1>1 DEF CloseInvalidate
  <2>2. pc' \in [Threads -> Pcs] /\ Cardinality(Holders') = Cardinality(Holders) + 1
    BY <1>0, <2>1, HoldersChange DEF Pcs, Inside, Work
  <2>3. /\ \A u \in Threads : pc'[u] = IF u = t THEN "unlist" ELSE pc[u]
        /\ \A u \in Threads : op'[u] = IF u = t THEN "close" ELSE op[u]
    BY <1>0, <2>1 DEF LifeTypes
  <2>4. Extra = 1 /\ Extra' = 0
    BY <1>0, <2>1, <2>3, SMTT(30) DEF Extra, Created, LifeCount, Threads
  <2>5. refs # 0
    BY <1>0, <2>4, HoldersFinite, SMTT(30) DEF LifeCount
  <2>6. LifeTypes'
    BY <1>0, <2>1, <2>2, <2>3 DEF LifeTypes, Threads
  <2>7. refs' = Cardinality(Holders') + Extra'
    BY <1>0, <2>2, <2>4, HoldersFinite, SMTT(30) DEF LifeCount
  <2>8. LifeCount'
    BY <1>0, <2>1, <2>3, <2>5, <2>7, SMTT(30) DEF LifeCount
  <2> QED
    BY <2>6, <2>8
<1>2. CASE CloseUnlist(t)
  <2>1. PICK p \in {"run_unref", "unref"} :
            /\ p = "run_unref" <=> op[t] = "run"
            /\ pc' = [pc EXCEPT ![t] = p]
    BY <1>2 DEF CloseUnlist
  <2>2. pc[t] = "unlist" /\ listed' = FALSE /\ UNCHANGED <<valid, op>>
    BY <1>2 DEF CloseUnlist
  <2>3. pc' \in [Threads -> Pcs] /\ Cardinality(Holders') = Cardinality(Holders)
    BY <1>0, <2>1, <2>2, HoldersChange DEF Pcs, Inside, Work
  <2>4. \A u \in Threads : pc'[u] = IF u = t THEN p ELSE pc[u]
    BY <1>0, <2>1 DEF LifeTypes
  <2>5. Created' <=> Created
    BY <2>1, <2>2, <2>4 DEF Created, Threads
  <2>6. LifeTypes'
    BY <1>0, <2>1, <2>2, <2>3, <2>4 DEF LifeTypes, Threads
  <2>7. LifeCount'
    BY <1>0, <2>2, <2>3, <2>4, <2>5 DEF LifeCount, Extra
  <2> QED
    BY <2>6, <2>7
<1>3. CASE t = Poller /\ PollLost /\ op[Poller] = "run" /\ valid
  <2>1. /\ pc[t] = "p_lost" /\ valid /\ valid' = FALSE /\ pc' = [pc EXCEPT ![t] = "unlist"]
        /\ UNCHANGED <<listed, op>>
    BY <1>3 DEF PollLost
  <2>2. pc' \in [Threads -> Pcs] /\ Cardinality(Holders') = Cardinality(Holders)
    BY <1>0, <2>1, HoldersChange DEF Pcs, Inside, Work
  <2>3. \A u \in Threads : pc'[u] = IF u = t THEN "unlist" ELSE pc[u]
    BY <1>0, <2>1 DEF LifeTypes
  <2>4. Extra = 1 /\ Extra' = 1
    BY <1>3, <2>1, <2>3 DEF Extra, Created
  <2>5. LifeTypes'
    BY <1>0, <2>1, <2>2, <2>3 DEF LifeTypes, Threads
  <2>6. LifeCount'
    BY <1>0, <2>1, <2>2, <2>3, <2>4 DEF LifeCount
  <2> QED
    BY <2>5, <2>6
<1> QED
  BY <1>1, <1>2, <1>3

\* Every step keeps the count right.
LEMMA StepLife == LifeInv /\ [Next]_vars => LifeInv'
<1> SUFFICES ASSUME LifeInv, [Next]_vars PROVE LifeInv'
  OBVIOUS
<1>1. CASE Call
  <2>1. ASSUME NEW t \in App, NEW o \in Ops \ {"close"}, Begin(t, o) PROVE LifeInv'
    BY <2>1, EnterSteps, ThreadsAssumption DEF Threads
  <2>2. ASSUME NEW o \in {"poll", "run"}, Begin(Poller, o) PROVE LifeInv'
    BY <2>2, EnterSteps DEF Threads
  <2>3. ASSUME NEW t \in Threads, CloseInvalidate(t) PROVE LifeInv'
    BY <2>3, CloseSteps
  <2> QED
    BY <1>1, <2>1, <2>2, <2>3 DEF Call
<1>2. CASE Running
  <2>1. ASSUME NEW t \in Threads, LifeStep(t) PROVE LifeInv'
    BY <2>1, EnterSteps, UnrefStep, FreeStep, CloseSteps DEF LifeStep
  <2>2. CASE PollLost /\ op[Poller] = "run" /\ valid
    BY <2>2, CloseSteps DEF Threads
  <2> QED
    BY <1>2, <2>1, <2>2, WorkSteps DEF Running
<1>3. CASE PeerClose \/ UNCHANGED vars
  <2>1. UNCHANGED <<pc, op, valid, listed, refs, freed, crash>>
    BY <1>3 DEF PeerClose, vars, lifeVars
  <2> QED
    BY <2>1 DEF LifeInv, LifeTypes, LifeCount, Extra, Created, Holders
<1> QED
  BY <1>1, <1>2, <1>3 DEF Next

\* ssn_client_create leaves one reference and nobody inside.
LEMMA InitLife == Init => LifeInv
<1> SUFFICES ASSUME Init PROVE LifeInv
  OBVIOUS
<1>1. Holders = {} /\ Extra = 1
  BY DEF Init, Holders, Inside, Work, Extra, Created
<1>2. Cardinality(Holders) = 0
  BY <1>1, FS_EmptySet
<1>3. LifeTypes
  BY DEF Init, LifeTypes, Pcs, Threads
<1>4. \A t \in Threads : pc[t] = "idle"
  BY DEF Init
<1>5. LifeCount
  BY <1>1, <1>2, <1>4, SMTT(30) DEF Init, LifeCount
<1> QED
  BY <1>3, <1>5 DEF LifeInv

\* RefProtects for any number of threads: no call works on a freed client, and
\* the timer thread does not find it, however calls, closes and ssn_client_run
\* overlap.
THEOREM ClientOutlivesCalls == Spec => []RefProtects
<1>1. LifeInv => RefProtects
  <2> SUFFICES ASSUME LifeInv, freed, crash = "none"
               PROVE  ~listed /\ \A t \in Threads : pc[t] \in {"idle", "ref"}
    BY DEF RefProtects
  <2>1. refs = 0 /\ LifeTypes /\ LifeCount
    BY DEF LifeInv, LifeCount
  <2>2. \A t \in Threads : pc[t] \notin Inside
    BY <2>1, HolderCounts, SMTT(30) DEF Extra
  <2>3. \A t \in Threads : pc[t] # "free"
    BY <2>1 DEF LifeCount
  <2>4. Extra = 0
    BY <2>1, HoldersFinite, SMTT(30) DEF LifeCount, Extra
  <2> QED
    BY <2>1, <2>2, <2>3, <2>4, SMTT(30) DEF LifeCount, LifeTypes, Pcs, Inside, Extra, Created
<1> QED
  BY <1>1, InitLife, StepLife, PTL DEF Spec

-----------------------------------------------------------------------------
(* Whose transports they are. *)

\* A thread that is not about to publish a transport, and what it may do to the
\* client's: nothing, destroy it, disconnect it, or put another in its place.
LEMMA LinkMove ==
  ASSUME LinkInv, NEW t \in Threads, NEW p \in Pcs, pc' = [pc EXCEPT ![t] = p],
         pc[t] # "c_handshake", p # "c_handshake", UNCHANGED local,
         \/ UNCHANGED <<transport, sock>>
         \/ sock' = Destroyed(transport) /\ transport' = Null
         \/ sock' = Disconnected(transport) /\ UNCHANGED transport
         \/ \E x \in Transports : /\ transport # Null /\ sock[x] = "free" /\ transport' = x
                                  /\ sock' = [Destroyed(transport) EXCEPT ![x] = "open"]
  PROVE  LinkInv'
<1> USE ThreadsAssumption DEF LinkInv
<1>1. /\ pc' \in [Threads -> Pcs]
      /\ \A u \in App : local'[u] # Null <=> pc'[u] = "c_handshake"
  BY DEF Threads
<1>2. CASE UNCHANGED <<transport, sock>>
  BY <1>1, <1>2 DEF NewTransportOwned, NoTransportLeak
<1>3. CASE sock' = Destroyed(transport) /\ transport' = Null
  <2>1. sock' \in [Transports -> {"free", "open", "eof", "closed"}]
    BY <1>3 DEF Destroyed
  <2>2. \A y \in Transports : sock'[y] = IF y = transport THEN "free" ELSE sock[y]
    BY <1>3 DEF Destroyed
  <2>3. NewTransportOwned' /\ NoTransportLeak'
    BY <1>3, <2>2, SMTT(30) DEF NewTransportOwned, NoTransportLeak
  <2> QED
    BY <1>1, <1>3, <2>1, <2>3
<1>4. CASE sock' = Disconnected(transport) /\ UNCHANGED transport
  <2>1. sock' \in [Transports -> {"free", "open", "eof", "closed"}]
    BY <1>4 DEF Disconnected
  <2>2. \A y \in Transports : sock'[y] = IF y = transport THEN "closed" ELSE sock[y]
    BY <1>4 DEF Disconnected
  <2>3. NewTransportOwned' /\ NoTransportLeak'
    BY <1>4, <2>2, SMTT(30) DEF NewTransportOwned, NoTransportLeak
  <2> QED
    BY <1>1, <1>4, <2>1, <2>2, <2>3
<1>5. ASSUME NEW x \in Transports, transport # Null, sock[x] = "free", transport' = x,
             sock' = [Destroyed(transport) EXCEPT ![x] = "open"]
      PROVE  LinkInv'
  <2>1. sock' \in [Transports -> {"free", "open", "eof", "closed"}]
    BY <1>5 DEF Destroyed
  <2>2. \A y \in Transports :
            sock'[y] = IF y = x THEN "open" ELSE IF y = transport THEN "free" ELSE sock[y]
    BY <1>5 DEF Destroyed
  <2>3. NewTransportOwned' /\ NoTransportLeak'
    BY <1>5, <2>2, SMTT(30) DEF NewTransportOwned, NoTransportLeak
  <2> QED
    BY <1>1, <1>5, <2>1, <2>2, <2>3
<1> QED
  BY <1>2, <1>3, <1>4, <1>5

\* The steps of ssn_client_connect that make, publish and give up a transport.
LEMMA ConnectSteps ==
  ASSUME LinkInv, NEW t \in App,
         (\E x \in Transports : ConnectNew(t, x)) \/ ConnectFail(t) \/ ConnectPublish(t)
  PROVE  LinkInv'
<1> USE ThreadsAssumption DEF LinkInv, At, Goto
<1>0. t \in Threads
  BY DEF Threads
<1>1. ASSUME NEW x \in Transports, ConnectNew(t, x) PROVE LinkInv'
  <2>1. /\ \A y \in Transports : sock'[y] = IF y = x THEN "open" ELSE sock[y]
        /\ sock' \in [Transports -> {"free", "open", "eof", "closed"}]
        /\ UNCHANGED transport /\ sock[x] = "free"
    BY <1>1 DEF ConnectNew
  <2>2. /\ local' \in [App -> Transports \cup {Null}] /\ pc' \in [Threads -> Pcs]
        /\ \A u \in App : local'[u] = IF u = t THEN x ELSE local[u]
        /\ \A u \in Threads : pc'[u] = IF u = t THEN "c_handshake" ELSE pc[u]
    BY <1>0, <1>1 DEF ConnectNew, Pcs, Inside, Work
  <2>3. \A u \in App : local'[u] # Null <=> pc'[u] = "c_handshake"
    BY <2>2 DEF Threads
  <2>4. pc[t] = "c_new" /\ local[t] = Null
    BY <1>1 DEF ConnectNew
  <2>5. NewTransportOwned' /\ NoTransportLeak'
    BY <2>1, <2>2, <2>4, SMTT(30) DEF NewTransportOwned, NoTransportLeak
  <2> QED
    BY <2>1, <2>2, <2>3, <2>5
<1>2. CASE ConnectFail(t)
  <2>1. /\ \A y \in Transports : sock'[y] = IF y = local[t] THEN "free" ELSE sock[y]
        /\ sock' \in [Transports -> {"free", "open", "eof", "closed"}]
        /\ UNCHANGED transport
    BY <1>2 DEF ConnectFail, Destroyed
  <2>2. /\ local' \in [App -> Transports \cup {Null}] /\ pc' \in [Threads -> Pcs]
        /\ \A u \in App : local'[u] = IF u = t THEN Null ELSE local[u]
        /\ \A u \in Threads : pc'[u] = IF u = t THEN "unref" ELSE pc[u]
    BY <1>0, <1>2 DEF ConnectFail, Pcs, Inside, Work
  <2>3. \A u \in App : local'[u] # Null <=> pc'[u] = "c_handshake"
    BY <2>2 DEF Threads
  <2>4. NewTransportOwned' /\ NoTransportLeak'
    BY <2>1, <2>2, SMTT(30) DEF NewTransportOwned, NoTransportLeak
  <2> QED
    BY <2>1, <2>2, <2>3, <2>4, SMTT(30) DEF NewTransportOwned
<1>3. CASE ConnectPublish(t)
  <2>1. /\ \A y \in Transports : sock'[y] = IF y = transport THEN "free" ELSE sock[y]
        /\ sock' \in [Transports -> {"free", "open", "eof", "closed"}]
        /\ pc[t] = "c_handshake" /\ transport' = local[t]
    BY <1>3 DEF ConnectPublish, Destroyed
  <2>2. /\ local' \in [App -> Transports \cup {Null}] /\ pc' \in [Threads -> Pcs]
        /\ \A u \in App : local'[u] = IF u = t THEN Null ELSE local[u]
        /\ \A u \in Threads : pc'[u] = IF u = t THEN "unref" ELSE pc[u]
    BY <1>0, <1>3 DEF ConnectPublish, Pcs, Inside, Work
  <2>3. \A u \in App : local'[u] # Null <=> pc'[u] = "c_handshake"
    BY <2>2 DEF Threads
  <2>4. NewTransportOwned' /\ NoTransportLeak'
    BY <2>1, <2>2, SMTT(30) DEF NewTransportOwned, NoTransportLeak
  <2> QED
    BY <2>1, <2>2, <2>3, <2>4, SMTT(30) DEF NewTransportOwned
<1> QED
  BY <1>1, <1>2, <1>3

\* Every step keeps each transport with its owner.
LEMMA StepLink == LinkInv /\ [Next]_vars => LinkInv'
<1> SUFFICES ASSUME LinkInv, [Next]_vars PROVE LinkInv'
  OBVIOUS
<1> USE DEF At, Goto, linkVars
<1>1. ASSUME NEW t \in Threads,
             (\E o : Begin(t, o)) \/ CloseInvalidate(t) \/ LifeStep(t)
      PROVE  LinkInv'
  <2>1. \E p \in Pcs : /\ pc' = [pc EXCEPT ![t] = p]
                       /\ pc[t] # "c_handshake" /\ p # "c_handshake" /\ UNCHANGED local
                       /\ \/ UNCHANGED <<transport, sock>>
                          \/ sock' = Destroyed(transport) /\ transport' = Null
    BY <1>1 DEF LifeStep, Begin, Ref, FirstStep, Unref, Free, CloseInvalidate, CloseUnlist,
                Pcs, Inside, Work
  <2> QED
    BY <2>1, LinkMove
<1>2. ASSUME NEW t \in App, AppStep(t) PROVE LinkInv'
  <2>1. CASE (\E x \in Transports : ConnectNew(t, x)) \/ ConnectFail(t) \/ ConnectPublish(t)
    BY <2>1, ConnectSteps
  <2>2. CASE ConnectClear(t) \/ ConnectDestroy(t) \/ DisconnectLocked(t)
    BY <2>2, LinkMove DEF Threads, ConnectClear, ConnectDestroy, DisconnectLocked,
                          Pcs, Inside, Work
  <2>3. ASSUME NEW sent \in BOOLEAN, Send(t, sent) PROVE LinkInv'
    <3>1. \/ UNCHANGED <<transport, sock>>
          \/ sock' = Disconnected(transport) /\ UNCHANGED transport
      BY <2>3 DEF Send
    <3> QED
      BY <2>3, <3>1, LinkMove DEF Threads, Send, Pcs, Inside, Work
  <2>4. CASE SendTimeout(t)
    BY <2>4, LinkMove DEF Threads, SendTimeout, Pcs, Inside, Work
  <2> QED
    BY <1>2, <2>1, <2>2, <2>3, <2>4 DEF AppStep
<1>3. CASE PollStep
  <2>1. \E p \in Pcs : /\ pc' = [pc EXCEPT ![Poller] = p]
                       /\ pc[Poller] # "c_handshake" /\ p # "c_handshake" /\ UNCHANGED local
                       /\ \/ UNCHANGED <<transport, sock>>
                          \/ sock' = Destroyed(transport) /\ transport' = Null
    <3>1. CASE PollFds \/ PollFd \/ PollTimeout \/ PollReady
      BY <3>1 DEF PollFds, PollFd, PollTimeout, PollReady, Again, Pcs, Inside, Work
    <3>2. CASE PollRecv \/ PollClear \/ PollLost \/ PollDestroy
      BY <3>2 DEF PollRecv, PollClear, PollLost, PollDestroy, Again, Pcs, Inside, Work
    <3> QED
      BY <1>3, <3>1, <3>2 DEF PollStep
  <2> QED
    BY <2>1, LinkMove DEF Threads
<1>4. CASE PeerClose
  <2>1. PICK x \in Transports : sock[x] = "open" /\ sock' = [sock EXCEPT ![x] = "eof"]
    BY <1>4 DEF PeerClose
  <2>2. UNCHANGED <<transport, local, pc>>
    BY <1>4 DEF PeerClose
  <2> QED
    BY <2>1, <2>2, ZenonT(30) DEF LinkInv, NewTransportOwned, NoTransportLeak
<1>5. CASE UNCHANGED vars
  BY <1>5 DEF vars, LinkInv, NewTransportOwned, NoTransportLeak
<1> QED
  BY <1>1, <1>2, <1>3, <1>4, <1>5 DEF Next, Call, Running, Threads

\* A new client has no transport.
LEMMA InitLink == Init => LinkInv
<1> SUFFICES ASSUME Init PROVE LinkInv
  OBVIOUS
<1>1. /\ \A t \in App : local[t] = Null /\ pc[t] = "idle"
      /\ \A x \in Transports : sock[x] = "free"
      /\ transport = Null
  BY DEF Init, Threads
<1>2. /\ pc \in [Threads -> Pcs]
      /\ sock \in [Transports -> {"free", "open", "eof", "closed"}]
      /\ local \in [App -> Transports \cup {Null}]
  BY DEF Init, Pcs
<1> QED
  BY <1>1, <1>2 DEF LinkInv, NewTransportOwned, NoTransportLeak

\* TransportsOwned for any number of threads and objects: connects that overtake
\* each other, failures, changes of the send timeout and lost connections leave
\* no transport behind, and none is destroyed under the connect that builds it.
THEOREM TransportsHaveOwners == Spec => []TransportsOwned
<1>1. LinkInv => TransportsOwned
  BY DEF LinkInv, TransportsOwned
<1> QED
  BY <1>1, InitLink, StepLink, PTL DEF Spec

=============================================================================
