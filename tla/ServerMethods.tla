---------------------------- MODULE ServerMethods ----------------------------
(***************************************************************************)
(* The methods of a server (src/ssn_server.c, src/ssn_list.h): exact URLs  *)
(* in hash chains, newest first; URLs that end in '/' in a queue of prefix *)
(* methods, linked by pointers from prefix_h to prefix_t; "/" as default.  *)
(*                                                                         *)
(* A method is a cell of memory, which free() leaves as it is and calloc() *)
(* may hand out again.  A URL is its segments and whether a slash ends it. *)
(* Chains of different hash values do not interfere, since a search        *)
(* compares whole URLs: `chain' stands for all of them.                    *)
(***************************************************************************)
EXTENDS Naturals, Sequences, SequencesExt, FiniteSets

CONSTANTS
    MethodUrls,     \* URLs that methods are added for
    CallUrls,       \* URLs that are called
    NCells,         \* cells of memory for methods
    MaxAdds,        \* how many methods are added in all
    MayRemoveTail   \* whether the last prefix method may be removed

ASSUME MethodsAssumption ==
    NCells \in Nat /\ MaxAdds \in Nat /\ MayRemoveTail \in BOOLEAN

Cells == 1 .. NCells
NULL == 0
Endless == NCells + 1
Root == [seg |-> <<>>, dir |-> TRUE]

VARIABLES
    cell,               \* the memory; next and prev link the prefix methods
    chain,              \* server->cmds
    prefixH, prefixT,   \* server->prefix_h, server->prefix_t
    defCmd,             \* server->def_cmd
    adds,               \* methods added so far; a callback is known by its number
    registered          \* history: what was added and not removed, in this order

methods == <<cell, chain, prefixH, prefixT, defCmd, adds, registered>>

NoCell == [live |-> FALSE, seg |-> <<>>, fn |-> 0, arg |-> 0, next |-> NULL, prev |-> NULL]

MethodsInit ==
    /\ cell = [i \in Cells |-> NoCell]
    /\ chain = <<>> /\ prefixH = NULL /\ prefixT = NULL /\ defCmd = NULL
    /\ adds = 0 /\ registered = <<>>

-----------------------------------------------------------------------------
\* The cell a walk from h has reached after k steps along next.
After(C, h) ==
    LET at[k \in 0 .. NCells] ==
            IF k = 0 THEN h ELSE IF at[k - 1] = NULL THEN NULL ELSE C[at[k - 1]].next
    IN  at

\* LIST_FOREACH from h for the first cell in S: NULL when the list ends, and
\* Endless when it does not.
FirstOf(C, h, S) ==
    LET at == After(C, h)
        hit == {k \in 0 .. NCells : at[k] \in S}
    IN  IF hit # {} THEN at[CHOOSE k \in hit : \A j \in hit : k <= j]
        ELSE IF at[NCells] = NULL THEN NULL ELSE Endless

\* INSERT_TO_FIFO of a new cell i.
IntoFifo(C, i, seg, n) ==
    LET new == [C EXCEPT ![i] = [live |-> TRUE, seg |-> seg, fn |-> n, arg |-> n,
                                 next |-> NULL, prev |-> prefixT]]
    IN  IF prefixT = NULL THEN new ELSE [new EXCEPT ![prefixT].next = i]

\* DELETE_FROM_LIST and free of cell i.
Unlinked(C, i) ==
    LET n == C[i].next
        p == C[i].prev
        C1 == IF n = NULL THEN C ELSE [C EXCEPT ![n].prev = p]
        C2 == IF p = NULL THEN C1 ELSE [C1 EXCEPT ![p].next = n]
    IN  [C2 EXCEPT ![i].next = NULL, ![i].prev = NULL, ![i].live = FALSE]

FirstInChain(seg) ==
    LET hit == {k \in DOMAIN chain : cell[chain[k]].seg = seg}
    IN  IF hit = {} THEN 0 ELSE CHOOSE k \in hit : \A j \in hit : k <= j

-----------------------------------------------------------------------------
\* ssn_server_add_method, in one section under server->lock.
AddMethod(u) ==
    /\ adds < MaxAdds
    /\ adds' = adds + 1
    /\ registered' = Append(SelectSeq(registered, LAMBDA r : u # Root \/ r.url # Root),
                            [url |-> u, fn |-> adds + 1])
    /\ \E i \in {j \in Cells : ~cell[j].live} :
        LET new == [live |-> TRUE, seg |-> u.seg, fn |-> adds + 1, arg |-> adds + 1,
                    next |-> NULL, prev |-> NULL]
        IN  IF u = Root
            THEN /\ cell' = [j \in Cells |->
                        IF j = i THEN new
                        ELSE IF j = defCmd THEN [cell[j] EXCEPT !.live = FALSE] ELSE cell[j]]
                 /\ defCmd' = i
                 /\ UNCHANGED <<chain, prefixH, prefixT>>
            ELSE IF u.dir
            THEN /\ cell' = IntoFifo(cell, i, u.seg, adds + 1)
                 /\ prefixT' = i
                 /\ prefixH' = IF prefixH = NULL THEN i ELSE prefixH
                 /\ UNCHANGED <<chain, defCmd>>
            ELSE /\ cell' = [cell EXCEPT ![i] = new]
                 /\ chain' = <<i>> \o chain
                 /\ UNCHANGED <<prefixH, prefixT, defCmd>>

\* The prefix method that removing u takes out; prefix_t stays as it is.
RemovedPrefix(u) == FirstOf(cell, prefixH, {i \in Cells : cell[i].seg = u.seg})

\* What the caller believes is registered after a removal: for an exact URL
\* the newest goes, for a prefix the oldest.
LessRegistered(u) ==
    LET hit == {k \in DOMAIN registered : registered[k].url = u}
        k == CHOOSE k \in hit : \A j \in hit : IF u.dir THEN k <= j ELSE j <= k
    IN  IF hit = {} THEN registered ELSE RemoveAt(registered, k)

\* Mutant: the oldest method of a chain is removed.
ChainRemovesOldest(u) ==
    LET hit == {k \in DOMAIN chain : cell[chain[k]].seg = u.seg}
    IN  IF hit = {} THEN 0 ELSE CHOOSE k \in hit : \A j \in hit : j <= k

ChainRemoves(u) == FirstInChain(u.seg)

\* ssn_server_remove_method.
RemoveMethod(u) ==
    /\ \/ /\ u = Root /\ defCmd # NULL
          /\ cell' = [cell EXCEPT ![defCmd].live = FALSE]
          /\ defCmd' = NULL
          /\ UNCHANGED <<chain, prefixH>>
       \/ /\ u # Root /\ u.dir /\ RemovedPrefix(u) \in Cells
          /\ RemovedPrefix(u) = prefixT => MayRemoveTail
          /\ LET i == RemovedPrefix(u) IN
             /\ cell' = Unlinked(cell, i)
             /\ prefixH' = IF cell[i].prev = NULL THEN cell[i].next ELSE prefixH
          /\ UNCHANGED <<chain, defCmd>>
       \/ /\ ~u.dir /\ ChainRemoves(u) # 0
          /\ LET k == ChainRemoves(u) IN
             /\ cell' = [cell EXCEPT ![chain[k]].live = FALSE]
             /\ chain' = RemoveAt(chain, k)
          /\ UNCHANGED <<prefixH, defCmd>>
    /\ registered' = LessRegistered(u)
    /\ UNCHANGED <<prefixT, adds>>

-----------------------------------------------------------------------------
\* Cells whose path is u or a prefix of it that ends at a '/'.
PrefixCells(u) == {i \in Cells : IsPrefix(cell[i].seg, u.seg)}

\* ssn_server_cmd_match: an exact method, the first prefix method, the default.
CmdMatch(u) ==
    IF ~u.dir /\ FirstInChain(u.seg) # 0 THEN chain[FirstInChain(u.seg)]
    ELSE LET i == FirstOf(cell, prefixH, PrefixCells(u))
         IN  IF i # NULL THEN i ELSE defCmd

\* The callback a caller of add_method and remove_method may expect: the
\* newest registration of the URL, otherwise the oldest of a prefix of it,
\* otherwise the default.
Expected(u) ==
    LET exact == {k \in DOMAIN registered : registered[k].url = u /\ ~u.dir}
        pre == {k \in DOMAIN registered :
                    LET r == registered[k].url
                    IN  r # Root /\ r.dir /\ IsPrefix(r.seg, u.seg)}
        def == {k \in DOMAIN registered : registered[k].url = Root}
        Fn(k) == registered[k].fn
    IN  IF exact # {} THEN Fn(CHOOSE k \in exact : \A j \in exact : j <= k)
        ELSE IF pre # {} THEN Fn(CHOOSE k \in pre : \A j \in pre : k <= j)
        ELSE IF def # {} THEN Fn(CHOOSE k \in def : TRUE)
        ELSE 0

\* ssn_server_cmd_match finds what was registered for the URL, after any
\* sequence of add_method and remove_method.
MatchesExpected ==
    \A u \in CallUrls :
        LET i == CmdMatch(u)
        IN  i # Endless /\ (IF i = NULL THEN 0 ELSE cell[i].fn) = Expected(u)

=============================================================================
