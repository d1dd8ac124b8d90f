------------------------ MODULE ReactionPollerProofs ------------------------
(***************************************************************************)
(* Proofs about ReactionPoller, for any number of connections,             *)
(* repositories and reactions.                                             *)
(*                                                                         *)
(* A cached count says nothing of which reactions it counted.  What makes  *)
(* it safe to skip a comment on is that some set of reactions on it, as    *)
(* many as the count says, was looked at, and that none left it since: a   *)
(* count that is still right then counts the same reactions.               *)
(***************************************************************************)
EXTENDS ReactionPoller, FiniteSetTheorems, TLAPS

(* Reactions loop c need not look at any more.                                  *)
Fine(c) == {r \in Reactions : Eligible(c, r) => r \in seen}

(* n of the reactions O are among F.                                            *)
Covered(O, n, F) == \E S \in SUBSET O : Cardinality(S) = n /\ S \subseteq F

(* The counts of the last cycle, until this cycle comes to their comment.       *)
CountsOK(c) == \A m \in Comments \ removed[c] :
    counts[c][m] # -1 /\ (loop[c] \in {"sleep", "cycle"} \/ m \in todo[c])
        => Covered(On(m), counts[c][m], Fine(c))

NextOK(c) == \A m \in Comments \ removed[c] :
    next[c][m] # -1 => Covered(On(m), next[c][m], Fine(c))

(* The comment at hand: what was on it when it was counted is still on it, and  *)
(* is yet to be listed, or listed and then looked at or yet to be.              *)
AtOK(c) == /\ loop[c] \in {"list", "batch"} => at[c] \in Comments \ todo[c]
           /\ loop[c] = "list" /\ at[c] \notin removed[c]
                  => Covered(On(at[c]), sampled[c], On(at[c]))
           /\ loop[c] = "batch" /\ at[c] \notin removed[c]
                  => Covered(On(at[c]), sampled[c], Fine(c) \cup batch[c])

(* Counts are cached in this cycle for comments it has come to.                 *)
ShapeOK(c) == /\ loop[c] = "off" => counts[c] = None /\ todo[c] = {}
              /\ loop[c] \in {"off", "cycle", "sleep", "over"} => next[c] = None
              /\ \A m \in todo[c] : next[c][m] = -1

LoopInv == \A c \in Conns : CountsOK(c) /\ NextOK(c) /\ AtOK(c) /\ ShapeOK(c)

UserInv == /\ IsFiniteSet(spent)
           /\ \A r \in Reactions : on[r] # NoComment => r \in spent
           /\ \A c \in Conns : batch[c] \subseteq spent

OnceInv == \A r \in Reactions : runs[r] = IF r \in seen THEN 1 ELSE 0

IInv == TypeOK /\ UserInv /\ OnceInv /\ LoopInv
-----------------------------------------------------------------------------
(* Cover survives more reactions, and a larger set that covers as well.         *)
LEMMA CoveredGrows ==
    ASSUME NEW O, NEW P, NEW n, NEW F, NEW G, Covered(O, n, F), O \subseteq P, O \cap F \subseteq G
    PROVE  Covered(P, n, G)
<1>1. PICK S \in SUBSET O : Cardinality(S) = n /\ S \subseteq F
  BY DEF Covered
<1>2. S \in SUBSET P /\ S \subseteq G
  BY <1>1
<1>3. QED
  BY <1>1, <1>2 DEF Covered

(* In particular a union covers what either part does.                          *)
LEMMA CoveredWider ==
    ASSUME NEW O, NEW n, NEW F, NEW G, Covered(O, n, F)
    PROVE  Covered(O, n, G \cup F)
BY CoveredGrows

(* Nothing has to be looked at where there is nothing.                          *)
LEMMA CoveredNone == ASSUME NEW O, NEW F PROVE Covered(O, 0, F)
<1>1. {} \in SUBSET O /\ Cardinality({}) = 0 /\ {} \subseteq F
  BY FS_EmptySet
<1>2. QED
  BY <1>1 DEF Covered

(* A set covers itself.                                                         *)
LEMMA CoveredAll == ASSUME NEW O PROVE Covered(O, Cardinality(O), O)
BY DEF Covered

(* If as many are covered as there are, all are.                                *)
LEMMA CoveredWhole ==
    ASSUME NEW O, NEW F, IsFiniteSet(O), Covered(O, Cardinality(O), F)
    PROVE  O \subseteq F
<1>1. PICK S \in SUBSET O : Cardinality(S) = Cardinality(O) /\ S \subseteq F
  BY DEF Covered
<1>2. S = O
  BY <1>1, FS_Subset
<1>3. QED
  BY <1>1, <1>2

(* Reactions on a comment are among those that were added.                      *)
LEMMA OnFinite ==
    ASSUME PollerAssumption, UserInv, NEW m \in Comments
    PROVE  /\ On(m) \subseteq spent /\ IsFiniteSet(On(m)) /\ Cardinality(On(m)) \in Nat
<1>1. On(m) \subseteq spent
  BY DEF On, UserInv, PollerAssumption
<1>2. IsFiniteSet(On(m))
  BY <1>1, FS_Subset DEF UserInv
<1>3. QED
  BY <1>1, <1>2, FS_CardinalityType

(* A loop that does not move, while others look at more reactions and users add *)
(* some or remove some, from comments that are then marked.                     *)
LEMMA LoopIdle ==
    ASSUME NEW c \in Conns, LoopInv,
           loop'[c] = loop[c], todo'[c] = todo[c], counts'[c] = counts[c], next'[c] = next[c],
           at'[c] = at[c], sampled'[c] = sampled[c], batch'[c] = batch[c],
           before'[c] = before[c], seen \subseteq seen', removed[c] \subseteq removed'[c],
           \A m \in Comments \ removed'[c] : On(m) \subseteq On(m)'
    PROVE  CountsOK(c)' /\ NextOK(c)' /\ AtOK(c)' /\ ShapeOK(c)'
<1>1. Fine(c) \subseteq Fine(c)'
  BY DEF Fine, Eligible
<1>2. CountsOK(c)'
  BY <1>1, CoveredGrows DEF LoopInv, CountsOK
<1>3. NextOK(c)'
  BY <1>1, CoveredGrows DEF LoopInv, NextOK
<1>4. AtOK(c)'
  BY <1>1, CoveredGrows DEF LoopInv, AtOK
<1>5. ShapeOK(c)'
  BY DEF LoopInv, ShapeOK, None
<1>6. QED
  BY <1>2, <1>3, <1>4, <1>5
-----------------------------------------------------------------------------
(* With no reaction and no loop IInv holds.                                     *)
LEMMA InitInv == PollerAssumption /\ Init => IInv
<1> SUFFICES ASSUME PollerAssumption, Init PROVE IInv
  OBVIOUS
<1>1. TypeOK
  <2>1. None \in [Comments -> Nat \cup {-1}]
    BY DEF None
  <2>2. QED
    BY <2>1 DEF Init, TypeOK, PollerAssumption
<1>2. UserInv /\ OnceInv
  BY FS_EmptySet DEF Init, UserInv, OnceInv
<1>3. LoopInv
  BY DEF Init, LoopInv, CountsOK, NextOK, AtOK, ShapeOK, None
<1>4. QED
  BY <1>1, <1>2, <1>3 DEF IInv

(* The lemmas that follow show, action by action, that each part of IInv is     *)
(* kept.                                                                        *)
LEMMA AddInv ==
    ASSUME PollerAssumption, IInv, NEW r \in Reactions, NEW m \in Comments, Add(r, m)
    PROVE  IInv'
<1> USE DEF IInv, PollerAssumption, Add, Goto, connVars, userVars, storeVars, cycleVars,
            scanVars
<1>1. TypeOK'
  BY DEF TypeOK
<1>2. UserInv'
  BY FS_AddElement DEF TypeOK, UserInv
<1>3. OnceInv'
  BY DEF OnceInv
<1>4. ASSUME NEW d \in Conns
      PROVE  CountsOK(d)' /\ NextOK(d)' /\ AtOK(d)' /\ ShapeOK(d)'
  BY <1>4, LoopIdle DEF TypeOK, UserInv, On
<1>5. LoopInv'
  BY <1>4 DEF LoopInv
<1>6. QED
  BY <1>1, <1>2, <1>3, <1>5

LEMMA RemoveInv ==
    ASSUME PollerAssumption, IInv, NEW r \in Reactions, Remove(r)
    PROVE  IInv'
<1> USE DEF IInv, PollerAssumption, Remove, Goto, connVars, userVars, storeVars,
            cycleVars, scanVars
<1>1. TypeOK'
  BY DEF TypeOK
<1>2. UserInv'
  BY DEF TypeOK, UserInv
<1>3. OnceInv'
  BY DEF OnceInv
<1>4. ASSUME NEW d \in Conns
      PROVE  CountsOK(d)' /\ NextOK(d)' /\ AtOK(d)' /\ ShapeOK(d)'
  BY <1>4, LoopIdle DEF TypeOK, On
<1>5. LoopInv'
  BY <1>4 DEF LoopInv
<1>6. QED
  BY <1>1, <1>2, <1>3, <1>5

LEMMA CancelInv ==
    ASSUME PollerAssumption, IInv, Cancel
    PROVE  IInv'
<1> USE DEF IInv, PollerAssumption, Cancel, Goto, connVars, userVars, storeVars,
            cycleVars, scanVars
<1>1. TypeOK'
  BY DEF TypeOK
<1>2. UserInv'
  BY DEF TypeOK, UserInv
<1>3. OnceInv'
  BY DEF OnceInv
<1>4. ASSUME NEW d \in Conns
      PROVE  CountsOK(d)' /\ NextOK(d)' /\ AtOK(d)' /\ ShapeOK(d)'
  BY <1>4, LoopIdle DEF TypeOK, On
<1>5. LoopInv'
  BY <1>4 DEF LoopInv
<1>6. QED
  BY <1>1, <1>2, <1>3, <1>5

LEMMA DisconnectEndInv ==
    ASSUME PollerAssumption, IInv, DisconnectEnd
    PROVE  IInv'
<1> USE DEF IInv, PollerAssumption, DisconnectEnd, Goto, connVars, userVars, storeVars,
            cycleVars, scanVars
<1>1. TypeOK'
  BY DEF TypeOK
<1>2. UserInv'
  BY DEF TypeOK, UserInv
<1>3. OnceInv'
  BY DEF OnceInv
<1>4. ASSUME NEW d \in Conns
      PROVE  CountsOK(d)' /\ NextOK(d)' /\ AtOK(d)' /\ ShapeOK(d)'
  BY <1>4, LoopIdle DEF TypeOK, On
<1>5. LoopInv'
  BY <1>4 DEF LoopInv
<1>6. QED
  BY <1>1, <1>2, <1>3, <1>5

LEMMA ConnectInv ==
    ASSUME PollerAssumption, IInv, NEW c \in Conns, Connect(c)
    PROVE  IInv'
<1> USE DEF IInv, PollerAssumption, Connect, Goto, connVars, userVars, storeVars,
            cycleVars, scanVars
<1>1. TypeOK'
  BY DEF TypeOK
<1>2. UserInv'
  BY DEF TypeOK, UserInv
<1>3. OnceInv'
  BY DEF OnceInv
<1>4. ASSUME NEW d \in Conns, d # c
      PROVE  CountsOK(d)' /\ NextOK(d)' /\ AtOK(d)' /\ ShapeOK(d)'
  BY <1>4, LoopIdle DEF TypeOK, On
<1>5. CountsOK(c)' /\ NextOK(c)' /\ AtOK(c)' /\ ShapeOK(c)'
  <2>1. CountsOK(c)'
    BY DEF TypeOK, LoopInv, CountsOK, ShapeOK, None
  <2>2. NextOK(c)'
    BY DEF TypeOK, LoopInv, NextOK, ShapeOK, None
  <2>3. AtOK(c)'
    BY DEF TypeOK, LoopInv, AtOK, ShapeOK, None
  <2>4. ShapeOK(c)'
    BY DEF TypeOK, LoopInv, ShapeOK, None
  <2>5. QED
    BY <2>1, <2>2, <2>3, <2>4
<1>6. LoopInv'
  BY <1>4, <1>5 DEF LoopInv
<1>7. QED
  BY <1>1, <1>2, <1>3, <1>6

LEMMA WakeInv ==
    ASSUME PollerAssumption, IInv, NEW c \in Conns, Wake(c)
    PROVE  IInv'
<1> USE DEF IInv, PollerAssumption, Wake, Goto, connVars, userVars, storeVars, cycleVars,
            scanVars
<1>1. TypeOK'
  BY DEF TypeOK
<1>2. UserInv'
  BY DEF TypeOK, UserInv
<1>3. OnceInv'
  BY DEF OnceInv
<1>4. ASSUME NEW d \in Conns, d # c
      PROVE  CountsOK(d)' /\ NextOK(d)' /\ AtOK(d)' /\ ShapeOK(d)'
  BY <1>4, LoopIdle DEF TypeOK, On
<1>5. CountsOK(c)' /\ NextOK(c)' /\ AtOK(c)' /\ ShapeOK(c)'
  <2>1. CountsOK(c)'
    <3>1. \A m \in Comments : On(m)' = On(m)
      BY DEF On
    <3>2. Fine(c)' = Fine(c)
      BY DEF Fine, Eligible
    <3>3. QED
      BY <3>1, <3>2 DEF TypeOK, LoopInv, CountsOK, ShapeOK, None
  <2>2. NextOK(c)'
    <3>1. \A m \in Comments : On(m)' = On(m)
      BY DEF On
    <3>2. Fine(c)' = Fine(c)
      BY DEF Fine, Eligible
    <3>3. QED
      BY <3>1, <3>2 DEF TypeOK, LoopInv, NextOK, ShapeOK, None
  <2>3. AtOK(c)'
    <3>1. \A m \in Comments : On(m)' = On(m)
      BY DEF On
    <3>2. Fine(c)' = Fine(c)
      BY DEF Fine, Eligible
    <3>3. QED
      BY <3>1, <3>2 DEF TypeOK, LoopInv, AtOK, ShapeOK, None
  <2>4. ShapeOK(c)'
    BY DEF TypeOK, LoopInv, ShapeOK, None
  <2>5. QED
    BY <2>1, <2>2, <2>3, <2>4
<1>6. LoopInv'
  BY <1>4, <1>5 DEF LoopInv
<1>7. QED
  BY <1>1, <1>2, <1>3, <1>6

LEMMA BeginCycleInv ==
    ASSUME PollerAssumption, IInv, NEW c \in Conns, BeginCycle(c)
    PROVE  IInv'
<1> USE DEF IInv, PollerAssumption, BeginCycle, Goto, connVars, userVars, storeVars,
            cycleVars, scanVars, Polled
<1>1. TypeOK'
  <2>1. discovered' \in [Conns -> SUBSET Wildcard]
    BY DEF TypeOK
  <2>2. Polled(discovered'[c]) \subseteq Comments
    BY <2>1 DEF Polled, Comments
  <2>3. todo' \in [Conns -> SUBSET Comments]
    BY <2>2 DEF TypeOK
  <2>4. QED
    BY <2>1, <2>3 DEF TypeOK
<1>2. UserInv'
  BY DEF TypeOK, UserInv
<1>3. OnceInv'
  BY DEF OnceInv
<1>4. ASSUME NEW d \in Conns, d # c
      PROVE  CountsOK(d)' /\ NextOK(d)' /\ AtOK(d)' /\ ShapeOK(d)'
  BY <1>4, LoopIdle DEF TypeOK, On
<1>5. CountsOK(c)' /\ NextOK(c)' /\ AtOK(c)' /\ ShapeOK(c)'
  <2>1. CountsOK(c)'
    <3>1. \A m \in Comments : On(m)' = On(m)
      BY DEF On
    <3>2. Fine(c)' = Fine(c)
      BY DEF Fine, Eligible
    <3>3. QED
      BY <3>1, <3>2 DEF TypeOK, LoopInv, CountsOK, ShapeOK, None
  <2>2. NextOK(c)'
    <3>1. \A m \in Comments : On(m)' = On(m)
      BY DEF On
    <3>2. Fine(c)' = Fine(c)
      BY DEF Fine, Eligible
    <3>3. QED
      BY <3>1, <3>2 DEF TypeOK, LoopInv, NextOK, ShapeOK, None
  <2>3. AtOK(c)'
    <3>1. \A m \in Comments : On(m)' = On(m)
      BY DEF On
    <3>2. Fine(c)' = Fine(c)
      BY DEF Fine, Eligible
    <3>3. QED
      BY <3>1, <3>2 DEF TypeOK, LoopInv, AtOK, ShapeOK, None
  <2>4. ShapeOK(c)'
    <3>1. todo'[c] \subseteq Comments
      BY <1>1 DEF TypeOK
    <3>2. loop'[c] = "repos" /\ next'[c] = next[c] /\ next[c] = None
      BY DEF TypeOK, LoopInv, ShapeOK
    <3>3. QED
      BY <3>1, <3>2 DEF ShapeOK, None
  <2>5. QED
    BY <2>1, <2>2, <2>3, <2>4
<1>6. LoopInv'
  BY <1>4, <1>5 DEF LoopInv
<1>7. QED
  BY <1>1, <1>2, <1>3, <1>6

LEMMA CommentsFailInv ==
    ASSUME PollerAssumption, IInv, NEW c \in Conns, NEW m \in Comments, CommentsFail(c, m)
    PROVE  IInv'
<1> USE DEF IInv, PollerAssumption, CommentsFail, Goto, connVars, userVars, storeVars,
            cycleVars, scanVars
<1>1. TypeOK'
  BY DEF TypeOK
<1>2. UserInv'
  BY DEF TypeOK, UserInv
<1>3. OnceInv'
  BY DEF OnceInv
<1>4. ASSUME NEW d \in Conns, d # c
      PROVE  CountsOK(d)' /\ NextOK(d)' /\ AtOK(d)' /\ ShapeOK(d)'
  BY <1>4, LoopIdle DEF TypeOK, On
<1>5. CountsOK(c)' /\ NextOK(c)' /\ AtOK(c)' /\ ShapeOK(c)'
  <2>1. CountsOK(c)'
    <3>1. \A n \in Comments : On(n)' = On(n)
      BY DEF On
    <3>2. Fine(c)' = Fine(c)
      BY DEF Fine, Eligible
    <3>3. QED
      BY <3>1, <3>2 DEF TypeOK, LoopInv, CountsOK, ShapeOK, None
  <2>2. NextOK(c)'
    <3>1. \A n \in Comments : On(n)' = On(n)
      BY DEF On
    <3>2. Fine(c)' = Fine(c)
      BY DEF Fine, Eligible
    <3>3. QED
      BY <3>1, <3>2 DEF TypeOK, LoopInv, NextOK, ShapeOK, None
  <2>3. AtOK(c)'
    <3>1. \A n \in Comments : On(n)' = On(n)
      BY DEF On
    <3>2. Fine(c)' = Fine(c)
      BY DEF Fine, Eligible
    <3>3. QED
      BY <3>1, <3>2 DEF TypeOK, LoopInv, AtOK, ShapeOK, None
  <2>4. ShapeOK(c)'
    BY DEF TypeOK, LoopInv, ShapeOK, None
  <2>5. QED
    BY <2>1, <2>2, <2>3, <2>4
<1>6. LoopInv'
  BY <1>4, <1>5 DEF LoopInv
<1>7. QED
  BY <1>1, <1>2, <1>3, <1>6

LEMMA ListFailsInv ==
    ASSUME PollerAssumption, IInv, NEW c \in Conns, ListFails(c)
    PROVE  IInv'
<1> USE DEF IInv, PollerAssumption, ListFails, Goto, connVars, userVars, storeVars,
            cycleVars, scanVars, Leave
<1>1. TypeOK'
  BY DEF TypeOK
<1>2. UserInv'
  BY DEF TypeOK, UserInv
<1>3. OnceInv'
  BY DEF OnceInv
<1>4. ASSUME NEW d \in Conns, d # c
      PROVE  CountsOK(d)' /\ NextOK(d)' /\ AtOK(d)' /\ ShapeOK(d)'
  BY <1>4, LoopIdle DEF TypeOK, On
<1>5. CountsOK(c)' /\ NextOK(c)' /\ AtOK(c)' /\ ShapeOK(c)'
  <2>1. CountsOK(c)'
    <3>1. \A m \in Comments : On(m)' = On(m)
      BY DEF On
    <3>2. Fine(c)' = Fine(c)
      BY DEF Fine, Eligible
    <3>3. QED
      BY <3>1, <3>2 DEF TypeOK, LoopInv, CountsOK, ShapeOK, None
  <2>2. NextOK(c)'
    <3>1. \A m \in Comments : On(m)' = On(m)
      BY DEF On
    <3>2. Fine(c)' = Fine(c)
      BY DEF Fine, Eligible
    <3>3. QED
      BY <3>1, <3>2 DEF TypeOK, LoopInv, NextOK, ShapeOK, None
  <2>3. AtOK(c)'
    <3>1. \A m \in Comments : On(m)' = On(m)
      BY DEF On
    <3>2. Fine(c)' = Fine(c)
      BY DEF Fine, Eligible
    <3>3. QED
      BY <3>1, <3>2 DEF TypeOK, LoopInv, AtOK, ShapeOK, None
  <2>4. ShapeOK(c)'
    BY DEF TypeOK, LoopInv, ShapeOK, None
  <2>5. QED
    BY <2>1, <2>2, <2>3, <2>4
<1>6. LoopInv'
  BY <1>4, <1>5 DEF LoopInv
<1>7. QED
  BY <1>1, <1>2, <1>3, <1>6

LEMMA CanceledInv ==
    ASSUME PollerAssumption, IInv, NEW c \in Conns, Canceled(c)
    PROVE  IInv'
<1> USE DEF IInv, PollerAssumption, Canceled, Goto, connVars, userVars, storeVars,
            cycleVars, scanVars, Exit, Leave
<1>1. TypeOK'
  <2>1. None \in [Comments -> Nat \cup {-1}]
    BY DEF None
  <2>2. QED
    BY <2>1 DEF TypeOK
<1>2. UserInv'
  BY DEF TypeOK, UserInv
<1>3. OnceInv'
  BY DEF OnceInv
<1>4. ASSUME NEW d \in Conns, d # c
      PROVE  CountsOK(d)' /\ NextOK(d)' /\ AtOK(d)' /\ ShapeOK(d)'
  BY <1>4, LoopIdle DEF TypeOK, On
<1>5. CountsOK(c)' /\ NextOK(c)' /\ AtOK(c)' /\ ShapeOK(c)'
  <2>1. CountsOK(c)'
    BY DEF TypeOK, LoopInv, CountsOK, ShapeOK, None
  <2>2. NextOK(c)'
    BY DEF TypeOK, LoopInv, NextOK, ShapeOK, None
  <2>3. AtOK(c)'
    BY DEF TypeOK, LoopInv, AtOK, ShapeOK, None
  <2>4. ShapeOK(c)'
    BY DEF TypeOK, LoopInv, ShapeOK, None
  <2>5. QED
    BY <2>1, <2>2, <2>3, <2>4
<1>6. LoopInv'
  BY <1>4, <1>5 DEF LoopInv
<1>7. QED
  BY <1>1, <1>2, <1>3, <1>6

LEMMA EndCycleInv ==
    ASSUME PollerAssumption, IInv, NEW c \in Conns, EndCycle(c)
    PROVE  IInv'
<1> USE DEF IInv, PollerAssumption, EndCycle, Goto, connVars, userVars, storeVars,
            cycleVars, scanVars
<1>1. TypeOK'
  <2>1. None \in [Comments -> Nat \cup {-1}]
    BY DEF None
  <2>2. (cycle[c] + 1) % RefreshCycles \in 0 .. RefreshCycles - 1
    BY DEF TypeOK
  <2>3. QED
    BY <2>1, <2>2 DEF TypeOK
<1>2. UserInv'
  BY DEF TypeOK, UserInv
<1>3. OnceInv'
  BY DEF OnceInv
<1>4. ASSUME NEW d \in Conns, d # c
      PROVE  CountsOK(d)' /\ NextOK(d)' /\ AtOK(d)' /\ ShapeOK(d)'
  BY <1>4, LoopIdle DEF TypeOK, On
<1>5. CountsOK(c)' /\ NextOK(c)' /\ AtOK(c)' /\ ShapeOK(c)'
  <2>1. CountsOK(c)'
    <3>1. \A m \in Comments : On(m)' = On(m)
      BY DEF On
    <3>2. Fine(c)' = Fine(c)
      BY DEF Fine, Eligible
    <3>3. QED
      BY <3>1, <3>2 DEF TypeOK, LoopInv, CountsOK, NextOK
  <2>2. NextOK(c)'
    BY DEF TypeOK, LoopInv, NextOK, ShapeOK, None
  <2>3. AtOK(c)'
    BY DEF TypeOK, LoopInv, AtOK, ShapeOK, None
  <2>4. ShapeOK(c)'
    BY DEF TypeOK, LoopInv, ShapeOK, None
  <2>5. QED
    BY <2>1, <2>2, <2>3, <2>4
<1>6. LoopInv'
  BY <1>4, <1>5 DEF LoopInv
<1>7. QED
  BY <1>1, <1>2, <1>3, <1>6

LEMMA ListReactionsInv ==
    ASSUME PollerAssumption, IInv, NEW c \in Conns, ListReactions(c)
    PROVE  IInv'
<1> USE DEF IInv, PollerAssumption, ListReactions, Goto, connVars, userVars, storeVars,
            cycleVars, scanVars
<1>1. TypeOK'
  <2>1. On(at[c]) \subseteq Reactions
    BY DEF On
  <2>2. QED
    BY <2>1 DEF TypeOK
<1>2. UserInv'
  <2>1. On(at[c]) \subseteq spent
    BY DEF UserInv, On, LoopInv, AtOK
  <2>2. QED
    BY <2>1 DEF TypeOK, UserInv
<1>3. OnceInv'
  BY DEF OnceInv
<1>4. ASSUME NEW d \in Conns, d # c
      PROVE  CountsOK(d)' /\ NextOK(d)' /\ AtOK(d)' /\ ShapeOK(d)'
  BY <1>4, LoopIdle DEF TypeOK, On
<1>5. CountsOK(c)' /\ NextOK(c)' /\ AtOK(c)' /\ ShapeOK(c)'
  <2>1. CountsOK(c)'
    <3>1. \A m \in Comments : On(m)' = On(m)
      BY DEF On
    <3>2. Fine(c)' = Fine(c)
      BY DEF Fine, Eligible
    <3>3. QED
      BY <3>1, <3>2 DEF TypeOK, LoopInv, CountsOK, ShapeOK, None
  <2>2. NextOK(c)'
    <3>1. \A m \in Comments : On(m)' = On(m)
      BY DEF On
    <3>2. Fine(c)' = Fine(c)
      BY DEF Fine, Eligible
    <3>3. QED
      BY <3>1, <3>2 DEF TypeOK, LoopInv, NextOK, ShapeOK, None
  <2>3. AtOK(c)'
    <3>1. On(at[c])' = On(at[c]) /\ batch'[c] = On(at[c])
      BY DEF On, TypeOK
    <3>2. at[c] \in Comments /\ removed' = removed /\ at' = at /\ sampled' = sampled /\ loop'[c] = "batch"
      BY DEF LoopInv, AtOK, TypeOK
    <3>3. at[c] \notin removed[c] => Covered(On(at[c]), sampled[c], Fine(c)' \cup On(at[c]))
      BY CoveredWider DEF LoopInv, AtOK
    <3>4. at[c] \notin todo[c] /\ todo' = todo
      BY DEF LoopInv, AtOK
    <3>5. (at[c] \in Comments \ todo[c])' /\ (loop[c] # "list")'
      BY <3>2, <3>4
    <3>6. (at[c] \notin removed[c] => Covered(On(at[c]), sampled[c], Fine(c) \cup batch[c]))'
      BY <3>1, <3>2, <3>3
    <3>7. QED
      BY <3>5, <3>6 DEF AtOK
  <2>4. ShapeOK(c)'
    BY DEF TypeOK, LoopInv, ShapeOK, None
  <2>5. QED
    BY <2>1, <2>2, <2>3, <2>4
<1>6. LoopInv'
  BY <1>4, <1>5 DEF LoopInv
<1>7. QED
  BY <1>1, <1>2, <1>3, <1>6

LEMMA DispatchReactionInv ==
    ASSUME PollerAssumption, IInv, NEW c \in Conns, NEW r \in Reactions, DispatchReaction(c, r)
    PROVE  IInv'
<1> USE DEF IInv, PollerAssumption, DispatchReaction, Goto, connVars, userVars, storeVars,
            cycleVars, scanVars
<1>1. TypeOK'
  <2>1. batch' \in [Conns -> SUBSET Reactions] /\ UNCHANGED <<connVars, userVars, loop, cycleVars, todo, next, at, sampled>>
    BY DEF TypeOK
  <2>2. seen' \subseteq spent \ BotReactions
    BY DEF TypeOK, UserInv, Eligible
  <2>3. runs' \in [Reactions -> Nat]
    <3>1. runs[r] + 1 \in Nat
      BY DEF TypeOK
    <3>2. runs' = runs \/ runs' = [runs EXCEPT ![r] = runs[r] + 1]
      BY DEF TypeOK
    <3>3. QED
      BY <3>1, <3>2 DEF TypeOK
  <2>4. QED
    BY <2>1, <2>2, <2>3 DEF TypeOK
<1>2. UserInv'
  BY DEF TypeOK, UserInv
<1>3. OnceInv'
  <2>1. CASE Eligible(c, r) /\ r \notin seen
    <3>1. runs'[r] = 1 /\ \A q \in Reactions \ {r} : runs'[q] = runs[q]
      BY <2>1 DEF OnceInv, TypeOK
    <3>2. seen' = seen \cup {r}
      BY <2>1
    <3>3. QED
      BY <3>1, <3>2 DEF OnceInv
  <2>2. CASE ~(Eligible(c, r) /\ r \notin seen)
    BY <2>2 DEF OnceInv
  <2>3. QED
    BY <2>1, <2>2
<1>4. ASSUME NEW d \in Conns, d # c
      PROVE  CountsOK(d)' /\ NextOK(d)' /\ AtOK(d)' /\ ShapeOK(d)'
  BY <1>4, LoopIdle DEF TypeOK, On
<1>5. CountsOK(c)' /\ NextOK(c)' /\ AtOK(c)' /\ ShapeOK(c)'
  <2>1. CountsOK(c)'
    <3>1. \A m \in Comments : On(m)' = On(m)
      BY DEF On
    <3>2. Fine(c) \subseteq Fine(c)'
      BY DEF Fine, Eligible
    <3>3. QED
      BY <3>1, <3>2, CoveredGrows DEF TypeOK, LoopInv, CountsOK
  <2>2. NextOK(c)'
    <3>1. \A m \in Comments : On(m)' = On(m)
      BY DEF On
    <3>2. Fine(c) \subseteq Fine(c)'
      BY DEF Fine, Eligible
    <3>3. QED
      BY <3>1, <3>2, CoveredGrows DEF TypeOK, LoopInv, NextOK
  <2>3. AtOK(c)'
    <3>1. \A m \in Comments : On(m)' = On(m)
      BY DEF On
    <3>2. Fine(c) \cup batch[c] \subseteq Fine(c)' \cup batch'[c]
      BY DEF Fine, Eligible, TypeOK
    <3>3. ASSUME at[c] \notin removed[c]
          PROVE  Covered(On(at[c]), sampled[c], Fine(c)' \cup batch'[c])
      <4>1. Covered(On(at[c]), sampled[c], Fine(c) \cup batch[c])
        BY <3>3 DEF LoopInv, AtOK
      <4>2. QED
        BY <3>2, <4>1, CoveredGrows
    <3>4. loop' = loop /\ at' = at /\ sampled' = sampled /\ removed' = removed /\ todo' = todo
      OBVIOUS
    <3>5. at[c] \in Comments \ todo[c] /\ On(at[c])' = On(at[c])
      BY <3>1, <3>4 DEF LoopInv, AtOK
    <3>6. QED
      BY <3>3, <3>4, <3>5 DEF AtOK
  <2>4. ShapeOK(c)'
    BY DEF TypeOK, LoopInv, ShapeOK, None
  <2>5. QED
    BY <2>1, <2>2, <2>3, <2>4
<1>6. LoopInv'
  BY <1>4, <1>5 DEF LoopInv
<1>7. QED
  BY <1>1, <1>2, <1>3, <1>6

LEMMA CommentDoneInv ==
    ASSUME PollerAssumption, IInv, NEW c \in Conns, CommentDone(c)
    PROVE  IInv'
<1> USE DEF IInv, PollerAssumption, CommentDone, Goto, connVars, userVars, storeVars,
            cycleVars, scanVars, Leave
<1>1. TypeOK'
  BY DEF TypeOK, LoopInv, AtOK
<1>2. UserInv'
  BY DEF TypeOK, UserInv
<1>3. OnceInv'
  BY DEF OnceInv
<1>4. ASSUME NEW d \in Conns, d # c
      PROVE  CountsOK(d)' /\ NextOK(d)' /\ AtOK(d)' /\ ShapeOK(d)'
  BY <1>4, LoopIdle DEF TypeOK, On
<1>5. CountsOK(c)' /\ NextOK(c)' /\ AtOK(c)' /\ ShapeOK(c)'
  <2>1. CountsOK(c)'
    <3>1. \A m \in Comments : On(m)' = On(m)
      BY DEF On
    <3>2. Fine(c)' = Fine(c)
      BY DEF Fine, Eligible
    <3>3. QED
      BY <3>1, <3>2 DEF TypeOK, LoopInv, CountsOK, ShapeOK, None
  <2>2. NextOK(c)'
    <3>1. \A m \in Comments : On(m)' = On(m)
      BY DEF On
    <3>2. Fine(c)' = Fine(c)
      BY DEF Fine, Eligible
    <3>3. at[c] \in Comments \ removed[c] => Covered(On(at[c]), sampled[c], Fine(c))
      BY CoveredGrows DEF LoopInv, AtOK
    <3>4. QED
      BY <3>1, <3>2, <3>3 DEF TypeOK, LoopInv, NextOK
  <2>3. AtOK(c)'
    BY DEF TypeOK, LoopInv, AtOK
  <2>4. ShapeOK(c)'
    BY DEF TypeOK, LoopInv, AtOK, ShapeOK, None
  <2>5. QED
    BY <2>1, <2>2, <2>3, <2>4
<1>6. LoopInv'
  BY <1>4, <1>5 DEF LoopInv
<1>7. QED
  BY <1>1, <1>2, <1>3, <1>6

(* A comment is counted: it keeps its cached count, or its mark is taken away and *)
(* all that is on it is yet to be listed.                                       *)
LEMMA ListCommentsInv ==
    ASSUME PollerAssumption, IInv, NEW c \in Conns, NEW m \in Comments, ListComments(c, m)
    PROVE  IInv'
<1> USE DEF IInv, PollerAssumption, Goto, connVars, userVars, storeVars, cycleVars, scanVars
<1> DEFINE n == Cardinality(On(m))
<1>1. n \in Nat
  BY OnFinite
<1>2. /\ loop[c] = "repos" /\ m \in todo[c]
      /\ todo' = [todo EXCEPT ![c] = @ \ {m}]
      /\ UNCHANGED <<connVars, on, spent, cycleVars, batch, storeVars>>
  BY DEF ListComments
<1>3. \/ /\ n \in {0, counts[c][m]}
         /\ next' = [next EXCEPT ![c][m] = n]
         /\ UNCHANGED <<loop, at, sampled, removed>>
      \/ /\ loop' = [loop EXCEPT ![c] = "list"]
         /\ at' = [at EXCEPT ![c] = m]
         /\ sampled' = [sampled EXCEPT ![c] = n]
         /\ removed' = [removed EXCEPT ![c] = @ \ {m}]
         /\ UNCHANGED next
  BY DEF ListComments
<1> HIDE DEF n
<1>4. TypeOK'
  <2>1. todo' \in [Conns -> SUBSET Comments]
    BY <1>2 DEF TypeOK
  <2>2. next' \in [Conns -> [Comments -> Nat \cup {-1}]]
    <3>1. CASE UNCHANGED next
      BY <3>1 DEF TypeOK
    <3>2. CASE next' = [next EXCEPT ![c][m] = n]
      <4>1. [next[c] EXCEPT ![m] = n] \in [Comments -> Nat \cup {-1}]
        BY <1>1 DEF TypeOK
      <4>2. next' = [next EXCEPT ![c] = [next[c] EXCEPT ![m] = n]]
        BY <3>2 DEF TypeOK
      <4>3. QED
        BY <4>1, <4>2 DEF TypeOK
    <3>3. QED
      BY <1>3, <3>1, <3>2
  <2>3. /\ loop' \in [Conns -> {"off", "cycle", "repos", "list", "batch", "sleep", "over"}]
        /\ at' \in [Conns -> Comments \cup {NoComment}]
        /\ sampled' \in [Conns -> Nat]
        /\ removed' \in [Conns -> SUBSET Comments]
    <3>1. CASE UNCHANGED <<loop, at, sampled, removed>>
      BY <3>1 DEF TypeOK
    <3>2. CASE /\ loop' = [loop EXCEPT ![c] = "list"]
               /\ at' = [at EXCEPT ![c] = m]
               /\ sampled' = [sampled EXCEPT ![c] = n]
               /\ removed' = [removed EXCEPT ![c] = @ \ {m}]
      BY <1>1, <3>2 DEF TypeOK
    <3>3. QED
      BY <1>3, <3>1, <3>2
  <2>4. QED
    BY <1>2, <2>1, <2>2, <2>3 DEF TypeOK
<1>5. UserInv' /\ OnceInv'
  BY <1>2 DEF UserInv, OnceInv
<1>6. ASSUME NEW d \in Conns, d # c
      PROVE  CountsOK(d)' /\ NextOK(d)' /\ AtOK(d)' /\ ShapeOK(d)'
  BY <1>2, <1>3, <1>6, LoopIdle DEF TypeOK, On
<1>7. (\A k \in Comments : On(k)' = On(k)) /\ Fine(c)' = Fine(c)
  BY <1>2 DEF On, Fine, Eligible
<1>8. CountsOK(c)'
  BY <1>2, <1>3, <1>7 DEF TypeOK, LoopInv, CountsOK
<1>9. NextOK(c)'
  <2>1. n = 0 => Covered(On(m), n, Fine(c))
    BY CoveredNone
  <2>2. n = counts[c][m] /\ m \notin removed[c] => Covered(On(m), n, Fine(c))
    BY <1>1, <1>2 DEF LoopInv, CountsOK
  <2>3. next[c][m] = -1
    BY <1>2 DEF LoopInv, ShapeOK
  <2>4. ASSUME NEW k \in Comments \ removed'[c], next'[c][k] # -1
        PROVE  Covered(On(k), next'[c][k], Fine(c))
    <3>1. k \notin removed[c] \/ k = m
      BY <1>3, <2>4 DEF TypeOK
    <3>2. CASE k # m
      <4>1. next'[c][k] = next[c][k]
        BY <1>3, <3>2 DEF TypeOK
      <4>2. QED
        BY <2>4, <3>1, <3>2, <4>1 DEF LoopInv, NextOK
    <3>3. CASE k = m
      <4>1. next'[c][m] = n /\ n \in {0, counts[c][m]} /\ m \notin removed[c]
        BY <1>3, <2>3, <2>4, <3>3 DEF TypeOK
      <4>2. QED
        BY <2>1, <2>2, <3>3, <4>1
    <3>4. QED
      BY <3>2, <3>3
  <2>5. QED
    BY <1>7, <2>4 DEF NextOK
<1>10. AtOK(c)'
  <2>1. Covered(On(m), n, On(m))
    BY CoveredAll DEF n
  <2>2. QED
    BY <1>2, <1>3, <1>7, <2>1 DEF TypeOK, LoopInv, AtOK
<1>11. ShapeOK(c)'
  BY <1>2, <1>3 DEF TypeOK, LoopInv, ShapeOK, None
<1>12. LoopInv'
  BY <1>6, <1>8, <1>9, <1>10, <1>11 DEF LoopInv
<1>13. QED
  BY <1>4, <1>5, <1>12
-----------------------------------------------------------------------------
(* Every step keeps IInv.                                                       *)
LEMMA StepInv ==
    ASSUME PollerAssumption, IInv, [Next]_vars
    PROVE  IInv'
<1>1. ASSUME NEW r \in Reactions, NEW m \in Comments, Add(r, m) \/ Remove(r)
      PROVE  IInv'
  BY <1>1, AddInv, RemoveInv
<1>2. CASE Cancel \/ DisconnectEnd
  BY <1>2, CancelInv, DisconnectEndInv
<1>3. ASSUME NEW c \in Conns, Connect(c) \/ LoopStep(c)
      PROVE  IInv'
  BY <1>3, ConnectInv, BeginCycleInv, EndCycleInv, WakeInv, CanceledInv, ListReactionsInv,
     ListFailsInv, CommentDoneInv, DispatchReactionInv, ListCommentsInv, CommentsFailInv DEF LoopStep
<1>4. CASE UNCHANGED vars
  <2> USE <1>4 DEF IInv, vars, connVars, userVars, storeVars, cycleVars, scanVars
  <2>1. TypeOK' /\ UserInv' /\ OnceInv'
    BY DEF TypeOK, UserInv, OnceInv
  <2>2. ASSUME NEW c \in Conns
        PROVE  CountsOK(c)' /\ NextOK(c)' /\ AtOK(c)' /\ ShapeOK(c)'
    BY LoopIdle DEF On
  <2>3. QED
    BY <2>1, <2>2 DEF LoopInv
<1>5. ASSUME NEW r \in Reactions, Remove(r)
      PROVE  IInv'
  BY <1>5, RemoveInv
<1>6. QED
  BY <1>1, <1>2, <1>3, <1>4, <1>5 DEF Next

(* A comment whose count is the cached one hides no reaction that is the loop's *)
(* to handle: as many reactions as it has were looked at, and these are all.    *)
LEMMA MissedInv ==
    ASSUME PollerAssumption, IInv
    PROVE  MissedOnlyByRemoval
<1> SUFFICES ASSUME NEW c \in Conns, NEW m \in Comments \ removed[c],
                    loop[c] = "sleep", counts[c][m] = Cardinality(On(m)),
                    NEW r \in On(m), Eligible(c, r)
    PROVE  r \in seen
  BY DEF MissedOnlyByRemoval
<1>1. IsFiniteSet(On(m)) /\ Cardinality(On(m)) \in Nat
  BY OnFinite DEF IInv, PollerAssumption
<1>2. Covered(On(m), Cardinality(On(m)), Fine(c))
  BY <1>1 DEF IInv, LoopInv, CountsOK
<1>3. On(m) \subseteq Fine(c)
  BY <1>1, <1>2, CoveredWhole
<1>4. QED
  BY <1>3 DEF Fine
-----------------------------------------------------------------------------
(* The theorems                                                                *)

(* IInv holds initially and is kept by every step, so it holds always.          *)
THEOREM Invariance ==
    ASSUME PollerAssumption
    PROVE  Spec => []IInv
<1>1. Init => IInv
  BY InitInv
<1>2. IInv /\ [Next]_vars => IInv'
  BY StepInv
<1>3. QED
  BY <1>1, <1>2, PTL DEF Spec

(* Every variable keeps its type.                                               *)
THEOREM TypeCorrect ==
    ASSUME PollerAssumption
    PROVE  Spec => []TypeOK
<1>1. IInv => TypeOK
  BY DEF IInv
<1>2. QED
  BY <1>1, Invariance, PTL

(* Each reaction is handled at most once, in all cycles of all connections.     *)
THEOREM ReactionsOnce ==
    ASSUME PollerAssumption
    PROVE  Spec => []DispatchedOnce
<1>1. IInv => DispatchedOnce
  BY DEF IInv, OnceInv, DispatchedOnce
<1>2. QED
  BY <1>1, Invariance, PTL

(* A comment skipped for its count hides no reaction that is the loop's to      *)
(* handle, unless the comment lost one since it was counted.                    *)
THEOREM NothingElseMissed ==
    ASSUME PollerAssumption
    PROVE  Spec => []MissedOnlyByRemoval
<1>1. IInv => MissedOnlyByRemoval
  BY MissedInv
<1>2. QED
  BY <1>1, Invariance, PTL
=============================================================================
