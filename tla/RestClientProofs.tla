-------------------------- MODULE RestClientProofs --------------------------
(* Theorems about RestClient. *)
EXTENDS RestClient, FiniteSetTheorems, TLAPS

USE CallsAssumption, EndpointsAssumption, LimitsAssumption, AttemptsAssumption

-----------------------------------------------------------------------------
(* Counting the calls at a place *)

\* Two finite sets that differ in one element at most.
LEMMA CountMove ==
    ASSUME NEW F, IsFiniteSet(F), NEW G, NEW c, \A x : x # c => (x \in F <=> x \in G)
    PROVE  /\ Cardinality(F) \in Nat
           /\ Cardinality(G) \in Nat
           /\ Cardinality(G) = Cardinality(F) + (IF c \in G THEN 1 ELSE 0)
                                              - (IF c \in F THEN 1 ELSE 0)
<1>1. CASE c \in G
  <2>1. G = F \cup {c}
    BY <1>1
  <2>2. /\ IsFiniteSet(G)
        /\ Cardinality(G) = IF c \in F THEN Cardinality(F) ELSE Cardinality(F) + 1
    BY <2>1, FS_AddElement
  <2>3. Cardinality(F) \in Nat /\ Cardinality(G) \in Nat
    BY <2>2, FS_CardinalityType
  <2>4. QED
    BY <1>1, <2>2, <2>3
<1>2. CASE c \notin G
  <2>1. G = F \ {c}
    BY <1>2
  <2>2. /\ IsFiniteSet(G)
        /\ Cardinality(G) = IF c \in F THEN Cardinality(F) - 1 ELSE Cardinality(F)
    BY <2>1, FS_RemoveElement
  <2>3. Cardinality(F) \in Nat /\ Cardinality(G) \in Nat
    BY <2>2, FS_CardinalityType
  <2>4. QED
    BY <1>2, <2>2, <2>3
<1>3. QED
  BY <1>1, <1>2

\* The places of a call.
Places == {"idle", "globalWait", "backoff"} \union HoldsGlobal \union Returned

\* What the three counts become when call c goes to w.
LEMMA MoveCounts ==
    ASSUME pc \in [Calls -> Places], NEW c \in Calls, NEW w \in Places, Go(c, w)
    PROVE  /\ Cardinality(GlobalHolders) \in Nat
           /\ Cardinality(GlobalWaiters) \in Nat
           /\ Cardinality(GlobalHolders)' = Cardinality(GlobalHolders)
                + (IF w \in HoldsGlobal THEN 1 ELSE 0)
                - (IF pc[c] \in HoldsGlobal THEN 1 ELSE 0)
           /\ Cardinality(GlobalWaiters)' = Cardinality(GlobalWaiters)
                + (IF w = "globalWait" THEN 1 ELSE 0)
                - (IF pc[c] = "globalWait" THEN 1 ELSE 0)
           /\ \A e \in Listed :
                /\ Cardinality(EndpointHolders(e)) \in Nat
                /\ Cardinality(EndpointHolders(e))' = Cardinality(EndpointHolders(e))
                     + (IF e = EndpointOf[c] /\ w \in HoldsEndpoint THEN 1 ELSE 0)
                     - (IF e = EndpointOf[c] /\ pc[c] \in HoldsEndpoint THEN 1 ELSE 0)
<1>1. pc'[c] = w /\ \A x \in Calls \ {c} : pc'[x] = pc[x]
  BY DEF Go
<1>2. /\ Cardinality(GlobalHolders) \in Nat
      /\ Cardinality(GlobalHolders)' = Cardinality(GlobalHolders)
           + (IF w \in HoldsGlobal THEN 1 ELSE 0) - (IF pc[c] \in HoldsGlobal THEN 1 ELSE 0)
  <2>1. IsFiniteSet(GlobalHolders)
    BY FS_Subset DEF GlobalHolders
  <2>2. \A x : x # c => (x \in GlobalHolders <=> x \in GlobalHolders')
    BY <1>1 DEF GlobalHolders
  <2>3. /\ c \in GlobalHolders' <=> w \in HoldsGlobal
        /\ c \in GlobalHolders <=> pc[c] \in HoldsGlobal
    BY <1>1 DEF GlobalHolders
  <2>4. QED
    BY <2>1, <2>2, <2>3, CountMove
<1>3. /\ Cardinality(GlobalWaiters) \in Nat
      /\ Cardinality(GlobalWaiters)' = Cardinality(GlobalWaiters)
           + (IF w = "globalWait" THEN 1 ELSE 0) - (IF pc[c] = "globalWait" THEN 1 ELSE 0)
  <2>1. IsFiniteSet(GlobalWaiters)
    BY FS_Subset DEF GlobalWaiters
  <2>2. \A x : x # c => (x \in GlobalWaiters <=> x \in GlobalWaiters')
    BY <1>1 DEF GlobalWaiters
  <2>3. /\ c \in GlobalWaiters' <=> w = "globalWait"
        /\ c \in GlobalWaiters <=> pc[c] = "globalWait"
    BY <1>1 DEF GlobalWaiters
  <2>4. QED
    BY <2>1, <2>2, <2>3, CountMove
<1>4. ASSUME NEW e \in Listed
      PROVE  /\ Cardinality(EndpointHolders(e)) \in Nat
             /\ Cardinality(EndpointHolders(e))' = Cardinality(EndpointHolders(e))
                  + (IF e = EndpointOf[c] /\ w \in HoldsEndpoint THEN 1 ELSE 0)
                  - (IF e = EndpointOf[c] /\ pc[c] \in HoldsEndpoint THEN 1 ELSE 0)
  <2>1. IsFiniteSet(EndpointHolders(e))
    BY FS_Subset DEF EndpointHolders
  <2>2. \A x : x # c => (x \in EndpointHolders(e) <=> x \in EndpointHolders(e)')
    BY <1>1 DEF EndpointHolders
  <2>3. /\ c \in EndpointHolders(e)' <=> e = EndpointOf[c] /\ w \in HoldsEndpoint
        /\ c \in EndpointHolders(e) <=> e = EndpointOf[c] /\ pc[c] \in HoldsEndpoint
    BY <1>1 DEF EndpointHolders
  <2>4. QED
    BY <2>1, <2>2, <2>3, CountMove
<1>5. QED
  BY <1>2, <1>3, <1>4

-----------------------------------------------------------------------------
(* Types *)

\* The bounds of the endpoints' permits follow from the accounting, not from
\* the single steps.
Types ==
    /\ pc \in [Calls -> Places]
    /\ outer \in [Calls -> 1..MaxAttempts]
    /\ inner \in [Calls -> 1..MaxAttempts]
    /\ free \in Nat
    /\ epFree \in [Listed -> Nat]
    /\ leaked \in [Listed -> Nat]
    /\ shutdown \in BOOLEAN
    /\ cancels \in 0..MaxCancels

EffectTypes ==
    /\ executed \in [Placements -> Nat]
    /\ late \in [Placements -> Nat]
    /\ uncertain \in [Placements -> Nat]

\* Only the calls of a listed endpoint wait for its permit.
ListedWait ==
    \A c \in Calls : pc[c] \in {"endpointWait", "endpointDelay"} => EndpointOf[c] \in Listed

TypeInv == Types /\ EffectTypes /\ ListedWait

LEMMA TypeInit ==
    ASSUME Init
    PROVE  TypeInv
<1>1. Types
  <2>1. pc \in [Calls -> Places]
    BY DEF Init, Places
  <2>2. outer \in [Calls -> 1..MaxAttempts] /\ inner \in [Calls -> 1..MaxAttempts]
    BY DEF Init
  <2>3. free \in Nat /\ epFree \in [Listed -> Nat] /\ leaked \in [Listed -> Nat]
    BY DEF Init
  <2>4. shutdown \in BOOLEAN /\ cancels \in 0..MaxCancels
    <3>1. shutdown = FALSE /\ cancels = 0
      BY DEF Init
    <3>2. 0 \in 0..MaxCancels
      OBVIOUS
    <3>3. QED
      BY <3>1, <3>2
  <2>5. QED
    BY <2>1, <2>2, <2>3, <2>4 DEF Types
<1>2. EffectTypes
  BY DEF Init, EffectTypes
<1>3. ListedWait
  BY DEF Init, ListedWait
<1>4. QED
  BY <1>1, <1>2, <1>3 DEF TypeInv

\* Releasing the permits and counting doubts keep the types.
LEMMA ReleaseTypes ==
    ASSUME TypeInv, NEW c \in Calls, ReleasePermit(c)
    PROVE  free' \in Nat /\ epFree' \in [Listed -> Nat]
BY DEF TypeInv, Types, ReleasePermit

LEMMA CountTypes ==
    ASSUME NEW f \in [Placements -> Nat], NEW c
    PROVE  Count(f, c) \in [Placements -> Nat]
BY DEF Count

LEMMA DoubtTypes ==
    ASSUME TypeInv, NEW c, Doubt(c)
    PROVE  EffectTypes'
<1>1. late' \in [Placements -> Nat] /\ uncertain' \in [Placements -> Nat]
  BY CountTypes DEF TypeInv, EffectTypes, Doubt
<1>2. QED
  BY <1>1 DEF TypeInv, EffectTypes, Doubt

LEMMA ReturnTypes ==
    ASSUME TypeInv, NEW c \in Calls, NEW w \in Returned, Return(c, w)
    PROVE  /\ pc' \in [Calls -> Places]
           /\ outer' \in [Calls -> 1..MaxAttempts]
           /\ inner' \in [Calls -> 1..MaxAttempts]
           /\ ListedWait'
<1>1. pc' \in [Calls -> Places] /\ ListedWait'
  BY DEF TypeInv, Types, ListedWait, Return, Go, Returned, Places
<1>2. outer' \in [Calls -> 1..MaxAttempts] /\ inner' \in [Calls -> 1..MaxAttempts]
  BY DEF TypeInv, Types, Return
<1>3. QED
  BY <1>1, <1>2

LEMMA FailTypes ==
    ASSUME TypeInv, NEW c \in Calls, NEW error \in Errors, FailSend(c, error)
    PROVE  /\ free' \in Nat /\ epFree' \in [Listed -> Nat] /\ leaked' \in [Listed -> Nat]
           /\ shutdown' \in BOOLEAN /\ cancels' \in 0..MaxCancels
           /\ EffectTypes'
<1>1. free' \in Nat /\ epFree' \in [Listed -> Nat]
  BY ReleaseTypes DEF FailSend
<1>2. EffectTypes'
  BY DoubtTypes DEF FailSend, TypeInv, EffectTypes, effects
<1>3. leaked' \in [Listed -> Nat] /\ shutdown' \in BOOLEAN /\ cancels' \in 0..MaxCancels
  BY DEF FailSend, TypeInv, Types
<1>4. QED
  BY <1>1, <1>2, <1>3

LEMMA TypeStep ==
    ASSUME TypeInv, [Next]_vars
    PROVE  TypeInv'
<1>1. ASSUME NEW c \in Calls, Permit(c)
      PROVE  TypeInv'
  <2>1. CASE AskPermit(c)
    BY <2>1 DEF TypeInv, Types, EffectTypes, ListedWait, Places, AskPermit, Go, attempt, effects
  <2>2. CASE RejectPermit(c)
    <3>1. pc' \in [Calls -> Places] /\ ListedWait' /\ outer' \in [Calls -> 1..MaxAttempts]
            /\ inner' \in [Calls -> 1..MaxAttempts]
      BY <2>2, ReturnTypes DEF RejectPermit, Returned
    <3>2. QED
      BY <2>2, <3>1 DEF RejectPermit, TypeInv, Types, EffectTypes, effects
  <2>3. CASE AcquireGlobal(c)
    BY <2>3 DEF TypeInv, Types, EffectTypes, ListedWait, Places, HoldsGlobal, AcquireGlobal, Go,
                attempt, effects
  <2>4. CASE GlobalDelayEnds(c)
    BY <2>4 DEF TypeInv, Types, EffectTypes, ListedWait, Places, HoldsGlobal, GlobalDelayEnds, Go,
                attempt, effects
  <2>5. CASE AcquireEndpoint(c)
    BY <2>5 DEF TypeInv, Types, EffectTypes, ListedWait, Places, HoldsGlobal, AcquireEndpoint, Go,
                attempt, effects
  <2>6. CASE EndpointDelayEnds(c)
    BY <2>6 DEF TypeInv, Types, EffectTypes, ListedWait, Places, HoldsGlobal, EndpointDelayEnds, Go,
                attempt, effects
  <2>7. QED
    BY <1>1, <2>1, <2>2, <2>3, <2>4, <2>5, <2>6 DEF Permit
<1>2. ASSUME NEW c \in Calls, Succeed(c)
      PROVE  TypeInv'
  <2>1. free' \in Nat /\ epFree' \in [Listed -> Nat]
    BY <1>2, ReleaseTypes DEF Succeed
  <2>2. pc' \in [Calls -> Places] /\ ListedWait' /\ outer' \in [Calls -> 1..MaxAttempts]
          /\ inner' \in [Calls -> 1..MaxAttempts]
    BY <1>2, ReturnTypes DEF Succeed, Returned
  <2>3. executed' \in [Placements -> Nat]
    BY <1>2, CountTypes DEF Succeed, TypeInv, EffectTypes
  <2>4. QED
    BY <1>2, <2>1, <2>2, <2>3 DEF Succeed, TypeInv, Types, EffectTypes
<1>3. ASSUME NEW c \in Calls, NEW error \in Errors, Fail(c, error)
      PROVE  TypeInv'
  <2>1. /\ free' \in Nat /\ epFree' \in [Listed -> Nat] /\ leaked' \in [Listed -> Nat]
        /\ shutdown' \in BOOLEAN /\ cancels' \in 0..MaxCancels
        /\ EffectTypes'
    BY <1>3, FailTypes DEF Fail, RepeatInside, RepeatOutside, GiveUp
  <2>2. CASE RepeatInside(c, error)
    <3>1. pc' \in [Calls -> Places] /\ ListedWait'
      BY <2>2 DEF RepeatInside, Go, TypeInv, Types, ListedWait, Places
    <3>2. inner' \in [Calls -> 1..MaxAttempts] /\ outer' \in [Calls -> 1..MaxAttempts]
      BY <2>2 DEF RepeatInside, CanRepeatInside, TypeInv, Types
    <3>3. QED
      BY <2>1, <3>1, <3>2 DEF TypeInv, Types
  <2>3. CASE RepeatOutside(c, error)
    <3>1. pc' \in [Calls -> Places] /\ ListedWait'
      BY <2>3 DEF RepeatOutside, Go, TypeInv, Types, ListedWait, Places
    <3>2. inner' \in [Calls -> 1..MaxAttempts] /\ outer' \in [Calls -> 1..MaxAttempts]
      BY <2>3 DEF RepeatOutside, CanRepeatOutside, TypeInv, Types
    <3>3. QED
      BY <2>1, <3>1, <3>2 DEF TypeInv, Types
  <2>4. CASE GiveUp(c, error)
    <3>1. pc' \in [Calls -> Places] /\ ListedWait' /\ outer' \in [Calls -> 1..MaxAttempts]
            /\ inner' \in [Calls -> 1..MaxAttempts]
      BY <2>4, ReturnTypes DEF GiveUp, Returned
    <3>2. QED
      BY <2>1, <3>1 DEF TypeInv, Types
  <2>5. QED
    BY <1>3, <2>2, <2>3, <2>4 DEF Fail
<1>4. ASSUME NEW c \in Calls, Cancel(c)
      PROVE  TypeInv'
  <2>1. \E where \in Places : CancelAt(c, where)
    BY <1>4 DEF Cancel, CancelWaiting, CancelInPermit, CancelInEndpointDelay, CancelSent,
                Places, HoldsGlobal
  <2>2. /\ pc' \in [Calls -> Places] /\ ListedWait' /\ outer' \in [Calls -> 1..MaxAttempts]
        /\ inner' \in [Calls -> 1..MaxAttempts]
    <3>1. "cancelled" \in Returned /\ Return(c, "cancelled")
      BY <2>1 DEF CancelAt, Returned
    <3>2. QED
      BY <3>1, ReturnTypes
  <2>3. shutdown' \in BOOLEAN /\ cancels' \in 0..MaxCancels
    BY <2>1 DEF CancelAt, TypeInv, Types
  <2>4. CASE CancelWaiting(c)
    BY <2>2, <2>3, <2>4 DEF CancelWaiting, TypeInv, Types, EffectTypes, effects
  <2>5. CASE CancelInPermit(c)
    BY <2>2, <2>3, <2>5 DEF CancelInPermit, TypeInv, Types, EffectTypes, effects
  <2>6. CASE CancelInEndpointDelay(c)
    <3>1. leaked' \in [Listed -> Nat]
      <4>1. pc[c] = "endpointDelay"
        BY <2>6 DEF CancelInEndpointDelay, CancelAt
      <4>2. EndpointOf[c] \in Listed /\ leaked \in [Listed -> Nat]
        BY <4>1 DEF TypeInv, Types, ListedWait
      <4>3. QED
        BY <2>6, <4>2 DEF CancelInEndpointDelay
    <3>2. QED
      BY <2>2, <2>3, <2>6, <3>1 DEF CancelInEndpointDelay, TypeInv, Types, EffectTypes, effects
  <2>7. CASE CancelSent(c)
    <3>1. free' \in Nat /\ epFree' \in [Listed -> Nat]
      BY <2>7, ReleaseTypes DEF CancelSent
    <3>2. EffectTypes'
      BY <2>7, DoubtTypes DEF CancelSent
    <3>3. QED
      BY <2>2, <2>3, <2>7, <3>1, <3>2 DEF CancelSent, TypeInv, Types
  <2>8. QED
    BY <1>4, <2>4, <2>5, <2>6, <2>7 DEF Cancel
<1>5. ASSUME NEW p \in Placements, ExecuteLate(p)
      PROVE  TypeInv'
  <2>1. late' \in [Placements -> Nat] /\ executed' \in [Placements -> Nat]
    BY <1>5 DEF ExecuteLate, TypeInv, EffectTypes
  <2>2. QED
    BY <1>5, <2>1 DEF ExecuteLate, TypeInv, Types, EffectTypes, ListedWait, attempt
<1>6. ASSUME Close
      PROVE  TypeInv'
  <2>1. Cardinality(GlobalWaiters) \in Nat
    BY FS_Subset, FS_CardinalityType DEF GlobalWaiters
  <2>2. QED
    BY <1>6, <2>1 DEF Close, TypeInv, Types, EffectTypes, ListedWait, attempt, effects
<1>7. ASSUME UNCHANGED vars
      PROVE  TypeInv'
  BY <1>7 DEF vars, attempt, effects, TypeInv, Types, EffectTypes, ListedWait
<1>8. QED
  BY <1>1, <1>2, <1>3, <1>4, <1>5, <1>6, <1>7 DEF Next, Answer

-----------------------------------------------------------------------------
(* Permits *)

PermitInv == TypeInv /\ PermitsAccounted /\ CloseServesWaiters

\* A call that ends a send returns both permits, wherever it goes.
LEMMA SendEnds ==
    ASSUME PermitInv, NEW c \in Calls, pc[c] = "sent",
           NEW w \in {"backoff"} \union Returned, Go(c, w),
           ReleasePermit(c), UNCHANGED <<leaked, shutdown>>
    PROVE  PermitsAccounted' /\ CloseServesWaiters'
<1>1. /\ w \in Places /\ w \notin HoldsGlobal /\ w \notin HoldsEndpoint /\ w # "globalWait"
      /\ pc[c] \in HoldsGlobal /\ pc[c] \in HoldsEndpoint /\ pc[c] # "globalWait"
  BY DEF Places, HoldsGlobal, HoldsEndpoint, Returned
<1>2. /\ Cardinality(GlobalHolders) \in Nat
      /\ Cardinality(GlobalWaiters) \in Nat
      /\ Cardinality(GlobalHolders)' = Cardinality(GlobalHolders) - 1
      /\ Cardinality(GlobalWaiters)' = Cardinality(GlobalWaiters)
      /\ \A e \in Listed :
           /\ Cardinality(EndpointHolders(e)) \in Nat
           /\ Cardinality(EndpointHolders(e))' = Cardinality(EndpointHolders(e))
                - (IF e = EndpointOf[c] THEN 1 ELSE 0)
  BY <1>1, MoveCounts DEF PermitInv, TypeInv, Types
<1>3. free \in Nat /\ epFree \in [Listed -> Nat] /\ leaked \in [Listed -> Nat]
  BY DEF PermitInv, TypeInv, Types
<1>4. ~shutdown' => free' + Cardinality(GlobalHolders)' = GlobalLimit
  BY <1>2, <1>3 DEF PermitInv, PermitsAccounted, ReleasePermit
<1>5. ASSUME NEW e \in Listed
      PROVE  epFree'[e] + Cardinality(EndpointHolders(e))' + leaked'[e] = Burst
  <2>1. epFree'[e] = epFree[e] + IF e = EndpointOf[c] THEN 1 ELSE 0
    BY DEF ReleasePermit
  <2>2. epFree[e] + Cardinality(EndpointHolders(e)) + leaked[e] = Burst
    BY DEF PermitInv, PermitsAccounted
  <2>3. QED
    BY <1>2, <1>3, <2>1, <2>2
<1>6. CloseServesWaiters'
  BY <1>2, <1>3 DEF PermitInv, CloseServesWaiters, ReleasePermit
<1>7. QED
  BY <1>4, <1>5, <1>6 DEF PermitsAccounted

\* A call that moves without touching its endpoint's permit.
LEMMA GlobalMoves ==
    ASSUME PermitInv, NEW c \in Calls, NEW w \in Places, Go(c, w),
           pc[c] \in HoldsEndpoint <=> w \in HoldsEndpoint,
           UNCHANGED <<epFree, leaked, shutdown>>,
           free' \in Nat,
           free' = free + (IF pc[c] \in HoldsGlobal THEN 1 ELSE 0)
                        - (IF w \in HoldsGlobal THEN 1 ELSE 0),
           shutdown => w # "globalWait" /\ (pc[c] = "globalWait" \/ free' >= free)
    PROVE  PermitsAccounted' /\ CloseServesWaiters'
<1>1. /\ Cardinality(GlobalHolders) \in Nat
      /\ Cardinality(GlobalWaiters) \in Nat
      /\ Cardinality(GlobalHolders)' = Cardinality(GlobalHolders)
           + (IF w \in HoldsGlobal THEN 1 ELSE 0)
           - (IF pc[c] \in HoldsGlobal THEN 1 ELSE 0)
      /\ Cardinality(GlobalWaiters)' = Cardinality(GlobalWaiters)
           + (IF w = "globalWait" THEN 1 ELSE 0)
           - (IF pc[c] = "globalWait" THEN 1 ELSE 0)
      /\ \A e \in Listed : /\ Cardinality(EndpointHolders(e)) \in Nat
                           /\ Cardinality(EndpointHolders(e))' = Cardinality(EndpointHolders(e))
  BY MoveCounts DEF PermitInv, TypeInv, Types
<1>2. free \in Nat
  BY DEF PermitInv, TypeInv, Types
<1>3. ~shutdown' => free' + Cardinality(GlobalHolders)' = GlobalLimit
  <2>1. ~shutdown => free + Cardinality(GlobalHolders) = GlobalLimit
    BY DEF PermitInv, PermitsAccounted
  <2>2. QED
    BY <1>1, <1>2, <2>1
<1>4. \A e \in Listed : epFree'[e] + Cardinality(EndpointHolders(e))' + leaked'[e] = Burst
  BY <1>1 DEF PermitInv, PermitsAccounted
<1>5. CloseServesWaiters'
  <2>1. shutdown => Cardinality(GlobalWaiters) <= free
    BY DEF PermitInv, CloseServesWaiters
  <2>2. ASSUME shutdown PROVE Cardinality(GlobalWaiters)' <= free'
    <3>1. CASE pc[c] = "globalWait"
      <4>1. pc[c] \notin HoldsGlobal
        BY <3>1 DEF HoldsGlobal
      <4>2. Cardinality(GlobalWaiters)' = Cardinality(GlobalWaiters) - 1
        BY <1>1, <2>2, <3>1
      <4>3. free' >= free - 1
        BY <1>2, <4>1
      <4>4. QED
        BY <1>1, <1>2, <2>1, <2>2, <4>2, <4>3
    <3>2. CASE pc[c] # "globalWait"
      BY <1>1, <1>2, <2>1, <2>2, <3>2
    <3>3. QED
      BY <3>1, <3>2
  <2>3. QED
    BY <2>2 DEF CloseServesWaiters
<1>6. QED
  BY <1>3, <1>4, <1>5 DEF PermitsAccounted

LEMMA PermitStep ==
    ASSUME PermitInv, TypeInv', [Next]_vars
    PROVE  PermitInv'
<1> SUFFICES PermitsAccounted' /\ CloseServesWaiters'
  BY DEF PermitInv
<1> USE DEF HoldsGlobal, HoldsEndpoint, Returned, Places
<1>1. free \in Nat /\ free' \in Nat
  BY DEF PermitInv, TypeInv, Types
<1>2. ASSUME NEW c \in Calls, Permit(c)
      PROVE  PermitsAccounted' /\ CloseServesWaiters'
  <2>1. CASE AskPermit(c)
    BY <1>1, <2>1, GlobalMoves DEF AskPermit
  <2>2. CASE RejectPermit(c)
    BY <1>1, <2>2, GlobalMoves DEF RejectPermit, Return
  <2>3. CASE AcquireGlobal(c)
    BY <1>1, <2>3, GlobalMoves DEF AcquireGlobal
  <2>4. CASE GlobalDelayEnds(c)
    <3>1. CASE EndpointOf[c] \in Listed
      BY <1>1, <2>4, <3>1, GlobalMoves DEF GlobalDelayEnds
    <3>2. CASE EndpointOf[c] \notin Listed
      <4>1. Go(c, "sent") /\ pc[c] = "globalDelay" /\ UNCHANGED <<free, epFree, leaked, shutdown>>
        BY <2>4, <3>2 DEF GlobalDelayEnds
      <4>2. /\ Cardinality(GlobalHolders)' = Cardinality(GlobalHolders)
            /\ Cardinality(GlobalWaiters)' = Cardinality(GlobalWaiters)
            /\ \A e \in Listed :
                 Cardinality(EndpointHolders(e))' = Cardinality(EndpointHolders(e))
        BY <3>2, <4>1, MoveCounts DEF PermitInv, TypeInv, Types
      <4>3. QED
        BY <4>1, <4>2 DEF PermitInv, PermitsAccounted, CloseServesWaiters
    <3>3. QED
      BY <3>1, <3>2
  <2>5. CASE AcquireEndpoint(c)
    <3>1. /\ pc[c] = "endpointWait" /\ Go(c, "endpointDelay")
          /\ UNCHANGED <<free, leaked, shutdown>>
          /\ epFree' = [epFree EXCEPT ![EndpointOf[c]] = @ - 1]
      BY <2>5 DEF AcquireEndpoint
    <3>2. /\ Cardinality(GlobalHolders)' = Cardinality(GlobalHolders)
          /\ Cardinality(GlobalWaiters)' = Cardinality(GlobalWaiters)
          /\ \A e \in Listed :
               /\ Cardinality(EndpointHolders(e)) \in Nat
               /\ Cardinality(EndpointHolders(e))' = Cardinality(EndpointHolders(e))
                    + (IF e = EndpointOf[c] THEN 1 ELSE 0)
      BY <3>1, MoveCounts DEF PermitInv, TypeInv, Types
    <3>3. epFree \in [Listed -> Nat] /\ leaked \in [Listed -> Nat]
      BY DEF PermitInv, TypeInv, Types
    <3>4. ASSUME NEW e \in Listed
          PROVE  epFree'[e] + Cardinality(EndpointHolders(e))' + leaked'[e] = Burst
      <4>1. epFree'[e] = epFree[e] - IF e = EndpointOf[c] THEN 1 ELSE 0
        BY <3>1, <3>3
      <4>2. epFree[e] + Cardinality(EndpointHolders(e)) + leaked[e] = Burst
        BY DEF PermitInv, PermitsAccounted
      <4>3. QED
        BY <3>1, <3>2, <3>3, <4>1, <4>2
    <3>5. QED
      BY <3>1, <3>2, <3>4 DEF PermitInv, PermitsAccounted, CloseServesWaiters
  <2>6. CASE EndpointDelayEnds(c)
    BY <1>1, <2>6, GlobalMoves DEF EndpointDelayEnds
  <2>7. QED
    BY <1>2, <2>1, <2>2, <2>3, <2>4, <2>5, <2>6 DEF Permit
<1>3. ASSUME NEW c \in Calls, Answer(c)
      PROVE  PermitsAccounted' /\ CloseServesWaiters'
  <2>1. /\ pc[c] = "sent" /\ ReleasePermit(c) /\ UNCHANGED <<leaked, shutdown>>
        /\ \E w \in {"backoff"} \union Returned : Go(c, w)
    BY <1>3 DEF Answer, Succeed, Fail, RepeatInside, RepeatOutside, GiveUp, FailSend, Return
  <2>2. QED
    BY <2>1, SendEnds
<1>4. ASSUME NEW c \in Calls, Cancel(c)
      PROVE  PermitsAccounted' /\ CloseServesWaiters'
  <2>1. CASE CancelWaiting(c)
    BY <1>1, <2>1, GlobalMoves DEF CancelWaiting, CancelAt, Return
  <2>2. CASE CancelInPermit(c)
    BY <1>1, <2>2, GlobalMoves DEF CancelInPermit, CancelAt, Return
  <2>3. CASE CancelInEndpointDelay(c)
    <3>1. /\ pc[c] = "endpointDelay" /\ Go(c, "cancelled")
          /\ UNCHANGED <<epFree, shutdown>>
          /\ free' = free + 1
          /\ leaked' = [leaked EXCEPT ![EndpointOf[c]] = @ + 1]
      BY <2>3 DEF CancelInEndpointDelay, CancelAt, Return
    <3>2. /\ Cardinality(GlobalHolders) \in Nat
          /\ Cardinality(GlobalWaiters) \in Nat
          /\ Cardinality(GlobalHolders)' = Cardinality(GlobalHolders) - 1
          /\ Cardinality(GlobalWaiters)' = Cardinality(GlobalWaiters)
          /\ \A e \in Listed :
               /\ Cardinality(EndpointHolders(e)) \in Nat
               /\ Cardinality(EndpointHolders(e))' = Cardinality(EndpointHolders(e))
                    - (IF e = EndpointOf[c] THEN 1 ELSE 0)
      BY <3>1, MoveCounts DEF PermitInv, TypeInv, Types
    <3>3. epFree \in [Listed -> Nat] /\ leaked \in [Listed -> Nat]
      BY DEF PermitInv, TypeInv, Types
    <3>4. ASSUME NEW e \in Listed
          PROVE  epFree'[e] + Cardinality(EndpointHolders(e))' + leaked'[e] = Burst
      <4>1. leaked'[e] = leaked[e] + IF e = EndpointOf[c] THEN 1 ELSE 0
        BY <3>1, <3>3
      <4>2. epFree[e] + Cardinality(EndpointHolders(e)) + leaked[e] = Burst
        BY DEF PermitInv, PermitsAccounted
      <4>3. QED
        BY <3>1, <3>2, <3>3, <4>1, <4>2
    <3>5. ~shutdown' => free' + Cardinality(GlobalHolders)' = GlobalLimit
      BY <1>1, <3>1, <3>2 DEF PermitInv, PermitsAccounted
    <3>6. CloseServesWaiters'
      BY <1>1, <3>1, <3>2 DEF PermitInv, CloseServesWaiters
    <3>7. QED
      BY <3>4, <3>5, <3>6 DEF PermitsAccounted
  <2>4. CASE CancelSent(c)
    <3>1. /\ pc[c] = "sent" /\ ReleasePermit(c) /\ UNCHANGED <<leaked, shutdown>>
          /\ Go(c, "cancelled")
      BY <2>4 DEF CancelSent, CancelAt, Return
    <3>2. QED
      BY <3>1, SendEnds
  <2>5. QED
    BY <1>4, <2>1, <2>2, <2>3, <2>4 DEF Cancel
<1>5. ASSUME NEW p \in Placements, ExecuteLate(p)
      PROVE  PermitsAccounted' /\ CloseServesWaiters'
  BY <1>5 DEF ExecuteLate, PermitInv, PermitsAccounted, CloseServesWaiters,
              GlobalHolders, GlobalWaiters, EndpointHolders
<1>6. ASSUME Close
      PROVE  PermitsAccounted' /\ CloseServesWaiters'
  <2>1. /\ shutdown' /\ UNCHANGED <<pc, epFree, leaked>>
        /\ free' = GlobalLimit + Cardinality(GlobalWaiters)
    BY <1>6 DEF Close
  <2>2. /\ GlobalWaiters' = GlobalWaiters
        /\ \A e \in Listed : EndpointHolders(e)' = EndpointHolders(e)
    BY <2>1 DEF GlobalWaiters, EndpointHolders
  <2>3. Cardinality(GlobalWaiters) \in Nat
    BY FS_Subset, FS_CardinalityType DEF GlobalWaiters
  <2>4. QED
    BY <2>1, <2>2, <2>3 DEF PermitInv, PermitsAccounted, CloseServesWaiters
<1>7. ASSUME UNCHANGED vars
      PROVE  PermitsAccounted' /\ CloseServesWaiters'
  BY <1>7 DEF vars, PermitInv, PermitsAccounted, CloseServesWaiters,
              GlobalHolders, GlobalWaiters, EndpointHolders
<1>8. QED
  BY <1>2, <1>3, <1>4, <1>5, <1>6, <1>7 DEF Next

LEMMA PermitInit ==
    ASSUME Init
    PROVE  PermitInv
<1>1. GlobalHolders = {} /\ \A e \in Listed : EndpointHolders(e) = {}
  BY DEF Init, GlobalHolders, EndpointHolders, HoldsGlobal, HoldsEndpoint
<1>2. PermitsAccounted
  <2>1. Cardinality({}) = 0
    BY FS_EmptySet
  <2>2. free + Cardinality(GlobalHolders) = GlobalLimit
    BY <1>1, <2>1, LimitsAssumption DEF Init
  <2>3. ASSUME NEW e \in Listed
        PROVE  epFree[e] + Cardinality(EndpointHolders(e)) + leaked[e] = Burst
    <3>1. epFree[e] = Burst /\ leaked[e] = 0 /\ Cardinality(EndpointHolders(e)) = 0
      BY <1>1, <2>1 DEF Init
    <3>2. QED
      BY <3>1, LimitsAssumption
  <2>4. QED
    BY <2>2, <2>3 DEF PermitsAccounted
<1>3. CloseServesWaiters
  BY DEF Init, CloseServesWaiters
<1>4. QED
  BY <1>2, <1>3, TypeInit DEF PermitInv

\* The accounting bounds what an endpoint's semaphore can hold.
LEMMA TypesFollow ==
    ASSUME PermitInv
    PROVE  TypeOK
<1>1. ASSUME NEW e \in Listed
      PROVE  epFree[e] \in 0..Burst /\ leaked[e] \in 0..Burst
  <2>1. IsFiniteSet(EndpointHolders(e))
    BY FS_Subset DEF EndpointHolders
  <2>2. Cardinality(EndpointHolders(e)) \in Nat
    BY <2>1, FS_CardinalityType
  <2>3. epFree[e] \in Nat /\ leaked[e] \in Nat
    BY DEF PermitInv, TypeInv, Types
  <2>4. epFree[e] + Cardinality(EndpointHolders(e)) + leaked[e] = Burst
    BY DEF PermitInv, PermitsAccounted
  <2>5. QED
    BY <2>2, <2>3, <2>4
<1>2. epFree \in [Listed -> 0..Burst] /\ leaked \in [Listed -> 0..Burst]
  BY <1>1 DEF PermitInv, TypeInv, Types
<1>3. QED
  BY <1>2 DEF TypeOK, PermitInv, TypeInv, Types, EffectTypes, Places

LEMMA PermitInvariant == Spec => []PermitInv
<1>1. PermitInv /\ [Next]_vars => PermitInv'
  BY TypeStep, PermitStep DEF PermitInv
<1>2. QED
  BY <1>1, PermitInit, PTL DEF Spec

\* Type correctness: no semaphore of an endpoint exceeds its capacity and no
\* decorator its attempts.
THEOREM TypeCorrect == Spec => []TypeOK
<1>1. QED
  BY PermitInvariant, TypesFollow, PTL

\* Until close every global permit is free or held by a call, and always every
\* permit of an endpoint is free, held or lost by a cancellation in the delay.
THEOREM PermitsAreAccounted == Spec => []PermitsAccounted
<1>1. PermitInv => PermitsAccounted
  BY DEF PermitInv
<1>2. QED
  BY <1>1, PermitInvariant, PTL

\* After close no call waits for a global permit in vain.
THEOREM CloseServes == Spec => []CloseServesWaiters
<1>1. PermitInv => CloseServesWaiters
  BY DEF PermitInv
<1>2. QED
  BY <1>1, PermitInvariant, PTL

-----------------------------------------------------------------------------
(* Effects *)

\* Two counters up to M, read as the digits of one.
LEMMA Digits ==
    ASSUME NEW M \in Nat \ {0}, NEW o \in 1..M, NEW i \in 1..M
    PROVE  /\ (o - 1) * M + i - 1 \in Nat
           /\ (o - 1) * M + i - 1 < M * M
           /\ (o - 1) * M + i <= o * M
           /\ M * M \in Nat
<1>1. (o - 1) * M \in Nat /\ o * M = (o - 1) * M + M
  OBVIOUS
<1>2. M * M = o * M + (M - o) * M /\ (M - o) * M \in Nat
  OBVIOUS
<1>3. QED
  BY <1>1, <1>2

\* What the two properties say of one placement.
Explained(p) ==
    /\ executed[p] + late[p] = uncertain[p] + IF pc[p] = "ok" THEN 1 ELSE 0
    /\ pc[p] = "ok" => executed[p] > 0
    /\ pc[p] \notin Returned => uncertain[p] <= Behind(p)
    /\ uncertain[p] + (IF pc[p] = "ok" THEN 1 ELSE 0) <= MaxAttempts * MaxAttempts

EffectInv == TypeInv /\ \A p \in Placements : Explained(p)

\* What a step of call c leaves of another one.
LEMMA OtherCall ==
    ASSUME TypeInv, NEW p \in Placements, Explained(p),
           pc'[p] = pc[p], outer'[p] = outer[p], inner'[p] = inner[p],
           executed'[p] = executed[p], late'[p] = late[p], uncertain'[p] = uncertain[p]
    PROVE  Explained(p)'
BY DEF Explained, Behind

\* A running call that moves on without an answer.
LEMMA MovesOn ==
    ASSUME TypeInv, NEW p \in Placements, Explained(p), pc[p] \notin Returned,
           UNCHANGED effects,
           \/ pc'[p] \notin Returned /\ outer'[p] = outer[p] /\ inner'[p] = inner[p]
           \/ pc'[p] \in Returned \ {"ok"}
    PROVE  Explained(p)'
<1>1. /\ outer[p] \in 1..MaxAttempts /\ inner[p] \in 1..MaxAttempts
      /\ executed[p] \in Nat /\ late[p] \in Nat /\ uncertain[p] \in Nat
  BY DEF TypeInv, Types, EffectTypes
<1>2. Behind(p) \in Nat /\ Behind(p) < MaxAttempts * MaxAttempts /\ MaxAttempts * MaxAttempts \in Nat
  BY <1>1, Digits DEF Behind
<1>3. pc[p] # "ok" /\ pc'[p] # "ok"
  BY DEF Returned
<1>4. QED
  BY <1>1, <1>2, <1>3 DEF Explained, Behind, effects

\* A send whose answer may be a doubt, and the place of the call after it.
LEMMA SendFails ==
    ASSUME TypeInv, NEW p \in Placements, Explained(p), pc[p] \notin Returned,
           Doubt(p) \/ UNCHANGED effects,
           \/ /\ pc'[p] \notin Returned
              /\ outer'[p] = outer[p] /\ inner'[p] = inner[p] + 1
           \/ /\ pc'[p] \notin Returned
              /\ outer'[p] = outer[p] + 1 /\ inner'[p] = 1
           \/ pc'[p] \in Returned \ {"ok"}
    PROVE  Explained(p)'
<1>1. /\ outer[p] \in 1..MaxAttempts /\ inner[p] \in 1..MaxAttempts
      /\ executed[p] \in Nat /\ late[p] \in Nat /\ uncertain[p] \in Nat
  BY DEF TypeInv, Types, EffectTypes
<1>2. /\ Behind(p) \in Nat /\ Behind(p) < MaxAttempts * MaxAttempts
      /\ MaxAttempts * MaxAttempts \in Nat
      /\ Behind(p) + 1 <= outer[p] * MaxAttempts
  BY <1>1, Digits DEF Behind
<1>3. pc[p] # "ok" /\ pc'[p] # "ok"
  BY DEF Returned
<1>4. /\ uncertain'[p] \in Nat /\ late'[p] \in Nat /\ executed'[p] = executed[p]
      /\ uncertain'[p] <= uncertain[p] + 1
      /\ uncertain'[p] - uncertain[p] = late'[p] - late[p]
  BY <1>1 DEF Doubt, Count, effects
<1>5. uncertain[p] <= Behind(p) /\ executed[p] + late[p] = uncertain[p]
  BY <1>1, <1>3 DEF Explained
<1>6. uncertain'[p] <= MaxAttempts * MaxAttempts
  BY <1>1, <1>2, <1>4, <1>5
<1>7. executed'[p] + late'[p] = uncertain'[p]
  BY <1>1, <1>4, <1>5
<1>8. ASSUME pc'[p] \notin Returned
      PROVE  uncertain'[p] <= Behind(p)'
  <2>1. CASE outer'[p] = outer[p] /\ inner'[p] = inner[p] + 1
    <3>1. Behind(p)' = Behind(p) + 1
      BY <1>1, <2>1 DEF Behind
    <3>2. QED
      BY <1>1, <1>2, <1>4, <1>5, <3>1
  <2>2. CASE outer'[p] = outer[p] + 1 /\ inner'[p] = 1
    <3>1. Behind(p)' = outer[p] * MaxAttempts
      BY <1>1, <2>2 DEF Behind
    <3>2. QED
      BY <1>1, <1>2, <1>4, <1>5, <3>1
  <2>3. QED
    BY <1>8, <2>1, <2>2
<1>9. QED
  BY <1>3, <1>4, <1>6, <1>7, <1>8 DEF Explained

\* The answer of a send that succeeds.
LEMMA SendSucceeds ==
    ASSUME TypeInv, NEW p \in Placements, Explained(p), Succeed(p)
    PROVE  Explained(p)'
<1>1. /\ outer[p] \in 1..MaxAttempts /\ inner[p] \in 1..MaxAttempts
      /\ executed[p] \in Nat /\ late[p] \in Nat /\ uncertain[p] \in Nat
      /\ p \in Calls /\ pc \in [Calls -> Places]
  BY DEF TypeInv, Types, EffectTypes
<1>2. Behind(p) \in Nat /\ Behind(p) < MaxAttempts * MaxAttempts /\ MaxAttempts * MaxAttempts \in Nat
  BY <1>1, Digits DEF Behind
<1>3. pc[p] = "sent" /\ pc'[p] = "ok"
  BY <1>1 DEF Succeed, Return, Go
<1>4. executed'[p] = executed[p] + 1 /\ late'[p] = late[p] /\ uncertain'[p] = uncertain[p]
  BY DEF Succeed, Count
<1>5. uncertain[p] <= Behind(p) /\ executed[p] + late[p] = uncertain[p]
  BY <1>1, <1>3 DEF Explained, Returned
<1>6. uncertain'[p] + 1 <= MaxAttempts * MaxAttempts /\ executed'[p] + late'[p] = uncertain'[p] + 1
        /\ executed'[p] > 0
  BY <1>1, <1>2, <1>4, <1>5
<1>7. pc'[p] \in Returned
  BY <1>3 DEF Returned
<1>8. QED
  BY <1>3, <1>6, <1>7 DEF Explained

LEMMA EffectStep ==
    ASSUME EffectInv, [Next]_vars, NEW p \in Placements
    PROVE  Explained(p)'
<1>1. TypeInv /\ Explained(p) /\ p \in Calls
  BY DEF EffectInv
<1>2. pc \in [Calls -> Places] /\ outer \in [Calls -> 1..MaxAttempts]
        /\ inner \in [Calls -> 1..MaxAttempts] /\ EffectTypes
  BY <1>1 DEF TypeInv, Types
<1>3. ASSUME NEW c \in Calls, c # p, Permit(c) \/ Answer(c) \/ Cancel(c)
      PROVE  Explained(p)'
  <2>1. pc'[p] = pc[p]
    BY <1>1, <1>2, <1>3 DEF Permit, AskPermit, RejectPermit, AcquireGlobal, GlobalDelayEnds,
         AcquireEndpoint, EndpointDelayEnds, Answer, Succeed, Fail, RepeatInside, RepeatOutside,
         GiveUp, Cancel, CancelWaiting, CancelInPermit, CancelInEndpointDelay, CancelSent,
         CancelAt, Return, Go
  <2>2. outer'[p] = outer[p] /\ inner'[p] = inner[p]
    BY <1>1, <1>2, <1>3 DEF Permit, AskPermit, RejectPermit, AcquireGlobal, GlobalDelayEnds,
         AcquireEndpoint, EndpointDelayEnds, Answer, Succeed, Fail, RepeatInside, RepeatOutside,
         GiveUp, Cancel, CancelWaiting, CancelInPermit, CancelInEndpointDelay, CancelSent,
         CancelAt, Return, attempt
  <2>3. \/ Doubt(c) \/ UNCHANGED effects
        \/ executed' = Count(executed, c) /\ UNCHANGED <<late, uncertain>>
    BY <1>3 DEF Permit, AskPermit, RejectPermit, AcquireGlobal, GlobalDelayEnds,
         AcquireEndpoint, EndpointDelayEnds, Answer, Succeed, Fail, RepeatInside, RepeatOutside,
         GiveUp, FailSend, Cancel, CancelWaiting, CancelInPermit, CancelInEndpointDelay, CancelSent
  <2>4. executed'[p] = executed[p] /\ late'[p] = late[p] /\ uncertain'[p] = uncertain[p]
    BY <1>2, <1>3, <2>3 DEF Doubt, Count, effects, EffectTypes
  <2>5. QED
    BY <1>1, <2>1, <2>2, <2>4, OtherCall
<1>4. ASSUME Permit(p)
      PROVE  Explained(p)'
  <2>1. pc[p] \notin Returned /\ UNCHANGED effects
    BY <1>4 DEF Permit, AskPermit, RejectPermit, AcquireGlobal, GlobalDelayEnds, AcquireEndpoint,
                EndpointDelayEnds, Returned
  <2>2. CASE RejectPermit(p)
    <3>1. pc'[p] \in Returned \ {"ok"}
      BY <1>1, <1>2, <2>2 DEF RejectPermit, Return, Go, Returned
    <3>2. QED
      BY <1>1, <2>1, <3>1, MovesOn
  <2>3. CASE ~RejectPermit(p)
    <3>1. pc'[p] \notin Returned
      BY <1>1, <1>2, <1>4, <2>3 DEF Permit, AskPermit, AcquireGlobal, GlobalDelayEnds,
           AcquireEndpoint, EndpointDelayEnds, Returned, Go
    <3>2. outer'[p] = outer[p] /\ inner'[p] = inner[p]
      BY <1>4, <2>3 DEF Permit, AskPermit, AcquireGlobal, GlobalDelayEnds, AcquireEndpoint,
           EndpointDelayEnds, attempt
    <3>3. QED
      BY <1>1, <2>1, <3>1, <3>2, MovesOn
  <2>4. QED
    BY <2>2, <2>3
<1>5. ASSUME Succeed(p)
      PROVE  Explained(p)'
  BY <1>1, <1>5, SendSucceeds
<1>6. ASSUME NEW error \in Errors, Fail(p, error)
      PROVE  Explained(p)'
  <2>1. pc[p] \notin Returned /\ (Doubt(p) \/ UNCHANGED effects)
    BY <1>6 DEF Fail, RepeatInside, RepeatOutside, GiveUp, FailSend, Returned
  <2>2. CASE RepeatInside(p, error)
    <3>1. pc'[p] \notin Returned /\ outer'[p] = outer[p] /\ inner'[p] = inner[p] + 1
      BY <1>1, <1>2, <2>2 DEF RepeatInside, Go, Returned
    <3>2. QED
      BY <1>1, <2>1, <3>1, SendFails
  <2>3. CASE RepeatOutside(p, error)
    <3>1. pc'[p] \notin Returned /\ outer'[p] = outer[p] + 1 /\ inner'[p] = 1
      BY <1>1, <1>2, <2>3 DEF RepeatOutside, Go, Returned
    <3>2. QED
      BY <1>1, <2>1, <3>1, SendFails
  <2>4. CASE GiveUp(p, error)
    <3>1. pc'[p] \in Returned \ {"ok"}
      BY <1>1, <1>2, <2>4 DEF GiveUp, Return, Go, Returned
    <3>2. QED
      BY <1>1, <2>1, <3>1, SendFails
  <2>5. QED
    BY <1>6, <2>2, <2>3, <2>4 DEF Fail
<1>7. ASSUME Cancel(p)
      PROVE  Explained(p)'
  <2>1. pc[p] \notin Returned /\ (Doubt(p) \/ UNCHANGED effects)
    BY <1>7 DEF Cancel, CancelWaiting, CancelInPermit, CancelInEndpointDelay, CancelSent,
                CancelAt, Returned
  <2>2. pc'[p] \in Returned \ {"ok"}
    BY <1>1, <1>2, <1>7 DEF Cancel, CancelWaiting, CancelInPermit, CancelInEndpointDelay,
         CancelSent, CancelAt, Return, Go, Returned
  <2>3. QED
    BY <1>1, <2>1, <2>2, SendFails
<1>8. ASSUME NEW q \in Placements, ExecuteLate(q)
      PROVE  Explained(p)'
  <2>1. pc' = pc /\ outer' = outer /\ inner' = inner /\ uncertain' = uncertain
    BY <1>8 DEF ExecuteLate, attempt
  <2>2. CASE q # p
    <3>1. executed'[p] = executed[p] /\ late'[p] = late[p]
      BY <1>2, <1>8, <2>2 DEF ExecuteLate, EffectTypes
    <3>2. QED
      BY <1>1, <2>1, <3>1, OtherCall
  <2>3. CASE q = p
    <3>1. /\ executed'[p] = executed[p] + 1 /\ late'[p] = late[p] - 1
          /\ executed[p] \in Nat /\ late[p] \in Nat
      BY <1>2, <1>8, <2>3 DEF ExecuteLate, EffectTypes
    <3>2. executed'[p] + late'[p] = executed[p] + late[p] /\ executed'[p] > 0
      BY <3>1
    <3>3. Behind(p)' = Behind(p)
      BY <2>1 DEF Behind
    <3>4. QED
      BY <1>1, <2>1, <3>2, <3>3 DEF Explained
  <2>4. QED
    BY <2>2, <2>3
<1>9. ASSUME Close \/ UNCHANGED vars
      PROVE  Explained(p)'
  <2>1. UNCHANGED <<pc, outer, inner, executed, late, uncertain>>
    BY <1>9 DEF Close, vars, attempt, effects
  <2>2. QED
    BY <1>1, <2>1, OtherCall
<1>10. QED
  <2>1. ASSUME NEW c \in Calls, Permit(c) \/ Answer(c) \/ Cancel(c)
        PROVE  Explained(p)'
    <3>1. CASE c # p
      BY <1>3, <2>1, <3>1
    <3>2. CASE c = p
      BY <1>4, <1>5, <1>6, <1>7, <2>1, <3>2 DEF Answer
    <3>3. QED
      BY <3>1, <3>2
  <2>2. QED
    BY <1>8, <1>9, <2>1 DEF Next

LEMMA EffectInit ==
    ASSUME Init
    PROVE  EffectInv
<1>1. ASSUME NEW p \in Placements
      PROVE  Explained(p)
  <2>1. /\ pc[p] = "idle" /\ outer[p] = 1 /\ inner[p] = 1
        /\ executed[p] = 0 /\ late[p] = 0 /\ uncertain[p] = 0
    BY DEF Init
  <2>2. Behind(p) = 0
    BY <2>1 DEF Behind
  <2>3. MaxAttempts * MaxAttempts \in Nat
    BY Digits
  <2>4. QED
    BY <2>1, <2>2, <2>3 DEF Explained
<1>2. QED
  BY <1>1, TypeInit DEF EffectInv

LEMMA EffectInvariant == Spec => []EffectInv
<1>1. EffectInv /\ [Next]_vars => EffectInv'
  BY TypeStep, EffectStep DEF EffectInv
<1>2. QED
  BY <1>1, EffectInit, PTL DEF Spec

\* Every execution of an order answers for one doubt of the client, or is the
\* one the call reported.
THEOREM EffectsAreExplained == Spec => []EffectsExplained
<1>1. EffectInv => EffectsExplained
  BY DEF EffectInv, Explained, EffectsExplained
<1>2. QED
  BY <1>1, EffectInvariant, PTL

\* No call is sent more than MaxAttempts squared times.
THEOREM AttemptsAreBounded == Spec => []AttemptsBounded
<1>1. EffectInv => AttemptsBounded
  BY DEF EffectInv, Explained, AttemptsBounded
<1>2. QED
  BY <1>1, EffectInvariant, PTL

-----------------------------------------------------------------------------
(* Refinement *)

LEMMA ResultUnchanged ==
    ASSUME \A p \in Placements : pc'[p] = pc[p]
    PROVE  Result' = Result
BY DEF Result, Returned

\* A step of one call changes what its own caller sees, and nobody else.
LEMMA ResultMoves ==
    ASSUME TypeInv, NEW c \in Calls, NEW w, Go(c, w), pc[c] \notin Returned
    PROVE  /\ c \in Placements => Result[c] = "none"
           /\ c \in Placements /\ w = "ok" => Result' = [Result EXCEPT ![c] = "ok"]
           /\ c \in Placements /\ w \in Returned \ {"ok"} => Result' = [Result EXCEPT ![c] = "error"]
           /\ c \notin Placements \/ w \notin Returned => Result' = Result
<1>1. pc'[c] = w /\ \A p \in Placements \ {c} : pc'[p] = pc[p]
  BY DEF Go, TypeInv, Types
<1>2. \A p \in Placements \ {c} : Result'[p] = Result[p]
  BY <1>1 DEF Result, Returned
<1>3. Result = [p \in Placements |-> Result[p]] /\ Result' = [p \in Placements |-> Result'[p]]
  BY DEF Result
<1>4. ASSUME c \in Placements
      PROVE  /\ Result[c] = "none"
             /\ w = "ok" => Result'[c] = "ok"
             /\ w \in Returned \ {"ok"} => Result'[c] = "error"
             /\ w \notin Returned => Result'[c] = "none"
  BY <1>1, <1>4 DEF Result, Returned
<1>5. ASSUME c \in Placements, NEW v, Result'[c] = v
      PROVE  Result' = [Result EXCEPT ![c] = v]
  <2>1. Result' = [p \in Placements |-> IF p = c THEN v ELSE Result[p]]
    BY <1>2, <1>3, <1>5
  <2>2. [Result EXCEPT ![c] = v] = [p \in Placements |-> IF p = c THEN v ELSE Result[p]]
    BY <1>3, <1>5 DEF Result
  <2>3. QED
    BY <2>1, <2>2
<1>6. c \notin Placements \/ w \notin Returned => Result' = Result
  BY <1>2, <1>3, <1>4
<1>7. QED
  BY <1>4, <1>5, <1>6

LEMMA CallerStep ==
    ASSUME EffectInv, [Next]_vars
    PROVE  [Caller!Next]_Caller!vars
<1>1. /\ TypeInv
      /\ pc \in [Calls -> Places]
      /\ \A p \in Placements : /\ executed[p] \in Nat /\ late[p] \in Nat /\ uncertain[p] \in Nat
                               /\ Explained(p)
      /\ executed \in [Placements -> Nat]
  BY DEF EffectInv, TypeInv, Types, EffectTypes
<1>2. MaxAttempts * MaxAttempts \in Nat
  BY Digits
<1>3. ASSUME NEW c \in Calls, NEW w \in Places \ {"ok"}, Go(c, w), pc[c] \notin Returned,
             executed' = executed
      PROVE  [Caller!Next]_Caller!vars
  <2>1. CASE c \in Placements /\ w \in Returned
    <3>1. Result[c] = "none" /\ Result' = [Result EXCEPT ![c] = "error"]
      BY <1>1, <1>3, <2>1, ResultMoves
    <3>2. Caller!Fail(c)
      BY <1>3, <3>1 DEF Caller!Fail
    <3>3. QED
      BY <2>1, <3>2 DEF Caller!Next
  <2>2. CASE ~(c \in Placements /\ w \in Returned)
    <3>1. Result' = Result
      BY <1>1, <1>3, <2>2, ResultMoves
    <3>2. QED
      BY <1>3, <3>1 DEF Caller!vars
  <2>3. QED
    BY <2>1, <2>2
<1>4. ASSUME NEW c \in Calls, Permit(c)
      PROVE  [Caller!Next]_Caller!vars
  <2>1. pc[c] \notin Returned /\ executed' = executed
    BY <1>4 DEF Permit, AskPermit, RejectPermit, AcquireGlobal, GlobalDelayEnds, AcquireEndpoint,
                EndpointDelayEnds, Returned, effects
  <2>2. \E w \in Places \ {"ok"} : Go(c, w)
    BY <1>4 DEF Permit, AskPermit, RejectPermit, AcquireGlobal, GlobalDelayEnds, AcquireEndpoint,
                EndpointDelayEnds, Return, Places, HoldsGlobal, Returned
  <2>3. QED
    BY <1>3, <2>1, <2>2
<1>5. ASSUME NEW c \in Calls, Succeed(c)
      PROVE  [Caller!Next]_Caller!vars
  <2>1. pc[c] = "sent" /\ Go(c, "ok") /\ executed' = Count(executed, c)
    BY <1>5 DEF Succeed, Return
  <2>2. CASE c \in Placements
    <3>1. Result[c] = "none" /\ Result' = [Result EXCEPT ![c] = "ok"]
      BY <1>1, <2>1, <2>2, ResultMoves DEF Returned
    <3>2. executed' = [executed EXCEPT ![c] = @ + 1]
      <4>1. executed' = [p \in Placements |-> executed[p] + IF p = c THEN 1 ELSE 0]
        BY <2>1 DEF Count
      <4>2. \A p \in Placements : executed'[p] = IF p = c THEN executed[c] + 1 ELSE executed[p]
        BY <1>1, <4>1
      <4>3. QED
        BY <1>1, <2>2, <4>1, <4>2
    <3>3. executed[c] < MaxAttempts * MaxAttempts
      <4>1. /\ outer[c] \in 1..MaxAttempts /\ inner[c] \in 1..MaxAttempts
        BY <1>1 DEF TypeInv, Types
      <4>2. Behind(c) \in Nat /\ Behind(c) < MaxAttempts * MaxAttempts
        BY <4>1, Digits DEF Behind
      <4>3. executed[c] + late[c] = uncertain[c] /\ uncertain[c] <= Behind(c)
        BY <1>1, <2>1, <2>2 DEF Explained, Returned
      <4>4. QED
        BY <1>1, <1>2, <2>2, <4>2, <4>3
    <3>4. Caller!Succeed(c)
      BY <3>1, <3>2, <3>3 DEF Caller!Succeed
    <3>5. QED
      BY <2>2, <3>4 DEF Caller!Next
  <2>3. CASE c \notin Placements
    <3>1. Result' = Result
      BY <1>1, <2>1, <2>3, ResultMoves DEF Returned
    <3>2. executed' = executed
      BY <1>1, <2>1, <2>3 DEF Count
    <3>3. QED
      BY <3>1, <3>2 DEF Caller!vars
  <2>4. QED
    BY <2>2, <2>3
<1>6. ASSUME NEW c \in Calls, NEW error \in Errors, Fail(c, error)
      PROVE  [Caller!Next]_Caller!vars
  <2>1. pc[c] \notin Returned /\ executed' = executed
    BY <1>6 DEF Fail, RepeatInside, RepeatOutside, GiveUp, FailSend, Doubt, Returned, effects
  <2>2. \E w \in Places \ {"ok"} : Go(c, w)
    BY <1>6 DEF Fail, RepeatInside, RepeatOutside, GiveUp, Return, Places, Returned
  <2>3. QED
    BY <1>3, <2>1, <2>2
<1>7. ASSUME NEW c \in Calls, Cancel(c)
      PROVE  [Caller!Next]_Caller!vars
  <2>1. pc[c] \notin Returned /\ executed' = executed
    BY <1>7 DEF Cancel, CancelWaiting, CancelInPermit, CancelInEndpointDelay, CancelSent,
                CancelAt, Doubt, Returned, effects
  <2>2. Go(c, "cancelled") /\ "cancelled" \in Places \ {"ok"}
    BY <1>7 DEF Cancel, CancelWaiting, CancelInPermit, CancelInEndpointDelay, CancelSent,
                CancelAt, Return, Places, Returned
  <2>3. QED
    BY <1>3, <2>1, <2>2
<1>8. ASSUME NEW p \in Placements, ExecuteLate(p)
      PROVE  [Caller!Next]_Caller!vars
  <2>1. Result' = Result
    BY <1>8, ResultUnchanged DEF ExecuteLate
  <2>2. executed[p] < MaxAttempts * MaxAttempts
    <3>1. /\ uncertain[p] + (IF pc[p] = "ok" THEN 1 ELSE 0) <= MaxAttempts * MaxAttempts
          /\ executed[p] + late[p] = uncertain[p] + IF pc[p] = "ok" THEN 1 ELSE 0
      BY <1>1 DEF Explained
    <3>2. late[p] > 0
      BY <1>8 DEF ExecuteLate
    <3>3. QED
      BY <1>1, <1>2, <3>1, <3>2
  <2>3. Caller!Execute(p)
    BY <1>8, <2>1, <2>2 DEF ExecuteLate, Caller!Execute
  <2>4. QED
    BY <2>3 DEF Caller!Next
<1>9. ASSUME Close \/ UNCHANGED vars
      PROVE  [Caller!Next]_Caller!vars
  <2>1. pc' = pc /\ executed' = executed
    BY <1>9 DEF Close, vars, effects
  <2>2. QED
    BY <2>1, ResultUnchanged DEF Caller!vars
<1>10. QED
  BY <1>4, <1>5, <1>6, <1>7, <1>8, <1>9 DEF Next, Answer

LEMMA CallerInit ==
    ASSUME Init
    PROVE  Caller!Init
<1>1. Result = [p \in Placements |-> "none"]
  BY DEF Init, Result, Returned
<1>2. QED
  BY <1>1 DEF Init, Caller!Init

\* The client keeps what AtLeastOnce promises the caller of an order.
THEOREM ClientImplementsAtLeastOnce == Spec => ImplementsAtLeastOnce
<1>1. EffectInv /\ [Next]_vars => [Caller!Next]_Caller!vars
  BY CallerStep
<1>2. QED
  BY <1>1, CallerInit, EffectInvariant, PTL DEF Spec, ImplementsAtLeastOnce, Caller!Spec
=============================================================================
