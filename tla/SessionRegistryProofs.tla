----------------------- MODULE SessionRegistryProofs -----------------------
(***************************************************************************)
(* What holds of the registry for every set of sessions and every cap: a   *)
(* slot is taken exactly while the instance runs a turn, live workers have *)
(* an instance, and the turn cap holds.                                    *)
(***************************************************************************)
EXTENDS SessionRegistry, FiniteSetTheorems, TLAPS

-----------------------------------------------------------------------------
(* Instances *)

\* The absent entry is no entry.
LEMMA NoneIsNoEntry == None \notin Entry
<1>1. \A e \in Entry : DOMAIN e = {"inFlight", "cancelled", "stale"}
    BY DEF Entry
<1>2. DOMAIN None = {"none"}
    BY DEF None
<1>3. "inFlight" \notin {"none"}
    OBVIOUS
<1> QED  BY <1>1, <1>2, <1>3

\* The values the code puts in the registry are entries; a settle keeps the slot.
LEMMA EntryFields ==
    ASSUME NEW e \in Entry
    PROVE  /\ e.inFlight \in BOOLEAN /\ e.cancelled \in BOOLEAN /\ e.stale \in BOOLEAN
           /\ \A b \in BOOLEAN : [e EXCEPT !.inFlight = b] \in Entry
           /\ \A b \in BOOLEAN : [e EXCEPT !.inFlight = b].inFlight = b
           /\ \A b \in BOOLEAN : [e EXCEPT !.cancelled = b] \in Entry
           /\ \A b \in BOOLEAN : [e EXCEPT !.cancelled = b].inFlight = e.inFlight
           /\ \A b \in BOOLEAN : [e EXCEPT !.stale = b] \in Entry
           /\ \A b \in BOOLEAN : [e EXCEPT !.stale = b].inFlight = e.inFlight
BY DEF Entry

\* A fresh entry is one, and has no turn.
LEMMA FreshEntry ==
    /\ Fresh \in Entry /\ Fresh.inFlight = FALSE
    /\ \A b \in BOOLEAN : [Fresh EXCEPT !.inFlight = b] \in Entry /\ [Fresh EXCEPT !.inFlight = b].inFlight = b
<1>1. Fresh \in Entry
    BY DEF Fresh, Entry
<1>2. Fresh.inFlight = FALSE
    BY DEF Fresh
<1> QED  BY <1>1, <1>2, EntryFields

\* The registered keys are those with an entry.
LEMMA RegisteredEntry ==
    ASSUME TypeOK, NEW k \in Key
    PROVE  (k \in Registered) <=> (entry[k] \in Entry)
BY NoneIsNoEntry DEF TypeOK, Registered

\* A change that marks an entry, or lifts the mark, leaves its slot.
LEMMA SettledEntry ==
    ASSUME TypeOK, NEW k \in Registered, NEW mark \in BOOLEAN
    PROVE  /\ AfterSettle(k, mark) \in Entry
           /\ AfterSettle(k, mark).inFlight = entry[k].inFlight
<1>1. entry[k] \in Entry
    BY RegisteredEntry DEF Registered
<1>2. ((entry[k].stale \/ mark) /\ k \in PutOff) \in BOOLEAN
    OBVIOUS
<1> QED  BY <1>1, <1>2, EntryFields DEF AfterSettle

-----------------------------------------------------------------------------
(* The inductive invariant *)

\* A removal that waits, waits at one of its sessions.
RemovalAtSession == removal.phase # "off" => removal.at \in Session

\* The default instance is always registered: it is pinned, and no session.
DefaultRegistered == Default \in Registered

Inv == TypeOK /\ RemovalAtSession /\ DefaultRegistered /\ SlotMatchesTurn /\ WorkersHaveHost

\* What the actions leave alone is still well typed.
OrderTyped == older \subseteq Session \X Session /\ cold \subseteq Session
RemovalTyped ==
    /\ removal \in [phase : {"off", "settling", "joining"}, ids : SUBSET Session,
                     left : SUBSET Session, at : Session \cup {None}]
    /\ orphans \subseteq Session /\ away \subseteq Session

\* No instance is lost but the idle, unpinned ones `gone`; the slots `taken`
\* are taken by turns, and nothing else changes in what runs.
Keeps(gone, taken) ==
    /\ entry' \in [Key -> Entry \cup {None}]
    /\ gone \subseteq Registered \ PutOff
    /\ Registered \ gone \subseteq Registered'
    /\ Busy' = Busy \cup taken
    /\ running' = running \cup taken
    /\ workers' = workers

\* Instances with work are put off by every change and eviction.
LEMMA WorkIsPutOff ==
    ASSUME Inv
    PROVE  /\ Busy \subseteq PutOff /\ running \subseteq PutOff /\ workers \subseteq PutOff
           /\ PutOff \subseteq Registered /\ Registered \subseteq Key
           /\ Evictable \subseteq Registered \ PutOff /\ Evictable \subseteq Session
           /\ \A ks : running \ Rebuilt(ks) = running /\ workers \ Rebuilt(ks) = workers
<1>1. Busy \subseteq PutOff /\ running \subseteq PutOff /\ workers \subseteq PutOff
    BY DEF Inv, SlotMatchesTurn, PutOff
<1>2. PutOff \subseteq Registered /\ Registered \subseteq Key
    BY DEF Inv, SlotMatchesTurn, WorkersHaveHost, PutOff, Busy, Registered
<1>3. Evictable \subseteq Registered \ PutOff
    BY DEF Evictable, Pinned, PutOff
<1>4. Evictable \subseteq Session
    BY <1>2 DEF Evictable, Pinned, Key
<1>5. \A ks : running \ Rebuilt(ks) = running /\ workers \ Rebuilt(ks) = workers
    BY <1>1 DEF Rebuilt
<1> QED  BY <1>1, <1>2, <1>3, <1>4, <1>5

\* The slots after a step, from the values the step leaves in the registry.
LEMMA BusyAfter ==
    ASSUME Inv, NEW taken \in SUBSET Key,
           entry' \in [Key -> Entry \cup {None}],
           \A k \in Key \ taken : \/ entry'[k] = None /\ k \notin Busy
                                  \/ entry'[k] = entry[k]
                                  \/ /\ k \in Registered /\ entry'[k] \in Entry
                                     /\ entry'[k].inFlight = entry[k].inFlight
                                  \/ k \notin Busy /\ entry'[k] \in Entry /\ entry'[k].inFlight = FALSE,
           \A k \in taken : entry'[k] \in Entry /\ entry'[k].inFlight = TRUE
    PROVE  Busy' = Busy \cup taken
<1>1. ASSUME NEW k \in taken PROVE k \in Busy'
    BY <1>1, NoneIsNoEntry DEF Busy, Registered
<1>2. ASSUME NEW k \in Key \ taken PROVE (k \in Busy') <=> (k \in Busy)
  <2>1. CASE entry'[k] = None /\ k \notin Busy
    BY <2>1 DEF Busy, Registered
  <2>2. CASE entry'[k] = entry[k]
    BY <2>2 DEF Busy, Registered
  <2>3. CASE k \in Registered /\ entry'[k] \in Entry /\ entry'[k].inFlight = entry[k].inFlight
    BY <2>3, NoneIsNoEntry DEF Busy, Registered
  <2>4. CASE k \notin Busy /\ entry'[k] \in Entry /\ entry'[k].inFlight = FALSE
    BY <2>4 DEF Busy, Registered
  <2> QED  BY <1>2, <2>1, <2>2, <2>3, <2>4
<1> QED  BY <1>1, <1>2 DEF Busy, Registered

-----------------------------------------------------------------------------
(* What the actions keep *)

\* The order of last use stays among the sessions.
LEMMA OrderKept ==
    ASSUME Inv
    PROVE  /\ \A k \in Key : Touched(k) \subseteq Session \X Session
           /\ \A ks : Without(ks) \subseteq Session \X Session /\ cold \ ks \subseteq Session
<1>1. older \subseteq Session \X Session /\ cold \subseteq Session /\ Registered \subseteq Key
    BY WorkIsPutOff DEF Inv, TypeOK
<1>2. ASSUME NEW k \in Key PROVE Touched(k) \subseteq Session \X Session
  <2>1. CASE k = Default
    BY <1>1, <2>1 DEF Touched
  <2>2. CASE k \in Session /\ k # Default
    <3>1. Registered \ {k, Default} \subseteq Session
      BY <1>1 DEF Key
    <3>2. Touched(k) = {p \in older : p[1] # k} \cup ((Registered \ {k, Default}) \X {k})
      BY <2>2 DEF Touched
    <3> QED  BY <1>1, <2>2, <3>1, <3>2
  <2> QED  BY <2>1, <2>2 DEF Key
<1>3. \A ks : Without(ks) \subseteq Session \X Session /\ cold \ ks \subseteq Session
    BY <1>1 DEF Without
<1> QED  BY <1>2, <1>3

\* A use keeps the order of last use.
LEMMA TouchKeepsOrder ==
    ASSUME Inv, NEW k \in Key, older' = Touched(k), cold' = cold \ {k}
    PROVE  OrderTyped'
<1>1. older' \subseteq Session \X Session
    BY OrderKept
<1>2. cold' \subseteq Session
    BY DEF Inv, TypeOK
<1> QED  BY <1>1, <1>2 DEF OrderTyped

\* A request that uses an instance takes the work of none.
LEMMA UseKeeps ==
    ASSUME Inv, NEW k \in Key, NEW busy \in BOOLEAN, Use(k, busy)
    PROVE  /\ \E gone \in SUBSET Session : Keeps(gone, {x \in {k} : busy})
           /\ OrderTyped'
<1> DEFINE taken == {x \in {k} : busy}
           there == /\ k \in Registered
                    /\ entry' = [entry EXCEPT ![k] = [AfterSettle(k, FALSE) EXCEPT !.inFlight = @ \/ busy]]
                    /\ running' = (running \ (IF entry[k].stale THEN Rebuilt({k}) ELSE {})) \cup taken
                    /\ workers' = workers \ (IF entry[k].stale THEN Rebuilt({k}) ELSE {})
                    /\ older' = Touched(k) /\ cold' = cold \ {k}
           made(vs) == /\ k \notin Registered /\ IsVictims(vs)
                       /\ entry' = [x \in Key |->
                              IF x = k THEN [Fresh EXCEPT !.inFlight = busy]
                              ELSE IF x \in vs THEN None ELSE entry[x]]
                       /\ older' = Without(vs) \cup ((Registered \ (vs \cup {Default})) \X {k})
                       /\ cold' = cold \ vs
                       /\ running' = running \cup taken
                       /\ workers' = workers
<1>0. taken \in SUBSET Key /\ (taken # {} => busy = TRUE) /\ (k \notin taken => busy = FALSE)
    OBVIOUS
<1>1. CASE there
  <2> DEFINE e == AfterSettle(k, FALSE)
             f == [e EXCEPT !.inFlight = @ \/ busy]
  <2>1. e \in Entry /\ e.inFlight = entry[k].inFlight
    BY <1>1, SettledEntry DEF Inv
  <2>2. (e.inFlight \/ busy) \in BOOLEAN /\ f = [e EXCEPT !.inFlight = e.inFlight \/ busy]
    OBVIOUS
  <2>3. f \in Entry /\ f.inFlight = (e.inFlight \/ busy)
    BY <2>1, <2>2, EntryFields
  <2>4. entry' = [entry EXCEPT ![k] = f]
    BY <1>1
  <2>5. entry' \in [Key -> Entry \cup {None}] /\ entry'[k] = f /\ \A x \in Key \ {k} : entry'[x] = entry[x]
    BY <2>3, <2>4 DEF Inv, TypeOK
  <2>6. Busy' = Busy \cup taken
    <3>1. \A x \in taken : entry'[x] \in Entry /\ entry'[x].inFlight = TRUE
      BY <1>0, <2>3, <2>5
    <3>2. k \notin taken => entry'[k] \in Entry /\ entry'[k].inFlight = entry[k].inFlight
      <4>1. entry[k].inFlight \in BOOLEAN
        BY <1>1, <2>1, EntryFields
      <4> QED  BY <1>0, <2>1, <2>3, <2>5, <4>1
    <3> QED  BY <1>0, <1>1, <2>5, <3>1, <3>2, BusyAfter
  <2>7. Registered \subseteq Registered'
    BY <2>3, <2>5, NoneIsNoEntry DEF Registered
  <2>8. running' = running \cup taken /\ workers' = workers
    BY <1>1, WorkIsPutOff
  <2>9. OrderTyped'
    BY <1>1, TouchKeepsOrder
  <2> HIDE DEF taken, e, f
  <2>10. Keeps({}, taken)
    BY <2>5, <2>6, <2>7, <2>8 DEF Keeps
  <2> QED  BY <2>9, <2>10 DEF taken
<1>2. ASSUME NEW vs \in SUBSET Evictable, made(vs)
      PROVE  Keeps(vs, taken) /\ OrderTyped' /\ vs \in SUBSET Session
  <2>1. vs \subseteq Registered \ PutOff /\ vs \subseteq Session
    BY WorkIsPutOff
  <2>2. /\ entry'[k] = [Fresh EXCEPT !.inFlight = busy]
        /\ \A x \in Key \ {k} : entry'[x] = IF x \in vs THEN None ELSE entry[x]
    BY <1>2
  <2>3. entry'[k] \in Entry /\ entry'[k].inFlight = busy
    BY <2>2, FreshEntry
  <2>4. entry' \in [Key -> Entry \cup {None}]
    BY <1>2, <2>2, <2>3 DEF Inv, TypeOK
  <2>5. Busy' = Busy \cup taken
    <3>1. k \notin Busy /\ vs \cap Busy = {}
      BY <1>2, WorkIsPutOff DEF Busy
    <3> QED  BY <1>0, <2>2, <2>3, <2>4, <3>1, BusyAfter
  <2>6. Registered \ vs \subseteq Registered'
    BY <1>2, <2>2 DEF Registered
  <2>7. OrderTyped'
    <3>1. k \in Session
      BY <1>2 DEF Inv, DefaultRegistered, Key
    <3> QED  BY <1>2, <2>1, <3>1 DEF Inv, TypeOK, OrderTyped, Without, Registered, Key
  <2> QED  BY <1>2, <2>1, <2>4, <2>5, <2>6, <2>7 DEF Keeps
<1>3. there \/ \E vs \in SUBSET Evictable : made(vs)
    BY DEF Use
<1> QED  BY <1>1, <1>2, <1>3

\* Settling marks and evicting idle, unpinned instances takes no work away.
LEMMA SettleKeeps ==
    ASSUME Inv, NEW ks \in SUBSET Registered, NEW mark \in BOOLEAN, NEW gone \in SUBSET Evictable,
           entry' = [k \in Key |-> IF k \in gone THEN None
                                   ELSE IF k \in ks THEN AfterSettle(k, mark) ELSE entry[k]],
           running' = running \ Rebuilt(ks), workers' = workers \ Rebuilt(ks)
    PROVE  Keeps(gone, {})
<1>0. gone \subseteq Registered \ PutOff /\ gone \cap Busy = {} /\ Registered \subseteq Key
    BY WorkIsPutOff
<1>1. \A k \in ks : AfterSettle(k, mark) \in Entry /\ AfterSettle(k, mark).inFlight = entry[k].inFlight
    BY SettledEntry DEF Inv
<1>2. /\ \A k \in gone : entry'[k] = None
      /\ \A k \in ks \ gone : entry'[k] = AfterSettle(k, mark)
      /\ \A k \in Key \ (ks \cup gone) : entry'[k] = entry[k]
    BY <1>0
<1>3. entry' \in [Key -> Entry \cup {None}]
    BY <1>1 DEF Inv, TypeOK
<1>4. Busy' = Busy \cup {}
    BY <1>0, <1>1, <1>2, <1>3, BusyAfter
<1>5. Registered \ gone \subseteq Registered'
    BY <1>1, <1>2, NoneIsNoEntry DEF Registered
<1>6. running' = running \cup {} /\ workers' = workers
    BY WorkIsPutOff
<1> QED  BY <1>0, <1>3, <1>4, <1>5, <1>6 DEF Keeps

\* Nor does an auto-wake.
LEMMA WakeKeeps ==
    ASSUME Inv, NEW k \in Key, Wake(k)
    PROVE  Keeps({}, {k}) /\ OrderTyped'
<1>1. k \in Registered /\ entry' = [entry EXCEPT ![k].inFlight = TRUE]
    BY DEF Wake
<1>2. entry[k] \in Entry
    BY <1>1, RegisteredEntry DEF Inv
<1>3. [entry[k] EXCEPT !.inFlight = TRUE] \in Entry /\ [entry[k] EXCEPT !.inFlight = TRUE].inFlight = TRUE
    BY <1>2, EntryFields
<1>4. /\ entry' \in [Key -> Entry \cup {None}]
      /\ entry'[k] = [entry[k] EXCEPT !.inFlight = TRUE]
      /\ \A x \in Key \ {k} : entry'[x] = entry[x]
    BY <1>1, <1>3 DEF Inv, TypeOK
<1>5. Busy' = Busy \cup {k}
    BY <1>3, <1>4, BusyAfter
<1>6. Registered \subseteq Registered'
    BY <1>3, <1>4, NoneIsNoEntry DEF Registered
<1>7. Keeps({}, {k})
    BY <1>4, <1>5, <1>6 DEF Keeps, Wake
<1> QED  BY <1>7, TouchKeepsOrder DEF Wake

\* Nor does a cancel.
LEMMA CancelKeeps ==
    ASSUME Inv, NEW k \in Registered, entry' = [entry EXCEPT ![k].cancelled = TRUE],
           UNCHANGED <<running, workers>>
    PROVE  Keeps({}, {})
<1>1. entry[k] \in Entry /\ k \in Key
    BY RegisteredEntry DEF Inv, Registered
<1>2. /\ [entry[k] EXCEPT !.cancelled = TRUE] \in Entry
      /\ [entry[k] EXCEPT !.cancelled = TRUE].inFlight = entry[k].inFlight
    BY <1>1, EntryFields
<1>3. /\ entry' \in [Key -> Entry \cup {None}]
      /\ entry'[k] = [entry[k] EXCEPT !.cancelled = TRUE]
      /\ \A x \in Key \ {k} : entry'[x] = entry[x]
    BY <1>1, <1>2 DEF Inv, TypeOK
<1>4. Busy' = Busy \cup {}
    BY <1>2, <1>3, BusyAfter
<1>5. Registered \subseteq Registered'
    BY <1>2, <1>3, NoneIsNoEntry DEF Registered
<1> QED  BY <1>3, <1>4, <1>5 DEF Keeps

\* A step that keeps the work keeps the invariant.
LEMMA KeepsInv ==
    ASSUME Inv, NEW gone \in SUBSET Session, NEW taken \in SUBSET Key, Keeps(gone, taken),
           OrderTyped', UNCHANGED <<removal, orphans, away>>
    PROVE  Inv'
<1>1. TypeOK'
    BY DEF Inv, TypeOK, Keeps, OrderTyped
<1>2. DefaultRegistered'
    BY DefaultAssumption DEF Inv, DefaultRegistered, Keeps
<1>3. SlotMatchesTurn'
    BY DEF Inv, SlotMatchesTurn, Keeps
<1>4. WorkersHaveHost'
    BY DEF Inv, WorkersHaveHost, Keeps, PutOff
<1>5. RemovalAtSession'
    BY DEF Inv, RemovalAtSession
<1> QED  BY <1>1, <1>2, <1>3, <1>4, <1>5 DEF Inv

\* The end of a turn frees its slot and no other.
LEMMA EndTurnInv ==
    ASSUME Inv, NEW k \in Key, EndTurn(k)
    PROVE  Inv' /\ Busy' = Busy \ {k} /\ Registered' = Registered
<1>1. k \in Registered /\ entry[k] \in Entry
    BY RegisteredEntry DEF Inv, EndTurn, Busy
<1> DEFINE freed == [[entry[k] EXCEPT !.inFlight = FALSE] EXCEPT !.cancelled = FALSE]
<1>2. freed \in Entry /\ freed.inFlight = FALSE
    BY <1>1, EntryFields
<1> HIDE DEF freed
<1>3. entry' = [entry EXCEPT ![k] = freed]
    BY DEF EndTurn, freed, Inv, TypeOK
<1>4. /\ entry' \in [Key -> Entry \cup {None}]
      /\ entry'[k] = freed
      /\ \A x \in Key \ {k} : entry'[x] = entry[x]
    BY <1>2, <1>3 DEF Inv, TypeOK
<1>5. Registered' = Registered
    BY <1>1, <1>2, <1>4, NoneIsNoEntry DEF Registered
<1>6. Busy' = Busy \ {k}
  <2>1. k \notin Busy'
    BY <1>2, <1>4 DEF Busy
  <2>2. ASSUME NEW x \in Key \ {k} PROVE (x \in Busy') <=> (x \in Busy)
    BY <1>4, <1>5 DEF Busy
  <2> QED  BY <2>1, <2>2 DEF Busy, Registered
<1>7. OrderTyped'
    BY TouchKeepsOrder DEF EndTurn
<1>8. TypeOK'
    BY <1>4, <1>7 DEF Inv, TypeOK, OrderTyped, EndTurn
<1>9. SlotMatchesTurn' /\ WorkersHaveHost' /\ DefaultRegistered' /\ RemovalAtSession'
    BY <1>5, <1>6 DEF Inv, SlotMatchesTurn, WorkersHaveHost, DefaultRegistered, RemovalAtSession, EndTurn
<1> QED  BY <1>5, <1>6, <1>8, <1>9 DEF Inv

\* Only entries change their place: the rest of the slots stays.
LEMMA SameEntries ==
    ASSUME UNCHANGED entry
    PROVE  Registered' = Registered /\ Busy' = Busy
BY DEF Registered, Busy

\* Workers start and settle under an instance that is there.
LEMMA WorkersInv ==
    ASSUME Inv, NEW k \in Key, WorkersStart(k) \/ WorkersSettle(k)
    PROVE  Inv'
<1>1. UNCHANGED <<entry, running, older, cold, removal, orphans, away>> /\ workers' \subseteq Registered
    BY DEF WorkersStart, WorkersSettle, Inv, WorkersHaveHost
<1>2. TypeOK'
    BY <1>1 DEF Inv, TypeOK, Registered
<1>3. SlotMatchesTurn' /\ WorkersHaveHost' /\ DefaultRegistered' /\ RemovalAtSession'
    BY <1>1, SameEntries DEF Inv, SlotMatchesTurn, WorkersHaveHost, DefaultRegistered, RemovalAtSession
<1> QED  BY <1>2, <1>3 DEF Inv

-----------------------------------------------------------------------------
(* Removals *)

\* Instances leave with their turns and workers; every other keeps its own.
LEMMA DetachInv ==
    ASSUME Inv, NEW ks \in SUBSET Session, NEW flagged \in SUBSET Busy,
           Detach(ks),
           entry' \in [Key -> Entry \cup {None}],
           \A k \in ks : entry'[k] = None,
           \A k \in Key \ (ks \cup flagged) : entry'[k] = entry[k],
           \A k \in flagged \ ks : entry'[k] \in Entry /\ entry'[k].inFlight = entry[k].inFlight,
           RemovalTyped', RemovalAtSession'
    PROVE  /\ Inv'
           /\ Registered' = Registered \ ks /\ Busy' = Busy \ ks
<1>1. Registered' = Registered \ ks
  <2>1. ASSUME NEW k \in flagged \ ks PROVE k \in Registered /\ k \in Registered'
    BY NoneIsNoEntry DEF Busy, Registered
  <2>2. ASSUME NEW k \in Key \ (ks \cup flagged) PROVE (k \in Registered') <=> (k \in Registered)
    BY DEF Registered
  <2>3. \A k \in ks : k \notin Registered'
    BY DEF Registered
  <2> QED  BY <2>1, <2>2, <2>3 DEF Registered
<1>2. Busy' = Busy \ ks
  <2>1. ASSUME NEW k \in flagged \ ks PROVE k \in Busy'
    BY <1>1 DEF Busy
  <2>2. ASSUME NEW k \in Key \ (ks \cup flagged) PROVE (k \in Busy') <=> (k \in Busy)
    BY <1>1 DEF Busy
  <2>3. Busy' \subseteq Registered' /\ Busy \subseteq Key
    BY DEF Busy, Registered
  <2> QED  BY <1>1, <2>1, <2>2, <2>3 DEF Registered
<1>3. OrderTyped'
    BY OrderKept DEF Detach, OrderTyped
<1>4. TypeOK'
    BY <1>3 DEF Inv, TypeOK, OrderTyped, RemovalTyped, Detach
<1>5. SlotMatchesTurn' /\ WorkersHaveHost' /\ DefaultRegistered'
    BY <1>1, <1>2, DefaultAssumption DEF Inv, SlotMatchesTurn, WorkersHaveHost, DefaultRegistered, Detach
<1> QED  BY <1>1, <1>2, <1>4, <1>5 DEF Inv

\* The map without some sessions.
LEMMA UnlistedTyped ==
    ASSUME Inv, NEW ks \in SUBSET Session
    PROVE  /\ Unlisted(ks) \in [Key -> Entry \cup {None}]
           /\ \A k \in ks : Unlisted(ks)[k] = None
           /\ \A k \in Key \ ks : Unlisted(ks)[k] = entry[k]
BY DEF Inv, TypeOK, Unlisted, Key

\* Sessions that leave the map take their own turns and workers with them.
LEMMA UnlistInv ==
    ASSUME Inv, NEW ks \in SUBSET Session, Detach(ks), entry' = Unlisted(ks),
           RemovalTyped', RemovalAtSession'
    PROVE  Inv' /\ Registered' = Registered \ ks /\ Busy' = Busy \ ks
<1>1. /\ entry' \in [Key -> Entry \cup {None}]
      /\ \A k \in ks : entry'[k] = None
      /\ \A k \in Key \ ks : entry'[k] = entry[k]
    BY UnlistedTyped
<1>2. {} \in SUBSET Busy /\ ks \cup {} = ks /\ {} \ ks = {}
    OBVIOUS
<1> QED  BY <1>1, <1>2, DetachInv

\* What is detached are sessions.
LEMMA DetachTyped ==
    ASSUME Inv, NEW ks \in SUBSET Session, Detach(ks)
    PROVE  orphans' \subseteq Session
BY DEF Inv, TypeOK, Detach

\* The instances `ks` have left; one with work, if any, is the one the removal
\* now waits for.
Leaves(ks) ==
    /\ Registered' = Registered \ ks /\ Busy' = Busy \ ks
    /\ running' = running \ ks /\ workers' = workers \ ks
    /\ \A k \in ks \cap PutOff : removal'.phase = "joining" /\ removal'.at = k

\* The record of a removal under way.
LEMMA RemovalRecord ==
    ASSUME NEW ids \in SUBSET Session, NEW left \in SUBSET Session, NEW b \in Session,
           NEW p \in {"settling", "joining"},
           removal' = [phase |-> p, ids |-> ids, left |-> left, at |-> b],
           orphans' \subseteq Session, away' \subseteq Session
    PROVE  RemovalTyped' /\ RemovalAtSession'
BY DEF RemovalTyped, RemovalAtSession

\* A removal that goes on takes sessions off the map, and their work with them.
LEMMA GoOnInv ==
    ASSUME Inv, NEW ids \in SUBSET Session, NEW left \in SUBSET Session, NEW cut \in SUBSET left,
           GoOn(ids, left, cut)
    PROVE  Inv' /\ \E ks \in SUBSET Session : Leaves(ks)
<1>0. cut \cap PutOff = {} /\ cut \subseteq Session
    BY DEF GoOn
<1>1. CASE /\ Detach(cut) /\ entry' = Unlisted(cut)
           /\ removal' = NoRemoval /\ away' = away \cup ids
  <2>1. RemovalTyped' /\ RemovalAtSession'
    BY <1>0, <1>1, DetachTyped DEF RemovalTyped, RemovalAtSession, NoRemoval, Inv, TypeOK
  <2>2. Inv' /\ Registered' = Registered \ cut /\ Busy' = Busy \ cut
    BY <1>0, <1>1, <2>1, UnlistInv
  <2>3. Leaves(cut)
    BY <1>0, <1>1, <2>2 DEF Leaves, Detach
  <2> QED  BY <1>0, <2>2, <2>3
<1>2. ASSUME NEW b \in (left \ cut) \cap Busy,
             Detach(cut), entry' = [Unlisted(cut) EXCEPT ![b].cancelled = TRUE],
             removal' = [phase |-> "settling", ids |-> ids, left |-> left \ cut, at |-> b],
             away' = away
      PROVE  Inv' /\ Leaves(cut)
  <2>1. RemovalTyped' /\ RemovalAtSession'
    BY <1>0, <1>2, DetachTyped DEF RemovalTyped, RemovalAtSession, Inv, TypeOK
  <2>2. Unlisted(cut)[b] = entry[b] /\ entry[b] \in Entry /\ b \in Key
    BY <1>0, UnlistedTyped, RegisteredEntry DEF Inv, Busy, Registered
  <2>3. /\ [entry[b] EXCEPT !.cancelled = TRUE] \in Entry
        /\ [entry[b] EXCEPT !.cancelled = TRUE].inFlight = entry[b].inFlight
    BY <2>2, EntryFields
  <2>4. /\ entry' \in [Key -> Entry \cup {None}]
        /\ entry'[b] = [entry[b] EXCEPT !.cancelled = TRUE]
        /\ \A x \in Key \ {b} : entry'[x] = Unlisted(cut)[x]
    <3> DEFINE u == Unlisted(cut)
               c == [entry[b] EXCEPT !.cancelled = TRUE]
    <3>1. u \in [Key -> Entry \cup {None}] /\ u[b] = entry[b]
      BY <1>0, <2>2, UnlistedTyped
    <3>2. entry' = [u EXCEPT ![b].cancelled = TRUE]
      BY <1>2
    <3> HIDE DEF u
    <3>3. entry' = [u EXCEPT ![b] = c]
      BY <3>1, <3>2
    <3> HIDE DEF c
    <3>4. /\ entry' \in [Key -> Entry \cup {None}] /\ entry'[b] = c
          /\ \A x \in Key \ {b} : entry'[x] = u[x]
      BY <2>2, <2>3, <3>1, <3>3 DEF c
    <3> QED  BY <3>4 DEF u, c
  <2>5. /\ \A k \in cut : entry'[k] = None
        /\ \A k \in Key \ (cut \cup {b}) : entry'[k] = entry[k]
    <3>1. b \notin cut /\ cut \subseteq Key
      BY <1>0 DEF Key
    <3>2. /\ \A k \in cut : Unlisted(cut)[k] = None
          /\ \A k \in Key \ cut : Unlisted(cut)[k] = entry[k]
      BY <1>0, UnlistedTyped
    <3> QED  BY <2>4, <3>1, <3>2
  <2>6. Inv' /\ Registered' = Registered \ cut /\ Busy' = Busy \ cut
    <3>1. \A k \in {b} \ cut : entry'[k] \in Entry /\ entry'[k].inFlight = entry[k].inFlight
      BY <2>3, <2>4
    <3>2. {b} \in SUBSET Busy /\ cut \in SUBSET Session /\ Detach(cut)
      BY <1>0, <1>2
    <3> QED  BY <2>1, <2>4, <2>5, <3>1, <3>2, DetachInv
  <2>7. Leaves(cut)
    BY <1>0, <1>2, <2>6 DEF Leaves, Detach
  <2> QED  BY <2>6, <2>7
<1>3. ASSUME NEW b \in (left \ cut) \cap (workers \ Busy),
             Detach(cut \cup {b}), entry' = Unlisted(cut \cup {b}),
             removal' = [phase |-> "joining", ids |-> ids, left |-> left \ (cut \cup {b}), at |-> b],
             away' = away
      PROVE  Inv' /\ Leaves(cut \cup {b}) /\ cut \cup {b} \in SUBSET Session
  <2>0. cut \cup {b} \in SUBSET Session
    BY <1>0
  <2>1. RemovalTyped' /\ RemovalAtSession'
    <3>1. orphans' \subseteq Session /\ away' \subseteq Session
      BY <1>3, <2>0, DetachTyped DEF Inv, TypeOK
    <3>2. b \in Session /\ left \ (cut \cup {b}) \in SUBSET Session
      BY <2>0
    <3> QED  BY <1>3, <3>1, <3>2, RemovalRecord
  <2>2. Inv' /\ Registered' = Registered \ (cut \cup {b}) /\ Busy' = Busy \ (cut \cup {b})
    BY <1>3, <2>0, <2>1, UnlistInv
  <2>3. Leaves(cut \cup {b})
    BY <1>0, <1>3, <2>2 DEF Leaves, Detach
  <2> QED  BY <2>0, <2>2, <2>3
<1> QED  BY <1>0, <1>1, <1>2, <1>3 DEF GoOn

\* So does the one that detaches at last.
LEMMA RemovalDetachInv ==
    ASSUME Inv, RemovalDetach
    PROVE  Inv' /\ \E ks \in SUBSET Session : Leaves(ks)
<1> DEFINE b == removal.at
<1>1. b \in Session
    BY DEF Inv, RemovalAtSession, RemovalDetach
<1>2. Detach({b}) /\ entry' = Unlisted({b}) /\ UNCHANGED away
    BY DEF RemovalDetach
<1>3. removal' = [removal EXCEPT !.phase = "joining", !.left = @ \ {b}]
    BY DEF RemovalDetach
<1>4. removal'.phase = "joining" /\ removal'.at = b
    BY <1>3 DEF Inv, TypeOK
<1>5. RemovalTyped' /\ RemovalAtSession'
  <2>1. orphans' \subseteq Session /\ away' \subseteq Session
    BY <1>1, <1>2, DetachTyped DEF Inv, TypeOK
  <2>2. removal.left \ {b} \in SUBSET Session
    BY DEF Inv, TypeOK
  <2>3. /\ removal' = [phase |-> "joining", ids |-> removal.ids, left |-> removal.left \ {b}, at |-> b]
        /\ removal.ids \in SUBSET Session
    BY <1>3 DEF Inv, TypeOK
  <2> QED  BY <1>1, <2>1, <2>2, <2>3, RemovalRecord
<1> HIDE DEF b
<1>6. Inv' /\ Registered' = Registered \ {b} /\ Busy' = Busy \ {b}
    BY <1>1, <1>2, <1>5, UnlistInv
<1>7. Leaves({b})
    BY <1>2, <1>4, <1>6 DEF Leaves, Detach
<1> QED  BY <1>1, <1>6, <1>7

\* So does every step of a removal.
LEMMA RemovalInv ==
    ASSUME Inv, (\E ids \in SUBSET (Removable \ away) \ {{}} : RemovalStart(ids)) \/ RemovalGoesOn
    PROVE  Inv' /\ \E ks \in SUBSET Session : Leaves(ks)
<1>0. removal.ids \in SUBSET Session /\ removal.left \in SUBSET Session
    BY DEF Inv, TypeOK
<1>1. ASSUME NEW ids \in SUBSET (Removable \ away) \ {{}}, RemovalStart(ids)
      PROVE  Inv' /\ \E ks \in SUBSET Session : Leaves(ks)
    BY <1>1, RemovableAssumption, GoOnInv DEF RemovalStart
<1>2. CASE RemovalSettled \/ RemovalJoined
    BY <1>0, <1>2, GoOnInv DEF RemovalSettled, RemovalJoined
<1>3. CASE RemovalDetach
    BY <1>3, RemovalDetachInv
<1> QED  BY <1>1, <1>2, <1>3 DEF RemovalGoesOn

-----------------------------------------------------------------------------
(* The steps *)

\* A step keeps the work there is and starts at most one turn, within the cap.
StartsOne ==
    \E gone \in SUBSET Session, taken \in SUBSET Key :
        /\ Keeps(gone, taken)
        /\ taken = {} \/ (TurnSlotFree /\ \E k \in Key : taken = {k})
Ends == \E k \in Key : EndTurn(k) /\ Busy' = Busy \ {k} /\ Registered' = Registered
WorkersMove == UNCHANGED <<entry, running>> /\ \E k \in Key : WorkersStart(k) \/ WorkersSettle(k)
Removes == \E ks \in SUBSET Session : Leaves(ks)

\* Where instances and their work stay, nothing is taken.
LEMMA UnchangedKeeps ==
    ASSUME Inv, UNCHANGED <<entry, running, workers>>
    PROVE  Keeps({}, {})
BY SameEntries DEF Keeps, Inv, TypeOK

\* Every step keeps the invariant and moves the slots in one of four ways.
LEMMA Steps ==
    ASSUME Inv, [Next]_vars
    PROVE  Inv' /\ (StartsOne \/ Ends \/ WorkersMove \/ Removes)
<1> USE DEF StartsOne, Ends, WorkersMove, Removes
<1>1. ASSUME NEW k \in Key, NEW busy \in BOOLEAN, Use(k, busy), busy => TurnSlotFree,
             UNCHANGED <<removal, orphans, away>>
      PROVE  Inv' /\ StartsOne
  <2>1. PICK gone \in SUBSET Session : Keeps(gone, {x \in {k} : busy})
    BY <1>1, UseKeeps
  <2>2. OrderTyped'
    BY <1>1, UseKeeps
  <2>3. {x \in {k} : busy} \in SUBSET Key
    OBVIOUS
  <2>4. {x \in {k} : busy} = {} \/ (TurnSlotFree /\ {x \in {k} : busy} = {k})
    BY <1>1
  <2> QED  BY <1>1, <2>1, <2>2, <2>3, <2>4, KeepsInv
<1>2. ASSUME NEW k \in Key, Ensure(k) \/ StartTurn(k) PROVE Inv' /\ StartsOne
  <2>1. CASE Ensure(k)
    BY <1>1, <2>1 DEF Ensure
  <2>2. CASE StartTurn(k)
    BY <1>1, <2>2 DEF StartTurn
  <2> QED  BY <1>2, <2>1, <2>2
<1>3. ASSUME NEW k \in Key, Wake(k) PROVE Inv' /\ StartsOne
  <2>1. Keeps({}, {k}) /\ OrderTyped'
    BY <1>3, WakeKeeps
  <2>2. {k} \in SUBSET Key /\ {} \in SUBSET Session /\ TurnSlotFree /\ UNCHANGED <<removal, orphans, away>>
    BY <1>3 DEF Wake
  <2> QED  BY <2>1, <2>2, KeepsInv
<1>4. ASSUME Keeps({}, {}), OrderTyped', UNCHANGED <<removal, orphans, away>> PROVE Inv' /\ StartsOne
    BY <1>4, KeepsInv
<1>5. ASSUME NEW k \in Key, Cancel(k) PROVE Inv' /\ StartsOne
  <2>1. Keeps({}, {}) /\ OrderTyped'
    BY <1>5, CancelKeeps DEF Cancel, Busy, OrderTyped, Inv, TypeOK
  <2> QED  BY <1>4, <1>5, <2>1 DEF Cancel
<1>6. ASSUME NEW k \in Key, EndTurn(k) PROVE Inv' /\ Ends
    BY <1>6, EndTurnInv
<1>7. ASSUME NEW k \in Key, WorkersStart(k) \/ WorkersSettle(k) PROVE Inv' /\ WorkersMove
    BY <1>7, WorkersInv DEF WorkersStart, WorkersSettle
<1>8. ASSUME NEW ks \in SUBSET Registered, NEW mark \in BOOLEAN, NEW gone \in SUBSET Evictable,
             entry' = [k \in Key |-> IF k \in gone THEN None
                                     ELSE IF k \in ks THEN AfterSettle(k, mark) ELSE entry[k]],
             running' = running \ Rebuilt(ks), workers' = workers \ Rebuilt(ks),
             OrderTyped', UNCHANGED <<removal, orphans, away>>
      PROVE  Inv' /\ StartsOne
  <2>1. Keeps(gone, {})
    BY <1>8, SettleKeeps
  <2>2. gone \in SUBSET Session /\ {} \in SUBSET Key
    BY WorkIsPutOff
  <2> QED  BY <1>8, <2>1, <2>2, KeepsInv
<1>9. ASSUME NEW ks \in SUBSET Registered, Invalidate(ks) PROVE Inv' /\ StartsOne
  <2>1. entry' = [k \in Key |-> IF k \in {} THEN None
                                ELSE IF k \in ks THEN AfterSettle(k, TRUE) ELSE entry[k]]
    BY <1>9 DEF Invalidate
  <2>2. OrderTyped'
    BY <1>9 DEF Invalidate, OrderTyped, Inv, TypeOK
  <2>3. /\ running' = running \ Rebuilt(ks) /\ workers' = workers \ Rebuilt(ks)
        /\ UNCHANGED <<removal, orphans, away>>
    BY <1>9 DEF Invalidate
  <2>4. {} \in SUBSET Evictable /\ TRUE \in BOOLEAN
    OBVIOUS
  <2> QED  BY ONLY <1>8, <2>1, <2>2, <2>3, <2>4, ks \in SUBSET Registered
<1>10. ASSUME Sweep PROVE Inv' /\ StartsOne
  <2> DEFINE evicted == cold \cap Evictable
             due == {k \in Registered \ evicted : entry[k].stale}
  <2>1. evicted \in SUBSET Evictable /\ due \in SUBSET Registered
    OBVIOUS
  <2>2. entry' = [k \in Key |-> IF k \in evicted THEN None
                                ELSE IF k \in due THEN AfterSettle(k, FALSE) ELSE entry[k]]
    BY <1>10 DEF Sweep
  <2>3. running' = running \ Rebuilt(due) /\ workers' = workers \ Rebuilt(due)
    BY <1>10 DEF Sweep
  <2>4. OrderTyped'
    BY <1>10, OrderKept DEF Sweep, OrderTyped
  <2>5. UNCHANGED <<removal, orphans, away>>
    BY <1>10 DEF Sweep
  <2> HIDE DEF evicted, due
  <2> QED  BY <1>8, <2>1, <2>2, <2>3, <2>4, <2>5
<1>11. ASSUME NEW s \in Session, EnsureRefused(s) PROVE Inv' /\ StartsOne
  <2>1. entry' = [k \in Key |-> IF k \in Evictable THEN None
                                ELSE IF k \in {} THEN AfterSettle(k, FALSE) ELSE entry[k]]
    BY <1>11 DEF EnsureRefused
  <2>2. OrderTyped'
    BY <1>11, OrderKept DEF EnsureRefused, OrderTyped
  <2>3. running' = running \ Rebuilt({}) /\ workers' = workers \ Rebuilt({})
    BY <1>11 DEF EnsureRefused, Rebuilt
  <2> QED  BY <1>8, <1>11, <2>1, <2>2, <2>3 DEF EnsureRefused
<1>12. ASSUME (\E ids \in SUBSET (Removable \ away) \ {{}} : RemovalStart(ids)) \/ RemovalGoesOn
       PROVE  Inv' /\ Removes
    BY <1>12, RemovalInv
<1>13. ASSUME UNCHANGED <<entry, running, workers>>, OrderTyped', RemovalTyped', UNCHANGED removal
       PROVE  Inv' /\ StartsOne
  <2>1. Keeps({}, {})
    BY <1>13, UnchangedKeeps
  <2>2. TypeOK' /\ RemovalAtSession'
    BY <1>13 DEF Inv, TypeOK, OrderTyped, RemovalTyped, RemovalAtSession
  <2>3. SlotMatchesTurn' /\ WorkersHaveHost' /\ DefaultRegistered'
    BY <1>13, SameEntries DEF Inv, SlotMatchesTurn, WorkersHaveHost, DefaultRegistered
  <2> QED  BY <2>1, <2>2, <2>3 DEF Inv
<1>14. CASE Age
    BY <1>13, <1>14 DEF Age, OrderTyped, RemovalTyped, Inv, TypeOK
<1>15. ASSUME NEW s \in Session, OrphanEnds(s) \/ Unarchive(s) PROVE Inv' /\ StartsOne
    BY <1>13, <1>15 DEF OrphanEnds, Unarchive, OrderTyped, RemovalTyped, Inv, TypeOK
<1>16. CASE UNCHANGED vars
    BY <1>13, <1>16 DEF vars, OrderTyped, RemovalTyped, Inv, TypeOK
<1>17. CASE InvalidateAll \/ \E k \in Key : InvalidateSession(k)
  <2>1. Registered \in SUBSET Registered /\ \A k \in Registered : {k} \in SUBSET Registered
    OBVIOUS
  <2> QED  BY <1>9, <1>17, <2>1 DEF InvalidateAll, InvalidateSession
<1> QED
  BY <1>2, <1>3, <1>5, <1>6, <1>7, <1>10, <1>11, <1>12, <1>14, <1>15, <1>16, <1>17 DEF Next

\* The invariant holds at the start.
LEMMA InvInit == Init => Inv
<1> SUFFICES ASSUME Init PROVE Inv
    OBVIOUS
<1>1. Default \in Key /\ \A k \in Key : entry[k] = IF k = Default THEN Fresh ELSE None
    BY DEF Init, Key
<1>2. TypeOK
    BY FreshEntry DEF Init, TypeOK, NoRemoval
<1>3. DefaultRegistered
    BY <1>1, FreshEntry, NoneIsNoEntry DEF DefaultRegistered, Registered
<1>4. Busy = {}
  <2> SUFFICES ASSUME NEW k \in Busy PROVE FALSE
      OBVIOUS
  <2>1. k \in Key /\ entry[k].inFlight /\ entry[k] # None
    BY DEF Busy, Registered
  <2> QED  BY <1>1, <2>1, FreshEntry
<1>5. SlotMatchesTurn /\ WorkersHaveHost /\ RemovalAtSession
    BY <1>4 DEF Init, SlotMatchesTurn, WorkersHaveHost, RemovalAtSession, NoRemoval
<1> QED  BY <1>2, <1>3, <1>5 DEF Inv

\* The invariant of the registry holds in every reachable state.
THEOREM Invariant == Spec => []Inv
<1>1. Inv /\ [Next]_vars => Inv'
    BY Steps
<1> QED  BY InvInit, <1>1, PTL DEF Spec

-----------------------------------------------------------------------------
(* What the runs check, for every set of sessions and every cap *)

\* The registry's state keeps its shape, whatever requests interleave.
THEOREM RegistryTypeCorrect == Spec => []TypeOK
<1>1. Inv => TypeOK
    BY DEF Inv
<1> QED  BY <1>1, Invariant, PTL

\* The slot of an instance is taken exactly while its own generation runs a
\* turn (session-registry.ts: beginTurn, endTurn, settleEpoch, evict, release).
THEOREM SlotAlwaysMatchesTurn == Spec => []SlotMatchesTurn
<1>1. Inv => SlotMatchesTurn
    BY DEF Inv
<1> QED  BY <1>1, Invariant, PTL

\* Live workers never belong to an instance that the registry dropped
\* (session-registry.ts: isPinned in makeRoom, sweep and rebuildIsDeferred).
THEOREM WorkersAlwaysHaveHost == Spec => []WorkersHaveHost
<1>1. Inv => WorkersHaveHost
    BY DEF Inv
<1> QED  BY <1>1, Invariant, PTL

\* Sets of slots are finite.
LEMMA SlotsAreFinite ==
    ASSUME NEW S \in SUBSET Key
    PROVE  IsFiniteSet(S) /\ Cardinality(S) \in Nat
<1>1. IsFiniteSet(Key)
    BY FiniteSession, FS_AddElement DEF Key
<1> QED  BY <1>1, FS_Subset, FS_CardinalityType

\* So are the busy ones.
LEMMA BusyIsFinite ==
    ASSUME Inv
    PROVE  IsFiniteSet(Busy) /\ Cardinality(Busy) \in Nat
BY SlotsAreFinite DEF Busy, Registered

\* No interleaving of turns, auto-wakes, evictions, swaps and removals runs more
\* turns than the cap (session-registry.ts: beginTurn).
THEOREM TurnCapHolds == Spec => []TurnCap
<1>1. Init => TurnCap
  <2> SUFFICES ASSUME Init PROVE TurnCap
      OBVIOUS
  <2>1. Inv
    BY InvInit
  <2>2. Busy = {}
    BY <2>1 DEF Inv, SlotMatchesTurn, Init
  <2> QED  BY <2>2, FS_EmptySet, MaxTurnsAssumption DEF TurnCap
<1>2. ASSUME Inv, TurnCap, [Next]_vars PROVE TurnCap'
  <2>0. IsFiniteSet(Busy) /\ Cardinality(Busy) \in Nat
    BY <1>2, BusyIsFinite
  <2>1. CASE StartsOne
    <3>1. PICK gone \in SUBSET Session, taken \in SUBSET Key :
              /\ Keeps(gone, taken)
              /\ taken = {} \/ (TurnSlotFree /\ \E k \in Key : taken = {k})
      BY <2>1 DEF StartsOne
    <3>2. Busy' = Busy \cup taken
      BY <3>1 DEF Keeps
    <3>3. CASE taken = {}
      BY <1>2, <3>2, <3>3 DEF TurnCap
    <3>4. ASSUME NEW k \in Key, taken = {k}, TurnSlotFree PROVE TurnCap'
      <4>1. Cardinality(Busy \cup {k}) = IF k \in Busy THEN Cardinality(Busy) ELSE Cardinality(Busy) + 1
        BY <2>0, FS_AddElement
      <4>2. Cardinality(Busy \cup {k}) \in Nat
        BY <2>0, FS_AddElement, FS_CardinalityType
      <4> QED  BY <2>0, <3>2, <3>4, <4>1, <4>2, MaxTurnsAssumption DEF TurnCap, TurnSlotFree
    <3> QED  BY <3>1, <3>3, <3>4
  <2>2. ASSUME Busy' \subseteq Busy PROVE TurnCap'
    <3>1. Cardinality(Busy') <= Cardinality(Busy) /\ Cardinality(Busy') \in Nat
      BY <2>0, <2>2, FS_Subset, FS_CardinalityType
    <3> QED  BY <1>2, <2>0, <3>1, MaxTurnsAssumption DEF TurnCap
  <2>3. CASE Ends
    BY <2>2, <2>3 DEF Ends
  <2>4. CASE WorkersMove
    BY <2>2, <2>4, SameEntries DEF WorkersMove
  <2>5. CASE Removes
    BY <2>2, <2>5 DEF Removes, Leaves
  <2> QED  BY <1>2, <2>1, <2>3, <2>4, <2>5, Steps
<1>3. Inv /\ TurnCap /\ [Next]_vars => TurnCap'
    BY <1>2
<1> QED  BY <1>1, <1>3, Invariant, PTL DEF Spec

\* Room, the reclaimer and configuration changes take no instance from its turn
\* or from its live workers (session-registry.ts: lruVictim, sweep,
\* rebuildIsDeferred): only the turn, the workers or a removal end them.
THEOREM WorkAlwaysSurvives == Spec => WorkSurvives
<1>1. ASSUME Inv, [Next]_vars PROVE WorkSurvivesStep
  <2> SUFFICES ASSUME NEW k \in Registered, k \in running \cup workers
               PROVE  \/ /\ entry'[k] # None
                         /\ k \in running => k \in running' \/ EndTurn(k)
                         /\ k \in workers => k \in workers' \/ WorkersSettle(k)
                      \/ removal'.phase = "joining" /\ removal'.at = k
      BY DEF WorkSurvivesStep
  <2>0. k \in PutOff /\ k \in Key
    BY <1>1, WorkIsPutOff
  <2>1. CASE StartsOne
    BY <2>0, <2>1 DEF StartsOne, Keeps, Registered
  <2>2. CASE Ends
    <3>1. PICK x \in Key : EndTurn(x) /\ Registered' = Registered
      BY <2>2 DEF Ends
    <3>2. entry'[k] # None /\ workers' = workers
      BY <2>0, <3>1 DEF Registered, EndTurn
    <3>3. k \in running => k \in running' \/ EndTurn(k)
      BY <3>1 DEF EndTurn
    <3> QED  BY <3>2, <3>3
  <2>3. CASE WorkersMove
    <3>1. entry'[k] # None /\ running' = running
      BY <2>3 DEF WorkersMove, Registered
    <3>2. k \in workers => k \in workers' \/ WorkersSettle(k)
      BY <2>3 DEF WorkersMove, WorkersStart, WorkersSettle
    <3> QED  BY <3>1, <3>2
  <2>4. CASE Removes
    <3>1. PICK ks \in SUBSET Session : Leaves(ks)
      BY <2>4 DEF Removes
    <3>2. CASE k \in ks
      BY <2>0, <3>1, <3>2 DEF Leaves
    <3>3. CASE k \notin ks
      BY <2>0, <3>1, <3>3 DEF Leaves, Registered
    <3> QED  BY <3>2, <3>3
  <2> QED  BY <1>1, <2>1, <2>2, <2>3, <2>4, Steps
<1>2. Inv /\ [Next]_vars => [WorkSurvivesStep]_vars
    BY <1>1
<1> QED  BY <1>2, Invariant, PTL DEF Spec, WorkSurvives

\* Making room for one more: the victims and the newcomer stay within the cap.
LEMMA RoomMade ==
    ASSUME Inv, NEW s \in Session \ Registered, RoomFor, NEW vs \in SUBSET Evictable, IsVictims(vs)
    PROVE  Cardinality((Counted \ vs) \cup {s}) <= MaxLive
<1>1. Counted \in SUBSET Key /\ Evictable \subseteq Counted /\ s \notin Counted
    BY DEF Counted, Registered, Evictable
<1>2. /\ IsFiniteSet(Counted) /\ Cardinality(Counted) \in Nat
      /\ IsFiniteSet(vs) /\ Cardinality(vs) \in Nat
      /\ IsFiniteSet(Counted \ vs) /\ Cardinality(Counted \ vs) \in Nat
    BY <1>1, SlotsAreFinite
<1>3. Cardinality(Counted) = Cardinality(vs) + Cardinality(Counted \ vs)
  <2>1. Counted = vs \cup (Counted \ vs) /\ vs \cap (Counted \ vs) = {}
    BY <1>1
  <2>2. Cardinality(vs \cup (Counted \ vs))
            = Cardinality(vs) + Cardinality(Counted \ vs) - Cardinality(vs \cap (Counted \ vs))
    BY <1>2, FS_Union
  <2>3. Cardinality(vs \cap (Counted \ vs)) = 0
    BY <2>1, FS_EmptySet
  <2>4. Cardinality(vs \cup (Counted \ vs)) = Cardinality(vs) + Cardinality(Counted \ vs)
    BY <1>2, <2>2, <2>3
  <2>5. Counted = vs \cup (Counted \ vs)
    BY <2>1
  <2> QED  BY <2>4, <2>5, Zenon
<1>4. Cardinality((Counted \ vs) \cup {s}) = Cardinality(Counted \ vs) + 1
    BY <1>1, <1>2, FS_AddElement
<1>5. Cardinality(vs) >= Excess
  <2>1. Excess \in Int
    BY <1>2, MaxLiveAssumption DEF Excess
  <2> QED  BY <1>2, <2>1 DEF IsVictims
<1> QED  BY <1>2, <1>3, <1>4, <1>5, MaxLiveAssumption DEF Excess

\* A request that composes an instance makes room for it.
LEMMA UseWithinCap ==
    ASSUME Inv, NEW k \in Key, NEW busy \in BOOLEAN, Use(k, busy),
           NEW s \in Session, entry[s] = None, entry'[s] # None
    PROVE  Cardinality(Counted') <= MaxLive
<1>0. s \in Key /\ s \notin Registered /\ entry \in [Key -> Entry \cup {None}]
    BY DEF Key, Registered, Inv, TypeOK
<1>1. k = s
    BY <1>0 DEF Use
<1>2. RoomFor
    BY <1>0, <1>1 DEF Use
<1>3. PICK vs \in SUBSET Evictable :
          /\ IsVictims(vs)
          /\ entry' = [x \in Key |-> IF x = k THEN [Fresh EXCEPT !.inFlight = busy]
                                     ELSE IF x \in vs THEN None ELSE entry[x]]
    BY <1>0, <1>1 DEF Use
<1>4. workers' = workers
    BY <1>0, <1>1 DEF Use
<1>5. Registered' = (Registered \ vs) \cup {s}
  <2>1. entry'[s] # None /\ \A x \in Key \ {s} : entry'[x] = IF x \in vs THEN None ELSE entry[x]
    BY <1>1, <1>3
  <2> QED  BY <1>0, <2>1 DEF Registered
<1>6. Counted' = (Counted \ vs) \cup {s}
  <2>1. s \notin workers /\ s # Default
    BY <1>0, DefaultAssumption DEF Inv, WorkersHaveHost
  <2>2. Counted = {x \in Registered : x # Default /\ x \notin workers}
    BY DEF Counted, Pinned
  <2>3. Counted' = {x \in Registered' : x # Default /\ x \notin workers'}
    BY DEF Counted, Pinned
  <2> QED  BY <1>4, <1>5, <2>1, <2>2, <2>3
<1> QED  BY <1>0, <1>2, <1>3, <1>6, RoomMade

\* Composing a session never leaves more counted instances than the cap, over
\* every interleaving (session-registry.ts: makeRoom before the new entry).
THEOREM LiveCapHolds == Spec => LiveCap
<1>1. ASSUME Inv, [Next]_vars, NEW s \in Session, entry[s] = None, entry'[s] # None
      PROVE  Cardinality(Counted') <= MaxLive
  <2>0. s \in Key /\ s \notin Registered /\ entry \in [Key -> Entry \cup {None}]
    BY <1>1 DEF Key, Registered, Inv, TypeOK
  <2>1. \E k \in Key : Ensure(k) \/ StartTurn(k)
    <3>1. ASSUME NEW k \in Key PROVE ~(Wake(k) \/ Cancel(k) \/ EndTurn(k))
      BY <1>1, <2>0 DEF Wake, Cancel, EndTurn, Busy
    <3>2. ~UNCHANGED entry
      BY <1>1
    <3>3. ASSUME NEW k \in Key PROVE ~(WorkersStart(k) \/ WorkersSettle(k))
      BY <3>2 DEF WorkersStart, WorkersSettle
    <3>4. ~InvalidateAll /\ \A k \in Key : ~InvalidateSession(k)
      BY <1>1, <2>0 DEF InvalidateAll, InvalidateSession, Invalidate
    <3>5. ~Age /\ ~UNCHANGED vars
      BY <3>2 DEF Age, vars
    <3>6. ~Sweep
      BY <1>1, <2>0 DEF Sweep
    <3>7. ASSUME NEW x \in Session PROVE ~(EnsureRefused(x) \/ OrphanEnds(x) \/ Unarchive(x))
      BY <1>1, <2>0, <3>2 DEF EnsureRefused, OrphanEnds, Unarchive
    <3>8. ~((\E ids \in SUBSET (Removable \ away) \ {{}} : RemovalStart(ids)) \/ RemovalGoesOn)
      BY <1>1, <2>0, RemovalInv DEF Leaves, Registered
    <3> QED  BY <1>1, <3>1, <3>3, <3>4, <3>5, <3>6, <3>7, <3>8 DEF Next
  <2> QED  BY <1>1, <2>1, UseWithinCap DEF Ensure, StartTurn
<1>2. Inv /\ [Next]_vars => [LiveCapStep]_vars
    BY <1>1 DEF LiveCapStep
<1> QED  BY <1>2, Invariant, PTL DEF Spec, LiveCap
=============================================================================
