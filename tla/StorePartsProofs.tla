------------------------- MODULE StorePartsProofs -------------------------
(***************************************************************************)
(* Proofs about parts of the store, each on its own and for every value of *)
(* its constants.                                                          *)
(*                                                                         *)
(* The stable DRAM cache, which the module extends: every stable lease has *)
(* one owner, the budget is charged with the leases that exist, and        *)
(* bytes_used_ follows the entries.                                        *)
(*                                                                         *)
(* The lifecycle kernel (Kernel): the uses of a capability are its guards, *)
(* it is admitted only while it may be, and it goes with its last guard.   *)
(*                                                                         *)
(* The retention handles (Retention): a handle on record has a lease that  *)
(* will expire it.                                                         *)
(***************************************************************************)
EXTENDS StableCache, FiniteSetTheorems, TLAPS

\* What is assumed of the constants: finitely many keys and threads, the four
\* retention policies, and at most one thread whose calls evict.
Sizes ==
  /\ IsFiniteSet(Keys) /\ IsFiniteSet(Threads)
  /\ Evictors \subseteq Threads /\ \A s, t \in Evictors : s = t
  /\ Budget \in Nat /\ Policies \subseteq {"best", "ttl", "pinned", "required"}
  /\ None \notin {"best", "ttl", "pinned", "required"}

----------------------------------------------------------------------------
(* Counting. *)

Bit(b) == IF b THEN 1 ELSE 0

\* The pairs of an element and one of its counts.
Pairs(f, S) == UNION {{x} \X (1..f[x]) : x \in S}

\* Two sets that differ in one element differ in cardinality by that element.
LEMMA CardMoves ==
  ASSUME NEW S, NEW T, NEW x, IsFiniteSet(S), T \ {x} = S \ {x}
  PROVE  /\ IsFiniteSet(T) /\ Cardinality(S) \in Nat /\ Cardinality(T) \in Nat
         /\ Cardinality(T) = Cardinality(S) + Bit(x \in T) - Bit(x \in S)
<1> DEFINE R == S \ {x}
<1>1. IsFiniteSet(R) /\ Cardinality(R) \in Nat
  BY FS_RemoveElement, FS_CardinalityType
<1>2. /\ Cardinality(S) = Cardinality(R) + Bit(x \in S) /\ Cardinality(S) \in Nat
  <2>1. Cardinality(R) = IF x \in S THEN Cardinality(S) - 1 ELSE Cardinality(S)
    BY FS_RemoveElement
  <2>2. Cardinality(S) \in Nat
    BY FS_CardinalityType
  <2> QED BY <2>1, <2>2 DEF Bit
<1>3. x \notin R
  OBVIOUS
<1>4. CASE x \in T
  <2>1. T = R \union {x}
    BY <1>4
  <2>2. IsFiniteSet(T) /\ Cardinality(T) = Cardinality(R) + 1
    BY <1>1, <1>3, <2>1, FS_AddElement
  <2> HIDE DEF R
  <2> QED BY <1>1, <1>2, <1>4, <2>2 DEF Bit
<1>5. CASE x \notin T
  <2>1. T = R
    BY <1>5
  <2> HIDE DEF R
  <2> QED BY <1>1, <1>2, <1>5, <2>1 DEF Bit
<1> QED BY <1>4, <1>5

\* What is a pair.
LEMMA PairsIn ==
  ASSUME NEW S, NEW f \in [S -> Nat]
  PROVE  \A p : p \in Pairs(f, S) <=> \E x \in S : \E i \in 1..f[x] : p = <<x, i>>
<1>1. ASSUME NEW p PROVE p \in Pairs(f, S) <=> \E x \in S : p \in {x} \X (1..f[x])
  BY DEF Pairs
<1>2. ASSUME NEW p, NEW x \in S
      PROVE  p \in {x} \X (1..f[x]) <=> \E i \in 1..f[x] : p = <<x, i>>
  OBVIOUS
<1> QED BY <1>1, <1>2

\* One count goes up or down.
LEMMA PairsMove ==
  ASSUME NEW S, NEW f \in [S -> Nat], NEW x \in S, IsFiniteSet(Pairs(f, S))
  PROVE  /\ Cardinality(Pairs(f, S)) \in Nat
         /\ LET g == [f EXCEPT ![x] = @ + 1] IN
              IsFiniteSet(Pairs(g, S)) /\ Cardinality(Pairs(g, S)) = Cardinality(Pairs(f, S)) + 1
         /\ f[x] > 0 => LET g == [f EXCEPT ![x] = @ - 1] IN
              /\ IsFiniteSet(Pairs(g, S)) /\ Cardinality(Pairs(f, S)) > 0
              /\ Cardinality(Pairs(g, S)) = Cardinality(Pairs(f, S)) - 1
<1> DEFINE g == [f EXCEPT ![x] = @ + 1]
           h == [f EXCEPT ![x] = @ - 1]
<1>1. Cardinality(Pairs(f, S)) \in Nat
  BY FS_CardinalityType
<1>2. IsFiniteSet(Pairs(g, S)) /\ Cardinality(Pairs(g, S)) = Cardinality(Pairs(f, S)) + 1
  <2>1. g \in [S -> Nat] /\ g[x] = f[x] + 1 /\ \A y \in S : y # x => g[y] = f[y]
    OBVIOUS
  <2> DEFINE p == <<x, f[x] + 1>>
  <2> HIDE DEF g
  <2>2. ASSUME NEW q PROVE q \in Pairs(g, S) <=> q \in Pairs(f, S) \/ q = p
    <3>1. q \in Pairs(g, S) <=> \E y \in S : \E i \in 1..g[y] : q = <<y, i>>
      BY <2>1, PairsIn
    <3>2. q \in Pairs(f, S) <=> \E y \in S : \E i \in 1..f[y] : q = <<y, i>>
      BY PairsIn
    <3>3. ASSUME NEW y \in S, NEW i \in 1..g[y] PROVE i \in 1..f[y] \/ (y = x /\ i = f[x] + 1)
      BY <2>1
    <3>4. ASSUME NEW y \in S, NEW i \in 1..f[y] PROVE i \in 1..g[y]
      BY <2>1
    <3>5. f[x] + 1 \in 1..g[x]
      BY <2>1
    <3> QED BY <3>1, <3>2, <3>3, <3>4, <3>5
  <2>3. p \notin Pairs(f, S)
    <3>1. ASSUME NEW y \in S, NEW i \in 1..f[y], p = <<y, i>> PROVE FALSE
      BY <3>1
    <3> QED BY <3>1, PairsIn
  <2>4. Pairs(g, S) = Pairs(f, S) \union {p}
    BY <2>2
  <2> QED BY <2>3, <2>4, FS_AddElement, Zenon
<1>3. ASSUME f[x] > 0
      PROVE  /\ IsFiniteSet(Pairs(h, S)) /\ Cardinality(Pairs(f, S)) > 0
             /\ Cardinality(Pairs(h, S)) = Cardinality(Pairs(f, S)) - 1
  <2>1. h \in [S -> Nat] /\ h[x] = f[x] - 1 /\ \A y \in S : y # x => h[y] = f[y]
    BY <1>3
  <2> DEFINE p == <<x, f[x]>>
  <2> HIDE DEF h
  <2>2. p \in Pairs(f, S)
    <3>1. f[x] \in 1..f[x]
      BY <1>3
    <3> QED BY <3>1, PairsIn
  <2>3. ASSUME NEW q PROVE q \in Pairs(h, S) <=> q \in Pairs(f, S) /\ q # p
    <3>1. q \in Pairs(h, S) <=> \E y \in S : \E i \in 1..h[y] : q = <<y, i>>
      BY <2>1, PairsIn
    <3>2. q \in Pairs(f, S) <=> \E y \in S : \E i \in 1..f[y] : q = <<y, i>>
      BY PairsIn
    <3>3. ASSUME NEW y \in S, NEW i \in 1..h[y] PROVE i \in 1..f[y] /\ <<y, i>> # p
      BY <2>1
    <3>4. ASSUME NEW y \in S, NEW i \in 1..f[y], <<y, i>> # p PROVE i \in 1..h[y]
      BY <2>1, <3>4
    <3> QED BY <3>1, <3>2, <3>3, <3>4
  <2>4. Pairs(h, S) = Pairs(f, S) \ {p}
    BY <2>3
  <2>5. IsFiniteSet(Pairs(h, S)) /\ Cardinality(Pairs(h, S)) = Cardinality(Pairs(f, S)) - 1
    BY <2>2, <2>4, FS_RemoveElement, Zenon
  <2>6. Cardinality(Pairs(f, S)) # 0
    BY <2>2, FS_EmptySet
  <2> QED BY <1>1, <2>5, <2>6
<1> QED BY <1>1, <1>2, <1>3

----------------------------------------------------------------------------
(* The stable cache. *)

Retentions == {"best", "ttl", "pinned", "required"}
Places == {"acquire", "reacquire", "insert", "undo", "count", "evict", "drop", "erase", "uncount", "copy"}
Jobs == [at : Places, op : {"admit", "export", "pool", "event"}, key : Keys, pol : Retentions,
         over : Overflows, todo : SUBSET Keys, victim : Keys \union {None}]

StableTypes ==
  /\ entry \in [Keys -> Retentions \union {None}]
  /\ leases \in [Keys -> Nat]
  /\ used \in 0..Budget
  /\ cached \in Int
  /\ exports \in [Keys -> 0..1]
  /\ run \in [Threads -> Jobs \union {Idle}]

\* What a thread relies on between its steps: the calls that evict, export or
\* unload are of the evicting thread; the entry that is judged or copied is
\* still there when its lease is dropped and when it is erased.
ThreadOK(t) ==
  run[t].at # "idle" =>
    /\ run[t].op # "admit" \/ run[t].over # "reject" => t \in Evictors
    /\ run[t].at \in {"evict", "drop", "erase", "uncount", "reacquire", "copy"} => t \in Evictors
    /\ run[t].at \in {"copy", "drop", "erase", "uncount"} => run[t].victim \in Keys
    /\ run[t].at \in {"drop", "erase"} => entry[run[t].victim] # None
    /\ run[t].at \in {"insert", "undo", "count"} => run[t].op = "admit"
    /\ run[t].at \in {"acquire", "reacquire", "evict"} => run[t].op \in {"admit", "export"}
    /\ run[t].op = "export" => exports[run[t].key] = 0

\* The threads with a lease of k in hand, those that have released one whose
\* entry is not yet erased, and those about to count an entry.
IsIns(r, k) == r.at \in {"insert", "undo"} /\ r.key = k
IsEra(r, k) == r.at = "erase" /\ r.victim = k
Ins(k) == {t \in Threads : run[t].at \in {"insert", "undo"} /\ run[t].key = k}
Era(k) == {t \in Threads : run[t].at = "erase" /\ run[t].victim = k}
Cnt == {t \in Threads : run[t].at = "count"}
Unc == {t \in Threads : run[t].at = "uncount"}
Ent == {k \in Keys : entry[k] # None}

\* Each lease has one owner, and bytes_used_ is behind the entries by what the
\* threads are about to count.
Owned ==
  \A k \in Keys :
    leases[k] = exports[k] + Cardinality(Ins(k)) - Cardinality(Era(k)) + Bit(entry[k] # None)
Charged == used = Cardinality(Pairs(leases, Keys)) /\ IsFiniteSet(Pairs(leases, Keys))
CacheCounted == cached = Cardinality(Ent) - Cardinality(Cnt) + Cardinality(Unc)

StableInv ==
  /\ StableTypes
  /\ \A t \in Threads : ThreadOK(t)
  /\ Owned /\ Charged /\ CacheCounted

\* Nothing is cached at the start.
LEMMA StableInit == ASSUME Sizes, StableCacheInit PROVE StableInv
<1> USE DEF StableCacheInit
<1>1. StableTypes
  BY DEF StableTypes, Sizes
<1>2. \A t \in Threads : run[t].at = "idle"
  BY DEF Idle
<1>3. Ent = {} /\ Cnt = {} /\ Unc = {} /\ \A k \in Keys : Ins(k) = {} /\ Era(k) = {}
  BY <1>2 DEF Ent, Cnt, Unc, Ins, Era
<1>4. Pairs(leases, Keys) = {}
  <2>1. leases \in [Keys -> Nat]
    OBVIOUS
  <2>2. \A k \in Keys : 1..leases[k] = {}
    OBVIOUS
  <2> QED BY <2>1, <2>2, PairsIn
<1> QED BY <1>1, <1>2, <1>3, <1>4, FS_EmptySet
        DEF StableInv, ThreadOK, Owned, Charged, CacheCounted, Bit

\* One thread moves: the numbers of threads at a place change by that thread.
LEMMA RunMoves ==
  ASSUME Sizes, StableTypes, NEW t \in Threads, NEW r \in Jobs \union {Idle},
         run' = [run EXCEPT ![t] = r]
  PROVE  /\ \A k \in Keys :
              /\ Cardinality(Ins(k)) \in Nat /\ Cardinality(Era(k)) \in Nat
              /\ Cardinality(Ins(k)') = Cardinality(Ins(k)) + Bit(IsIns(r, k)) - Bit(IsIns(run[t], k))
              /\ Cardinality(Era(k)') = Cardinality(Era(k)) + Bit(IsEra(r, k)) - Bit(IsEra(run[t], k))
         /\ Cardinality(Cnt) \in Nat /\ Cardinality(Unc) \in Nat
         /\ Cardinality(Cnt') = Cardinality(Cnt) + Bit(r.at = "count") - Bit(run[t].at = "count")
         /\ Cardinality(Unc') = Cardinality(Unc) + Bit(r.at = "uncount") - Bit(run[t].at = "uncount")
<1>1. run'[t] = r /\ \A u \in Threads \ {t} : run'[u] = run[u]
  BY DEF StableTypes
<1>2. IsFiniteSet(Cnt) /\ IsFiniteSet(Unc) /\ \A k \in Keys : IsFiniteSet(Ins(k)) /\ IsFiniteSet(Era(k))
  BY FS_Subset DEF Cnt, Unc, Ins, Era, Sizes
<1>3. ASSUME NEW k \in Keys
      PROVE  /\ Cardinality(Ins(k)) \in Nat /\ Cardinality(Era(k)) \in Nat
             /\ Cardinality(Ins(k)') = Cardinality(Ins(k)) + Bit(IsIns(r, k)) - Bit(IsIns(run[t], k))
             /\ Cardinality(Era(k)') = Cardinality(Era(k)) + Bit(IsEra(r, k)) - Bit(IsEra(run[t], k))
  <2>1. Ins(k)' \ {t} = Ins(k) \ {t} /\ Era(k)' \ {t} = Era(k) \ {t}
    BY <1>1 DEF Ins, Era
  <2>2. /\ t \in Ins(k)' <=> IsIns(r, k)
        /\ t \in Ins(k) <=> IsIns(run[t], k)
        /\ t \in Era(k)' <=> IsEra(r, k)
        /\ t \in Era(k) <=> IsEra(run[t], k)
    BY <1>1 DEF Ins, Era, IsIns, IsEra
  <2>3. /\ Cardinality(Ins(k)) \in Nat
        /\ Cardinality(Ins(k)') = Cardinality(Ins(k)) + Bit(t \in Ins(k)') - Bit(t \in Ins(k))
    BY <1>2, <2>1, CardMoves
  <2>4. /\ Cardinality(Era(k)) \in Nat
        /\ Cardinality(Era(k)') = Cardinality(Era(k)) + Bit(t \in Era(k)') - Bit(t \in Era(k))
    BY <1>2, <2>1, CardMoves
  <2> QED BY <2>2, <2>3, <2>4 DEF Bit
<1>4. /\ Cardinality(Cnt) \in Nat
      /\ Cardinality(Cnt') = Cardinality(Cnt) + Bit(r.at = "count") - Bit(run[t].at = "count")
  <2>1. Cnt' \ {t} = Cnt \ {t} /\ (t \in Cnt' <=> r.at = "count") /\ (t \in Cnt <=> run[t].at = "count")
    BY <1>1 DEF Cnt
  <2>2. /\ Cardinality(Cnt) \in Nat
        /\ Cardinality(Cnt') = Cardinality(Cnt) + Bit(t \in Cnt') - Bit(t \in Cnt)
    BY <1>2, <2>1, CardMoves
  <2> QED BY <2>1, <2>2 DEF Bit
<1>5. /\ Cardinality(Unc) \in Nat
      /\ Cardinality(Unc') = Cardinality(Unc) + Bit(r.at = "uncount") - Bit(run[t].at = "uncount")
  <2>1. Unc' \ {t} = Unc \ {t} /\ (t \in Unc' <=> r.at = "uncount") /\ (t \in Unc <=> run[t].at = "uncount")
    BY <1>1 DEF Unc
  <2>2. /\ Cardinality(Unc) \in Nat
        /\ Cardinality(Unc') = Cardinality(Unc) + Bit(t \in Unc') - Bit(t \in Unc)
    BY <1>2, <2>1, CardMoves
  <2> QED BY <2>1, <2>2 DEF Bit
<1> QED BY <1>3, <1>4, <1>5

\* One entry changes: so does the number of entries.
LEMMA EntryMoves ==
  ASSUME Sizes, StableTypes, NEW k \in Keys, NEW p, entry' = [entry EXCEPT ![k] = p]
  PROVE  /\ Cardinality(Ent) \in Nat
         /\ Cardinality(Ent') = Cardinality(Ent) + Bit(p # None) - Bit(entry[k] # None)
<1>1. entry'[k] = p /\ \A j \in Keys \ {k} : entry'[j] = entry[j]
  BY DEF StableTypes
<1>2. IsFiniteSet(Ent)
  BY FS_Subset DEF Ent, Sizes
<1>3. Ent' \ {k} = Ent \ {k} /\ (k \in Ent' <=> p # None) /\ (k \in Ent <=> entry[k] # None)
  BY <1>1 DEF Ent
<1>4. /\ Cardinality(Ent) \in Nat
      /\ Cardinality(Ent') = Cardinality(Ent) + Bit(k \in Ent') - Bit(k \in Ent)
  BY <1>2, <1>3, CardMoves
<1> QED BY <1>3, <1>4 DEF Bit

\* Thread t goes to r and the entry of k becomes p: the leases and bytes_used_
\* follow.
Moves(t, r, k, p) ==
  /\ run' = [run EXCEPT ![t] = r]
  /\ entry' = [entry EXCEPT ![k] = p]
  /\ \A j \in Keys :
       leases'[j] = leases[j] + exports'[j] - exports[j]
                    + Bit(IsIns(r, j)) - Bit(IsIns(run[t], j))
                    - Bit(IsEra(r, j)) + Bit(IsEra(run[t], j))
                    + Bit(entry'[j] # None) - Bit(entry[j] # None)
  /\ cached' = cached + Bit(p # None) - Bit(entry[k] # None)
               - Bit(r.at = "count") + Bit(run[t].at = "count")
               + Bit(r.at = "uncount") - Bit(run[t].at = "uncount")

\* What the other threads rely on: only the evicting thread removes an entry
\* or takes an export.
Harmless(t, k, p) ==
  \/ t \in Evictors
  \/ /\ entry[k] # None => p # None
     /\ \A j \in Keys : exports[j] = 0 => exports'[j] = 0

\* The other threads keep what they rely on.
LEMMA OthersRely ==
  ASSUME Sizes, StableInv, NEW t \in Threads, NEW r, run' = [run EXCEPT ![t] = r],
         NEW k \in Keys, NEW p, entry' = [entry EXCEPT ![k] = p], Harmless(t, k, p),
         NEW u \in Threads \ {t}
  PROVE  ThreadOK(u)'
<1>1. run'[u] = run[u] /\ ThreadOK(u) /\ StableTypes
  BY DEF StableInv, StableTypes
<1>2. CASE run[u].at = "idle"
  BY <1>1, <1>2 DEF ThreadOK
<1>3. CASE run[u].at # "idle" /\ u \notin Evictors
  BY <1>1, <1>3, Zenon DEF ThreadOK
<1>4. CASE run[u].at # "idle" /\ u \in Evictors
  <2>1. t \notin Evictors
    BY <1>4 DEF Sizes
  <2>2. (entry[k] # None => p # None) /\ \A j \in Keys : exports[j] = 0 => exports'[j] = 0
    BY <2>1 DEF Harmless
  <2>3. \A j \in Keys : entry[j] # None => entry'[j] # None
    BY <1>1, <2>2 DEF StableTypes
  <2>4. run[u].key \in Keys
    BY <1>1, <1>4 DEF StableTypes, Jobs, Idle
  <2> QED BY <1>1, <1>4, <2>2, <2>3, <2>4, Zenon DEF ThreadOK
<1> QED BY <1>2, <1>3, <1>4

\* A step of one thread that keeps the accounts keeps the invariant.
LEMMA StableMoves ==
  ASSUME Sizes, StableInv, NEW t \in Threads, NEW r \in Jobs \union {Idle}, NEW k \in Keys, NEW p,
         Moves(t, r, k, p), Harmless(t, k, p), StableTypes', ThreadOK(t)', Charged'
  PROVE  StableInv'
<1>1. StableTypes /\ Owned /\ CacheCounted
  BY DEF StableInv
<1>2. run' = [run EXCEPT ![t] = r] /\ entry' = [entry EXCEPT ![k] = p]
  BY DEF Moves
<1>3. Owned'
  <2> SUFFICES ASSUME NEW j \in Keys
               PROVE  leases'[j] = exports'[j] + Cardinality(Ins(j)') - Cardinality(Era(j)')
                                   + Bit(entry'[j] # None)
    BY DEF Owned
  <2>1. /\ leases[j] = exports[j] + Cardinality(Ins(j)) - Cardinality(Era(j)) + Bit(entry[j] # None)
        /\ leases[j] \in Nat /\ exports[j] \in Nat /\ exports'[j] \in Nat
    BY <1>1 DEF Owned, StableTypes
  <2>2. /\ Cardinality(Ins(j)) \in Nat /\ Cardinality(Era(j)) \in Nat
        /\ Cardinality(Ins(j)') = Cardinality(Ins(j)) + Bit(IsIns(r, j)) - Bit(IsIns(run[t], j))
        /\ Cardinality(Era(j)') = Cardinality(Era(j)) + Bit(IsEra(r, j)) - Bit(IsEra(run[t], j))
    BY <1>1, <1>2, RunMoves, Zenon
  <2> QED BY <2>1, <2>2 DEF Moves, Bit
<1>4. CacheCounted'
  <2>1. /\ Cardinality(Ent) \in Nat
        /\ Cardinality(Ent') = Cardinality(Ent) + Bit(p # None) - Bit(entry[k] # None)
    <3>1. Sizes /\ StableTypes /\ k \in Keys /\ entry' = [entry EXCEPT ![k] = p]
      BY <1>1, <1>2
    <3> QED BY ONLY <3>1, EntryMoves, Zenon
  <2>2. /\ Cardinality(Cnt) \in Nat /\ Cardinality(Unc) \in Nat
        /\ Cardinality(Cnt') = Cardinality(Cnt) + Bit(r.at = "count") - Bit(run[t].at = "count")
        /\ Cardinality(Unc') = Cardinality(Unc) + Bit(r.at = "uncount") - Bit(run[t].at = "uncount")
    BY <1>1, <1>2, RunMoves, Zenon
  <2> QED BY <1>1, <2>1, <2>2 DEF CacheCounted, Moves, Bit
<1>5. \A u \in Threads : ThreadOK(u)'
  BY <1>2, OthersRely, Zenon
<1> QED BY <1>3, <1>4, <1>5 DEF StableInv

\* An entry is erased by the evicting thread only, so that a thread which has
\* released the lease of an entry finds it.
LEMMA EraseOne ==
  ASSUME Sizes, StableInv, NEW k \in Keys
  PROVE  Cardinality(Era(k)) <= Bit(entry[k] # None)
<1>1. \A u \in Era(k) : u \in Evictors /\ entry[k] # None
  BY DEF StableInv, ThreadOK, Era
<1>2. CASE Era(k) = {}
  BY <1>2, FS_EmptySet DEF Bit
<1>3. CASE Era(k) # {}
  <2>1. PICK u \in Era(k) : Era(k) = {u} /\ entry[k] # None
    BY <1>1, <1>3 DEF Sizes
  <2>2. Cardinality(Era(k)) = 1
    BY <2>1, FS_Singleton, ZenonT(40)
  <2> QED BY <2>1, <2>2 DEF Bit
<1> QED BY <1>2, <1>3

\* A lease that an export, a caller or an entry owns is there to be released.
LEMMA LeaseThere ==
  ASSUME Sizes, StableInv, NEW k \in Keys, NEW t \in Threads,
         \/ exports[k] > 0
         \/ IsIns(run[t], k)
         \/ run[t].at = "drop" /\ run[t].victim = k
  PROVE  leases[k] > 0
<1>1. leases[k] = exports[k] + Cardinality(Ins(k)) - Cardinality(Era(k)) + Bit(entry[k] # None)
  BY DEF StableInv, Owned
<1>2. exports[k] \in Nat /\ Cardinality(Ins(k)) \in Nat /\ Cardinality(Era(k)) \in Nat
  <2>1. IsFiniteSet(Ins(k)) /\ IsFiniteSet(Era(k))
    BY FS_Subset DEF Ins, Era, Sizes
  <2> QED BY <2>1, FS_CardinalityType DEF StableInv, StableTypes
<1>3. CASE exports[k] > 0
  BY <1>1, <1>2, <1>3, EraseOne DEF Bit
<1>4. CASE IsIns(run[t], k)
  <2>1. Cardinality(Ins(k)) # 0
    <3>1. t \in Ins(k) /\ IsFiniteSet(Ins(k))
      BY <1>4, FS_Subset DEF Ins, IsIns, Sizes
    <3> QED BY <3>1, FS_EmptySet
  <2> QED BY <1>1, <1>2, <2>1, EraseOne DEF Bit
<1>5. CASE run[t].at = "drop" /\ run[t].victim = k
  <2>1. t \in Evictors /\ entry[k] # None
    BY <1>5 DEF StableInv, ThreadOK
  <2>2. Era(k) = {}
    BY <1>5, <2>1 DEF StableInv, ThreadOK, Era, Sizes
  <2> QED BY <1>1, <1>2, <2>1, <2>2, FS_EmptySet DEF Bit
<1> QED BY <1>3, <1>4, <1>5

\* The budget follows the leases.
LEMMA ChargeUp ==
  ASSUME Sizes, StableInv, NEW k \in Keys, used < Budget,
         leases' = [leases EXCEPT ![k] = @ + 1], used' = used + 1
  PROVE  Charged' /\ leases' \in [Keys -> Nat] /\ used' \in 0..Budget
<1>1. leases \in [Keys -> Nat] /\ used \in 0..Budget /\ Charged
  BY DEF StableInv, StableTypes
<1>2. IsFiniteSet(Pairs(leases', Keys)) /\ Cardinality(Pairs(leases', Keys)) = Cardinality(Pairs(leases, Keys)) + 1
  BY <1>1, PairsMove, Zenon DEF Charged
<1> QED BY <1>1, <1>2 DEF Charged, Sizes

\* A lease that is there is released, and the budget gets its unit back.
LEMMA ChargeDown ==
  ASSUME Sizes, StableInv, NEW k \in Keys, leases[k] > 0, ReleaseLease(k)
  PROVE  /\ Charged' /\ leases' \in [Keys -> Nat] /\ used' \in 0..Budget
         /\ leases' = [leases EXCEPT ![k] = @ - 1]
<1>1. leases \in [Keys -> Nat] /\ used \in 0..Budget /\ Charged
  BY DEF StableInv, StableTypes
<1>2. leases' = [leases EXCEPT ![k] = @ - 1] /\ used' = IF used > 1 THEN used - 1 ELSE 0
  BY DEF ReleaseLease, GiveBack
<1>3. /\ IsFiniteSet(Pairs(leases', Keys)) /\ Cardinality(Pairs(leases, Keys)) > 0
      /\ Cardinality(Pairs(leases', Keys)) = Cardinality(Pairs(leases, Keys)) - 1
  BY <1>1, <1>2, PairsMove, Zenon DEF Charged
<1> QED BY <1>1, <1>2, <1>3 DEF Charged, Sizes

\* A thread in a call goes to another place of the call.
LEMMA Going ==
  ASSUME Sizes, StableTypes, NEW t \in Threads, run[t].at # "idle", NEW at \in Places
  PROVE  LET r == [run[t] EXCEPT !.at = at] IN
         /\ run[t] \in Jobs /\ r \in Jobs
         /\ r.at = at /\ r.key = run[t].key /\ r.victim = run[t].victim
         /\ r.op = run[t].op /\ r.over = run[t].over
         /\ Goto(t, at) => run' = [run EXCEPT ![t] = r]
<1>1. run[t] \in Jobs
  BY DEF StableTypes, Idle
<1>2. Goto(t, at) => run' = [run EXCEPT ![t] = [run[t] EXCEPT !.at = at]]
  BY DEF StableTypes, Goto
<1>3. [run[t] EXCEPT !.at = at] \in Jobs
  BY <1>1 DEF Jobs
<1> QED BY <1>1, <1>2, <1>3 DEF Jobs

\* A call begins.
LEMMA Calling ==
  ASSUME NEW at \in Places, NEW op \in {"admit", "export", "pool", "event"}, NEW k \in Keys,
         NEW p \in Retentions, NEW o \in Overflows, NEW v \in Keys \union {None}
  PROVE  LET r == [Job(at, op, k, p, o) EXCEPT !.victim = v] IN
         /\ Job(at, op, k, p, o) \in Jobs /\ r \in Jobs
         /\ r.at = at /\ r.op = op /\ r.over = o /\ r.key = k /\ r.victim = v
BY DEF Job, Jobs

\* A step that only moves a thread, between places where it owes nothing.
Quiet(r) == r.at \notin {"insert", "undo", "erase", "count", "uncount"}
LEMMA RunOnly ==
  ASSUME Sizes, StableInv, NEW t \in Threads, NEW r \in Jobs \union {Idle}, NEW k \in Keys,
         run' = [run EXCEPT ![t] = r], UNCHANGED <<entry, leases, used, cached, exports>>,
         Quiet(run[t]), Quiet(r), ThreadOK(t)'
  PROVE  StableInv'
<1>1. StableTypes /\ Charged
  BY DEF StableInv
<1>2. StableTypes'
  BY <1>1 DEF StableTypes
<1>3. Charged'
  BY <1>1 DEF Charged
<1>4. Harmless(t, k, entry[k])
  BY DEF Harmless
<1>5. \A j \in Keys : /\ ~IsIns(r, j) /\ ~IsIns(run[t], j) /\ ~IsEra(r, j) /\ ~IsEra(run[t], j)
                      /\ leases[j] \in Nat /\ exports[j] \in Nat
  BY <1>1 DEF Quiet, IsIns, IsEra, StableTypes
<1>6. entry' = [entry EXCEPT ![k] = entry[k]]
  BY <1>1 DEF StableTypes
<1>7. \A j \in Keys :
        leases'[j] = leases[j] + exports'[j] - exports[j]
                     + Bit(IsIns(r, j)) - Bit(IsIns(run[t], j))
                     - Bit(IsEra(r, j)) + Bit(IsEra(run[t], j))
                     + Bit(entry'[j] # None) - Bit(entry[j] # None)
  BY <1>5 DEF Bit
<1>8. cached' = cached + Bit(entry[k] # None) - Bit(entry[k] # None)
                - Bit(r.at = "count") + Bit(run[t].at = "count")
                + Bit(r.at = "uncount") - Bit(run[t].at = "uncount")
  BY <1>1 DEF StableTypes, Quiet, Bit
<1>9. Moves(t, r, k, entry[k])
  BY <1>6, <1>7, <1>8, Zenon DEF Moves
<1> QED BY <1>2, <1>3, <1>4, <1>9, StableMoves

\* A step that only changes the policy of an entry.
LEMMA PolicyOnly ==
  ASSUME Sizes, StableInv, NEW k \in Keys, NEW p \in Retentions, entry[k] # None,
         entry' = [entry EXCEPT ![k] = p], UNCHANGED <<leases, used, cached, exports, run>>
  PROVE  StableInv'
<1>1. StableTypes /\ Charged /\ Owned /\ CacheCounted /\ \A t \in Threads : ThreadOK(t)
  BY DEF StableInv
<1>2. StableTypes'
  BY <1>1 DEF StableTypes
<1>3. \A j \in Keys : entry'[j] # None <=> entry[j] # None
  BY <1>1 DEF StableTypes, Retentions, Sizes
<1>4. Owned'
  BY <1>1, <1>3 DEF Owned, Ins, Era, Bit
<1>5. Ent' = Ent /\ Cnt' = Cnt /\ Unc' = Unc
  BY <1>3 DEF Ent, Cnt, Unc
<1>6. CacheCounted'
  BY <1>1, <1>5 DEF CacheCounted
<1>7. ASSUME NEW t \in Threads PROVE ThreadOK(t)'
  <2>1. ThreadOK(t) /\ run'[t] = run[t] /\ exports' = exports
    BY <1>1
  <2> QED BY <2>1, <1>3, Zenon DEF ThreadOK
<1>8. Charged'
  BY <1>1 DEF Charged
<1> QED BY <1>2, <1>4, <1>6, <1>7, <1>8 DEF StableInv

\* Admission: a hit upgrades the entry, a miss begins the call.
LEMMA StableAdmit ==
  ASSUME Sizes, StableInv, NEW t \in Threads, NEW k \in Keys, NEW p \in Policies, NEW o \in Overflows,
         Admit(t, k, p, o)
  PROVE  StableInv'
<1>1. StableTypes /\ p \in Retentions /\ None \in Keys \union {None}
  BY DEF StableInv, Retentions, Sizes
<1>2. run[t].at = "idle" /\ (o # "reject" => t \in Evictors)
  BY DEF Admit, At
<1>3. CASE entry[k] # None
  <2> DEFINE q == IF Rank(p) > Rank(entry[k]) THEN p ELSE entry[k]
  <2>1. entry' = [entry EXCEPT ![k] = q] /\ UNCHANGED <<leases, used, cached, exports, run>>
    BY <1>3 DEF Admit, Upgrade
  <2>2. q \in Retentions
    BY <1>1, <1>3 DEF StableTypes
  <2> HIDE DEF q
  <2> QED BY <1>3, <2>1, <2>2, PolicyOnly, Zenon
<1>4. CASE entry[k] = None
  <2> DEFINE r == Job("acquire", "admit", k, p, o)
  <2>1. run' = [run EXCEPT ![t] = r] /\ UNCHANGED <<entry, leases, used, cached, exports>>
    BY <1>4 DEF Admit
  <2>2. r \in Jobs /\ r.at = "acquire" /\ r.op = "admit" /\ r.over = o
    BY <1>1 DEF Jobs, Job, Places
  <2> HIDE DEF r
  <2>3. run'[t] = r
    BY <1>1, <2>1 DEF StableTypes
  <2>4. ThreadOK(t)'
    BY <1>2, <2>2, <2>3 DEF ThreadOK
  <2> QED BY <1>2, <2>1, <2>2, <2>4, RunOnly, Zenon DEF Quiet
<1> QED BY <1>3, <1>4

\* An export, the eviction for the pinned pool and an unload begin.
LEMMA StableBegins ==
  ASSUME Sizes, StableInv, NEW t \in Threads, NEW k \in Keys,
         Export(t, k) \/ PoolEvict(t, k) \/ Unload(t, k)
  PROVE  StableInv'
<1>1. StableTypes /\ "best" \in Retentions /\ "evict" \in Overflows
  BY DEF StableInv, Retentions, Overflows
<1>2. run[t].at = "idle" /\ t \in Evictors
  BY DEF Export, PoolEvict, Unload, At
<1>3. UNCHANGED <<entry, leases, used, cached, exports>>
  BY DEF Export, PoolEvict, Unload
<1>4. \E r \in Jobs :
        /\ run' = [run EXCEPT ![t] = r]
        /\ \/ r.at = "acquire" /\ r.op = "export" /\ r.key = k /\ exports[k] = 0
           \/ r.at = "copy" /\ r.op \in {"pool", "event"} /\ r.victim = k
  <2> DEFINE a == Job("acquire", "export", k, "best", "evict")
             b == [Job("copy", "pool", k, "best", "evict") EXCEPT !.victim = k]
             c == [Job("copy", "event", k, "best", "evict") EXCEPT !.victim = k]
  <2>1. a \in Jobs /\ a.at = "acquire" /\ a.op = "export" /\ a.key = k
    BY <1>1 DEF Jobs, Job, Places
  <2>2. b \in Jobs /\ b.at = "copy" /\ b.op = "pool" /\ b.victim = k
    BY <1>1, Calling DEF Places
  <2>3. c \in Jobs /\ c.at = "copy" /\ c.op = "event" /\ c.victim = k
    BY <1>1, Calling DEF Places
  <2>4. \/ run' = [run EXCEPT ![t] = a] /\ exports[k] = 0
        \/ run' = [run EXCEPT ![t] = b] \/ run' = [run EXCEPT ![t] = c]
    BY DEF Export, PoolEvict, Unload
  <2> HIDE DEF a, b, c
  <2> QED BY <2>1, <2>2, <2>3, <2>4
<1>5. PICK r \in Jobs :
        /\ run' = [run EXCEPT ![t] = r]
        /\ \/ r.at = "acquire" /\ r.op = "export" /\ r.key = k /\ exports[k] = 0
           \/ r.at = "copy" /\ r.op \in {"pool", "event"} /\ r.victim = k
  BY <1>4, Zenon
<1>6. run'[t] = r
  BY <1>1, <1>5 DEF StableTypes
<1>7. ThreadOK(t)'
  BY <1>2, <1>3, <1>5, <1>6 DEF ThreadOK
<1> QED BY <1>2, <1>3, <1>5, <1>7, RunOnly, ZenonT(40) DEF Quiet

\* The budget is exhausted: evict, or give up.
LEMMA StableExhausted == ASSUME Sizes, StableInv, NEW t \in Threads, Exhausted(t) PROVE StableInv'
<1>1. StableTypes /\ ThreadOK(t)
  BY DEF StableInv
<1>2. /\ run[t].at \in {"acquire", "reacquire"}
      /\ UNCHANGED <<entry, leases, used, cached, exports>>
  BY DEF Exhausted, At
<1>3. run[t] \in Jobs /\ run[t].key \in Keys
  BY <1>1, <1>2 DEF StableTypes, Jobs, Idle
<1>4. CASE Finish(t)
  <2>1. run' = [run EXCEPT ![t] = Idle] /\ Idle.at = "idle"
    BY <1>4, Zenon DEF Finish, Idle
  <2>2. ThreadOK(t)'
    BY <1>1, <2>1 DEF ThreadOK, StableTypes
  <2> QED BY <1>2, <1>3, <2>1, <2>2, RunOnly, Zenon DEF Quiet
<1>5. CASE /\ run[t].at = "acquire" /\ run[t].over # "reject"
           /\ run' = [run EXCEPT ![t].at = "evict", ![t].todo = Keys \ {run[t].key}]
  <2> DEFINE r == [run[t] EXCEPT !.at = "evict", !.todo = Keys \ {run[t].key}]
  <2>1. r \in Jobs /\ r.at = "evict" /\ r.op = run[t].op /\ r.key = run[t].key /\ r.over = run[t].over
    BY <1>3, Zenon DEF Jobs, Places
  <2>2. run' = [run EXCEPT ![t] = r]
    BY <1>1, <1>5, Zenon DEF StableTypes
  <2> HIDE DEF r
  <2>3. run'[t] = r
    BY <1>1, <2>2 DEF StableTypes
  <2>4. ThreadOK(t)'
    BY <1>1, <1>2, <1>5, <2>1, <2>3, ZenonT(40) DEF ThreadOK
  <2> QED BY <1>2, <1>3, <2>1, <2>2, <2>4, RunOnly, Zenon DEF Quiet
<1> QED BY <1>4, <1>5 DEF Exhausted, At

\* A candidate of the eviction is judged, or there is none left; a replica
\* that is unloaded has an entry or none.
LEMMA StableLooks ==
  ASSUME Sizes, StableInv, NEW t \in Threads,
         GiveUp(t) \/ OnReplicaEvicted(t) \/ \E v \in Keys : Judge(t, v)
  PROVE  StableInv'
<1>1. StableTypes /\ ThreadOK(t)
  BY DEF StableInv
<1>2. run[t].at \in {"evict", "copy"} /\ UNCHANGED <<entry, leases, used, cached, exports>>
  BY Zenon DEF GiveUp, OnReplicaEvicted, Judge, At
<1>3. run[t] \in Jobs /\ run[t].key \in Keys
  BY <1>1, <1>2 DEF StableTypes, Jobs, Idle
<1>4. CASE Finish(t)
  <2>1. run' = [run EXCEPT ![t] = Idle] /\ Idle.at = "idle"
    BY <1>4 DEF Finish, Idle
  <2>2. ThreadOK(t)'
    BY <1>1, <2>1 DEF ThreadOK, StableTypes
  <2> QED BY <1>2, <1>3, <2>1, <2>2, RunOnly, Zenon DEF Quiet
<1>5. CASE Goto(t, "drop") /\ run[t].at = "copy" /\ entry[run[t].victim] # None
  <2> DEFINE r == [run[t] EXCEPT !.at = "drop"]
  <2>1. /\ r \in Jobs /\ r.at = "drop" /\ r.victim = run[t].victim /\ r.key = run[t].key
        /\ r.op = run[t].op /\ r.over = run[t].over
        /\ run' = [run EXCEPT ![t] = r]
    BY <1>1, <1>5, Going, ZenonT(40) DEF Places
  <2> HIDE DEF r
  <2>2. run'[t] = r
    BY <1>1, <2>1 DEF StableTypes
  <2>3. ThreadOK(t)'
    BY <1>1, <1>2, <1>5, <2>1, <2>2 DEF ThreadOK
  <2> QED BY <1>2, <1>3, <2>1, <2>3, RunOnly, Zenon DEF Quiet
<1>6. ASSUME NEW v \in Keys, Judge(t, v) PROVE StableInv'
  <2> DEFINE a == [run[t] EXCEPT !.at = "drop", !.victim = v, !.todo = @ \ {v}]
             b == [run[t] EXCEPT !.todo = @ \ {v}]
  <2>1. /\ a \in Jobs /\ a.at = "drop" /\ a.victim = v /\ a.op = run[t].op /\ a.key = run[t].key
        /\ a.over = run[t].over
    BY <1>3, Zenon DEF Jobs, Places
  <2>2. /\ b \in Jobs /\ b.at = run[t].at /\ b.victim = run[t].victim /\ b.op = run[t].op
        /\ b.key = run[t].key /\ b.over = run[t].over
    BY <1>3 DEF Jobs
  <2>3. \/ run' = [run EXCEPT ![t] = a] /\ entry[v] # None
        \/ run' = [run EXCEPT ![t] = b]
    BY <1>1, <1>6, ZenonT(40) DEF Judge, StableTypes
  <2>4. run[t].at = "evict"
    BY <1>6, ZenonT(40) DEF Judge, At
  <2> HIDE DEF a, b
  <2>5. CASE run' = [run EXCEPT ![t] = a] /\ entry[v] # None
    <3>1. run'[t] = a
      BY <1>1, <2>5 DEF StableTypes
    <3>2. ThreadOK(t)'
      BY <1>1, <1>2, <2>1, <2>4, <2>5, <3>1 DEF ThreadOK
    <3> QED BY <1>2, <2>1, <2>5, <3>2, RunOnly, Zenon DEF Quiet
  <2>6. CASE run' = [run EXCEPT ![t] = b]
    <3>1. run'[t] = b
      BY <1>1, <2>6 DEF StableTypes
    <3>2. ThreadOK(t)'
      BY <1>1, <1>2, <2>2, <2>4, <3>1 DEF ThreadOK
    <3> QED BY <1>2, <2>2, <2>4, <2>6, <3>2, RunOnly, Zenon DEF Quiet
  <2> QED BY <2>3, <2>5, <2>6
<1> QED BY <1>4, <1>5, <1>6 DEF GiveUp, OnReplicaEvicted, At

\* A lease is granted, to an export or to a call that goes on to insert.
LEMMA StableGranted == ASSUME Sizes, StableInv, NEW t \in Threads, Granted(t) PROVE StableInv'
<1> DEFINE k == run[t].key
<1>1. StableTypes /\ ThreadOK(t)
  BY DEF StableInv
<1>2. /\ run[t].at \in {"acquire", "reacquire"} /\ used < Budget
      /\ leases' = [leases EXCEPT ![k] = @ + 1] /\ used' = used + 1
      /\ UNCHANGED <<entry, cached>>
  BY DEF Granted, At
<1>3. run[t] \in Jobs /\ k \in Keys
  BY <1>1, <1>2 DEF StableTypes, Jobs, Idle
<1>4. Charged' /\ leases' \in [Keys -> Nat] /\ used' \in 0..Budget
  BY <1>2, <1>3, ChargeUp, Zenon
<1>5. entry' = [entry EXCEPT ![k] = entry[k]] /\ \A j \in Keys : ~IsIns(run[t], j) /\ ~IsEra(run[t], j)
  BY <1>1, <1>2 DEF StableTypes, IsIns, IsEra
<1>6. CASE run[t].op = "export"
  <2>1. /\ exports' = [exports EXCEPT ![k] = @ + 1]
        /\ run' = [run EXCEPT ![t] = Idle] /\ Idle.at = "idle"
    BY <1>6 DEF Granted, Finish, Idle
  <2>2. t \in Evictors /\ exports[k] = 0
    BY <1>1, <1>2, <1>6 DEF ThreadOK
  <2>3. StableTypes'
    BY <1>1, <1>2, <1>4, <2>1, <2>2 DEF StableTypes
  <2>4. ThreadOK(t)'
    BY <1>1, <2>1 DEF ThreadOK, StableTypes
  <2>5. \A j \in Keys : ~IsIns(Idle, j) /\ ~IsEra(Idle, j)
    BY <2>1 DEF IsIns, IsEra
  <2> HIDE DEF k
  <2>6. \A j \in Keys : leases'[j] = leases[j] + exports'[j] - exports[j]
    BY <1>1, <1>2, <1>3, <2>1 DEF StableTypes
  <2>7. \A j \in Keys :
          leases'[j] = leases[j] + exports'[j] - exports[j]
                       + Bit(IsIns(Idle, j)) - Bit(IsIns(run[t], j))
                       - Bit(IsEra(Idle, j)) + Bit(IsEra(run[t], j))
                       + Bit(entry'[j] # None) - Bit(entry[j] # None)
    BY <1>1, <1>2, <1>4, <1>5, <2>3, <2>5, <2>6 DEF Bit, StableTypes
  <2>8. cached' = cached + Bit(entry[k] # None) - Bit(entry[k] # None)
                  - Bit(Idle.at = "count") + Bit(run[t].at = "count")
                  + Bit(Idle.at = "uncount") - Bit(run[t].at = "uncount")
    BY <1>1, <1>2, <2>1 DEF Bit, StableTypes
  <2>9. Moves(t, Idle, k, entry[k])
    BY <1>5, <2>1, <2>7, <2>8 DEF Moves
  <2> QED BY <1>3, <1>4, <2>2, <2>3, <2>4, <2>9, StableMoves DEF Harmless
<1>7. CASE run[t].op # "export"
  <2> DEFINE r == [run[t] EXCEPT !.at = "insert"]
  <2>1. /\ r \in Jobs /\ r.at = "insert" /\ r.victim = run[t].victim /\ r.key = k
        /\ r.op = run[t].op /\ r.over = run[t].over
        /\ run' = [run EXCEPT ![t] = r] /\ UNCHANGED exports
    BY <1>1, <1>2, <1>7, Going, ZenonT(40) DEF Places, Granted
  <2> HIDE DEF r
  <2>2. StableTypes'
    BY <1>1, <1>2, <1>4, <2>1 DEF StableTypes
  <2>3. run'[t] = r
    BY <1>1, <2>1 DEF StableTypes
  <2>4. ThreadOK(t)'
    BY <1>1, <1>2, <1>7, <2>1, <2>3 DEF ThreadOK
  <2>5. \A j \in Keys : (IsIns(r, j) <=> j = k) /\ ~IsEra(r, j)
    BY <2>1 DEF IsIns, IsEra
  <2> HIDE DEF k
  <2>6. \A j \in Keys :
          leases'[j] = leases[j] + exports'[j] - exports[j]
                       + Bit(IsIns(r, j)) - Bit(IsIns(run[t], j))
                       - Bit(IsEra(r, j)) + Bit(IsEra(run[t], j))
                       + Bit(entry'[j] # None) - Bit(entry[j] # None)
    BY <1>1, <1>2, <1>3, <1>5, <2>1, <2>5 DEF Bit, StableTypes
  <2>7. cached' = cached + Bit(entry[k] # None) - Bit(entry[k] # None)
                  - Bit(r.at = "count") + Bit(run[t].at = "count")
                  + Bit(r.at = "uncount") - Bit(run[t].at = "uncount")
    BY <1>1, <1>2, <2>1 DEF Bit, StableTypes
  <2>8. Moves(t, r, k, entry[k])
    BY <1>5, <2>1, <2>6, <2>7 DEF Moves
  <2>9. Harmless(t, k, entry[k])
    BY <2>1 DEF Harmless
  <2> QED BY <1>3, <1>4, <2>1, <2>2, <2>4, <2>8, <2>9, StableMoves
<1> QED BY <1>6, <1>7

\* The entry is inserted, or another admission was first.
LEMMA StableInsert == ASSUME Sizes, StableInv, NEW t \in Threads, Insert(t) PROVE StableInv'
<1> DEFINE k == run[t].key
<1>1. StableTypes /\ ThreadOK(t) /\ Charged
  BY DEF StableInv
<1>2. run[t].at = "insert" /\ UNCHANGED <<leases, used, cached, exports>>
  BY DEF Insert, At
<1>3. run[t] \in Jobs /\ k \in Keys /\ run[t].pol \in Retentions
  BY <1>1, <1>2 DEF StableTypes, Jobs, Idle
<1>4. Charged' /\ \A j \in Keys : leases[j] \in Nat /\ exports[j] \in Nat
  BY <1>1, <1>2 DEF Charged, StableTypes
<1>5. \A j \in Keys : (IsIns(run[t], j) <=> j = k) /\ ~IsEra(run[t], j)
  BY <1>2 DEF IsIns, IsEra
<1>6. ASSUME NEW at \in {"count", "undo"}, Goto(t, at), NEW p \in Retentions,
             entry' = [entry EXCEPT ![k] = p],
             at = "count" <=> entry[k] = None
      PROVE  StableInv'
  <2> DEFINE r == [run[t] EXCEPT !.at = at]
  <2>a. at \in Places /\ run[t].at # "idle"
    BY <1>2, <1>6 DEF Places
  <2>1. /\ r \in Jobs /\ r.at = at /\ r.key = k /\ r.op = run[t].op /\ r.over = run[t].over
        /\ run' = [run EXCEPT ![t] = r]
    BY <1>1, <1>6, <2>a, Going
  <2> HIDE DEF r
  <2>2. StableTypes'
    BY <1>1, <1>2, <1>3, <1>6, <2>1 DEF StableTypes
  <2>3. run'[t] = r
    BY <1>1, <2>1, Zenon DEF StableTypes
  <2>4. ThreadOK(t)'
    BY <1>1, <1>2, <1>6, <2>1, <2>3, ZenonT(40) DEF ThreadOK
  <2>5. \A j \in Keys : (IsIns(r, j) <=> at = "undo" /\ j = k) /\ ~IsEra(r, j)
    BY <1>6, <2>1 DEF IsIns, IsEra
  <2>6. p # None /\ \A j \in Keys : entry'[j] = IF j = k THEN p ELSE entry[j]
    BY <1>1, <1>6 DEF StableTypes, Retentions, Sizes
  <2> HIDE DEF k
  <2>7. \A j \in Keys :
          leases'[j] = leases[j] + exports'[j] - exports[j]
                       + Bit(IsIns(r, j)) - Bit(IsIns(run[t], j))
                       - Bit(IsEra(r, j)) + Bit(IsEra(run[t], j))
                       + Bit(entry'[j] # None) - Bit(entry[j] # None)
    BY <1>2, <1>4, <1>5, <1>6, <2>5, <2>6 DEF Bit
  <2>8. cached' = cached + Bit(p # None) - Bit(entry[k] # None)
                  - Bit(r.at = "count") + Bit(run[t].at = "count")
                  + Bit(r.at = "uncount") - Bit(run[t].at = "uncount")
    BY <1>1, <1>2, <1>6, <2>1, <2>6 DEF Bit, StableTypes
  <2>9. Moves(t, r, k, p)
    BY <1>6, <2>1, <2>7, <2>8 DEF Moves
  <2>10. Harmless(t, k, p)
    BY <1>2, <2>6 DEF Harmless
  <2> QED BY <1>3, <1>4, <2>1, <2>2, <2>4, <2>9, <2>10, StableMoves, ZenonT(40)
<1>7. CASE entry[k] = None
  BY <1>3, <1>6, <1>7 DEF Insert
<1>8. CASE entry[k] # None
  <2>1. Goto(t, "undo") /\ entry' = [entry EXCEPT ![k] = entry[k]] /\ entry[k] \in Retentions
    BY <1>1, <1>3, <1>8 DEF Insert, StableTypes
  <2> QED BY <1>6, <1>8, <2>1, Zenon
<1> QED BY <1>7, <1>8

\* bytes_used_ is brought up to date.
LEMMA StableCounts ==
  ASSUME Sizes, StableInv, NEW t \in Threads, Count(t) \/ Uncount(t) PROVE StableInv'
<1>1. StableTypes /\ ThreadOK(t) /\ Charged
  BY DEF StableInv
<1>2. /\ run[t].at \in {"count", "uncount"} /\ UNCHANGED <<entry, leases, used, exports>>
      /\ cached' = cached + Bit(run[t].at = "count") - Bit(run[t].at = "uncount")
  BY <1>1 DEF Count, Uncount, At, Bit, StableTypes
<1>3. run[t] \in Jobs /\ run[t].key \in Keys
  BY <1>1, <1>2 DEF StableTypes, Jobs, Idle
<1>4. Charged' /\ \A j \in Keys : leases[j] \in Nat /\ exports[j] \in Nat
  BY <1>1, <1>2 DEF Charged, StableTypes
<1>5. ASSUME NEW r \in Jobs \union {Idle}, run' = [run EXCEPT ![t] = r], Quiet(r), ThreadOK(t)'
      PROVE  StableInv'
  <2> DEFINE k == run[t].key
  <2>1. StableTypes' /\ entry' = [entry EXCEPT ![k] = entry[k]]
    BY <1>1, <1>2, <1>3, <1>5 DEF StableTypes, Bit
  <2>2. \A j \in Keys : ~IsIns(r, j) /\ ~IsEra(r, j) /\ ~IsIns(run[t], j) /\ ~IsEra(run[t], j)
    BY <1>2, <1>5, Zenon DEF IsIns, IsEra, Quiet
  <2> HIDE DEF k
  <2>3. \A j \in Keys :
          leases'[j] = leases[j] + exports'[j] - exports[j]
                       + Bit(IsIns(r, j)) - Bit(IsIns(run[t], j))
                       - Bit(IsEra(r, j)) + Bit(IsEra(run[t], j))
                       + Bit(entry'[j] # None) - Bit(entry[j] # None)
    BY <1>2, <1>4, <2>2 DEF Bit
  <2>4. cached' = cached + Bit(entry[k] # None) - Bit(entry[k] # None)
                  - Bit(r.at = "count") + Bit(run[t].at = "count")
                  + Bit(r.at = "uncount") - Bit(run[t].at = "uncount")
    BY <1>1, <1>2, <1>5 DEF Bit, StableTypes, Quiet
  <2>5. Moves(t, r, k, entry[k]) /\ Harmless(t, k, entry[k])
    BY <1>2, <1>5, <2>1, <2>3, <2>4, Zenon DEF Moves, Harmless
  <2>6. k \in Keys
    BY <1>3 DEF k
  <2> QED BY <1>4, <1>5, <2>1, <2>5, <2>6, StableMoves
<1>6. CASE Finish(t)
  <2>1. run' = [run EXCEPT ![t] = Idle] /\ Idle.at = "idle"
    BY <1>6 DEF Finish, Idle
  <2>2. ThreadOK(t)' /\ Quiet(Idle)
    BY <1>1, <2>1 DEF ThreadOK, StableTypes, Quiet
  <2> QED BY <1>5, <2>1, <2>2, Zenon
<1>7. CASE run[t].at = "uncount" /\ run[t].op \in {"admit", "export"} /\ Goto(t, "reacquire")
  <2> DEFINE r == [run[t] EXCEPT !.at = "reacquire"]
  <2>1. /\ r \in Jobs /\ r.at = "reacquire" /\ r.key = run[t].key /\ r.op = run[t].op
        /\ r.over = run[t].over /\ run' = [run EXCEPT ![t] = r]
    BY <1>1, <1>7, Going, ZenonT(40) DEF Places
  <2> HIDE DEF r
  <2>2. run'[t] = r
    BY <1>1, <2>1 DEF StableTypes
  <2>3. ThreadOK(t)' /\ Quiet(r)
    BY <1>1, <1>2, <1>7, <2>1, <2>2 DEF ThreadOK, Quiet
  <2> QED BY <1>5, <2>1, <2>3, Zenon
<1>8. CASE /\ run[t].at = "uncount" /\ run[t].op = "pool"
           /\ run' = [run EXCEPT ![t].op = "event", ![t].at = "copy"]
  <2> DEFINE r == [run[t] EXCEPT !.op = "event", !.at = "copy"]
  <2>1. r \in Jobs /\ r.at = "copy" /\ r.op = "event" /\ r.victim = run[t].victim /\ r.over = run[t].over
    BY <1>3, Zenon DEF Jobs, Places
  <2>2. run' = [run EXCEPT ![t] = r]
    BY <1>1, <1>8, ZenonT(40) DEF StableTypes
  <2> HIDE DEF r
  <2>3. run'[t] = r
    BY <1>1, <2>2 DEF StableTypes
  <2>4. ThreadOK(t)' /\ Quiet(r)
    BY <1>1, <1>2, <1>8, <2>1, <2>3 DEF ThreadOK, Quiet
  <2> QED BY <1>5, <2>1, <2>2, <2>4, Zenon
<1> QED BY <1>6, <1>7, <1>8 DEF Count, Uncount, At

\* The lease in hand is given back, and the entry of the winner upgraded.
LEMMA StableUndo == ASSUME Sizes, StableInv, NEW t \in Threads, Undo(t) PROVE StableInv'
<1> DEFINE k == run[t].key
           q == IF entry[k] = None THEN None
                ELSE IF Rank(run[t].pol) > Rank(entry[k]) THEN run[t].pol ELSE entry[k]
           r == Idle
<1>1. StableTypes /\ ThreadOK(t)
  BY DEF StableInv
<1>2. /\ run[t].at = "undo" /\ ReleaseLease(k) /\ UNCHANGED <<cached, exports>>
      /\ run' = [run EXCEPT ![t] = r]
  BY DEF Undo, At, Finish
<1>3. run[t] \in Jobs /\ k \in Keys /\ run[t].pol \in Retentions
  BY <1>1, <1>2 DEF StableTypes, Jobs, Idle
<1>4. IsIns(run[t], k) /\ \A j \in Keys : (IsIns(run[t], j) <=> j = k) /\ ~IsEra(run[t], j)
  BY <1>2 DEF IsIns, IsEra
<1>5. leases[k] > 0
  BY <1>3, <1>4, LeaseThere
<1>6. /\ Charged' /\ leases' \in [Keys -> Nat] /\ used' \in 0..Budget
      /\ leases' = [leases EXCEPT ![k] = @ - 1]
  BY <1>2, <1>3, <1>5, ChargeDown
<1>7. r.at = "idle" /\ \A j \in Keys : ~IsIns(r, j) /\ ~IsEra(r, j)
  BY DEF Idle, IsIns, IsEra
<1>8. entry' = [entry EXCEPT ![k] = q]
  BY <1>1, <1>3, ZenonT(40) DEF StableTypes, Undo, Upgrade
<1>9. (q # None <=> entry[k] # None) /\ q \in Retentions \union {None}
  BY <1>1, <1>3 DEF StableTypes, Retentions, Sizes
<1> HIDE DEF k, q, r
<1>10. \A j \in Keys : /\ entry'[j] = IF j = k THEN q ELSE entry[j]
                       /\ leases[j] \in Nat /\ exports[j] \in Nat
                       /\ leases'[j] = IF j = k THEN leases[j] - 1 ELSE leases[j]
  BY <1>1, <1>3, <1>6, <1>8 DEF StableTypes
<1>11. r \in Jobs \union {Idle}
  BY DEF r
<1>12. StableTypes'
  BY <1>1, <1>2, <1>3, <1>6, <1>8, <1>9, <1>11, Zenon DEF StableTypes
<1>13. ThreadOK(t)'
  BY <1>1, <1>2, <1>7, ZenonT(40) DEF StableTypes, ThreadOK
<1>14. \A j \in Keys :
          leases'[j] = leases[j] + exports'[j] - exports[j]
                       + Bit(IsIns(r, j)) - Bit(IsIns(run[t], j))
                       - Bit(IsEra(r, j)) + Bit(IsEra(run[t], j))
                       + Bit(entry'[j] # None) - Bit(entry[j] # None)
  BY <1>2, <1>4, <1>7, <1>9, <1>10 DEF Bit
<1>15. cached' = cached + Bit(q # None) - Bit(entry[k] # None)
                  - Bit(r.at = "count") + Bit(run[t].at = "count")
                  + Bit(r.at = "uncount") - Bit(run[t].at = "uncount")
  BY <1>1, <1>2, <1>7, <1>9 DEF Bit, StableTypes
<1>16. Moves(t, r, k, q) /\ Harmless(t, k, q)
  BY <1>2, <1>8, <1>9, <1>14, <1>15, ZenonT(40) DEF Moves, Harmless
<1> QED BY <1>3, <1>6, <1>11, <1>12, <1>13, <1>16, StableMoves

\* An export gives its lease back.
LEMMA StableUnexport ==
  ASSUME Sizes, StableInv, NEW t \in Threads, NEW k \in Keys, Unexport(t, k) PROVE StableInv'
<1> DEFINE r == run[t]
<1>1. StableTypes /\ ThreadOK(t)
  BY DEF StableInv
<1>2. /\ run[t].at = "idle" /\ exports[k] > 0 /\ exports' = [exports EXCEPT ![k] = @ - 1]
      /\ ReleaseLease(k) /\ UNCHANGED <<entry, cached, run>>
  BY DEF Unexport, At
<1>3. /\ Charged' /\ leases' \in [Keys -> Nat] /\ used' \in 0..Budget
      /\ leases' = [leases EXCEPT ![k] = @ - 1]
  BY <1>2, LeaseThere, ChargeDown
<1>4. /\ r \in Jobs \union {Idle} /\ run' = [run EXCEPT ![t] = r]
      /\ entry' = [entry EXCEPT ![k] = entry[k]]
  BY <1>1, <1>2 DEF StableTypes
<1>5. StableTypes'
  BY <1>1, <1>2, <1>3 DEF StableTypes
<1>6. \A j \in Keys : leases'[j] = leases[j] + exports'[j] - exports[j]
  BY <1>1, <1>2, <1>3 DEF StableTypes
<1>7. \A j \in Keys : leases'[j] \in Nat /\ leases[j] \in Nat /\ exports[j] \in Nat /\ exports'[j] \in Nat
  BY <1>1, <1>5 DEF StableTypes
<1>8. \A j \in Keys :
          leases'[j] = leases[j] + exports'[j] - exports[j]
                       + Bit(IsIns(r, j)) - Bit(IsIns(run[t], j))
                       - Bit(IsEra(r, j)) + Bit(IsEra(run[t], j))
                       + Bit(entry'[j] # None) - Bit(entry[j] # None)
  BY <1>2, <1>6, <1>7 DEF Bit
<1>9. cached' = cached + Bit(entry[k] # None) - Bit(entry[k] # None)
                  - Bit(r.at = "count") + Bit(run[t].at = "count")
                  + Bit(r.at = "uncount") - Bit(run[t].at = "uncount")
  BY <1>1, <1>2 DEF Bit, StableTypes
<1>10. ThreadOK(t)'
  BY <1>2 DEF ThreadOK
<1>11. \A j \in Keys : exports[j] = 0 => exports'[j] = 0
  BY <1>1, <1>2 DEF StableTypes
<1>12. Moves(t, r, k, entry[k]) /\ Harmless(t, k, entry[k])
  BY <1>4, <1>8, <1>9, <1>11, Zenon DEF Moves, Harmless
<1> QED BY <1>3, <1>4, <1>5, <1>10, <1>12, StableMoves

\* The lease of an entry is released by the thread that is about to erase it.
LEMMA StableDrop == ASSUME Sizes, StableInv, NEW t \in Threads, Drop(t) PROVE StableInv'
<1> DEFINE k == run[t].victim
           r == [run[t] EXCEPT !.at = "erase"]
<1>1. StableTypes /\ ThreadOK(t)
  BY DEF StableInv
<1>2. run[t].at = "drop" /\ ReleaseLease(k) /\ UNCHANGED <<entry, cached, exports>>
  BY DEF Drop, At
<1>3. k \in Keys /\ t \in Evictors /\ entry[k] # None
  BY <1>1, <1>2 DEF ThreadOK
<1>4. leases[k] > 0
  BY <1>2, <1>3, LeaseThere
<1>5. /\ Charged' /\ leases' \in [Keys -> Nat] /\ used' \in 0..Budget
      /\ leases' = [leases EXCEPT ![k] = @ - 1]
  BY <1>2, <1>3, <1>4, ChargeDown
<1>6. Goto(t, "erase")
  BY <1>4 DEF Drop
<1>7. /\ r \in Jobs /\ r.at = "erase" /\ r.victim = k /\ r.op = run[t].op /\ r.over = run[t].over
      /\ r.key = run[t].key /\ run' = [run EXCEPT ![t] = r]
  BY <1>1, <1>2, <1>6, Going, ZenonT(40) DEF Places
<1> HIDE DEF r
<1>8. StableTypes' /\ run'[t] = r
  BY <1>1, <1>2, <1>5, <1>7, Zenon DEF StableTypes
<1>9. ThreadOK(t)'
  BY <1>1, <1>2, <1>3, <1>7, <1>8, Zenon DEF ThreadOK
<1>10. \A j \in Keys : /\ ~IsIns(r, j) /\ ~IsIns(run[t], j) /\ ~IsEra(run[t], j)
                       /\ IsEra(r, j) <=> j = k
  BY <1>2, <1>7 DEF IsIns, IsEra
<1> HIDE DEF k
<1>11. \A j \in Keys : /\ leases[j] \in Nat /\ exports[j] \in Nat
                       /\ leases'[j] = IF j = k THEN leases[j] - 1 ELSE leases[j]
  BY <1>1, <1>3, <1>5 DEF StableTypes
<1>12. \A j \in Keys :
          leases'[j] = leases[j] + exports'[j] - exports[j]
                       + Bit(IsIns(r, j)) - Bit(IsIns(run[t], j))
                       - Bit(IsEra(r, j)) + Bit(IsEra(run[t], j))
                       + Bit(entry'[j] # None) - Bit(entry[j] # None)
  BY <1>2, <1>10, <1>11 DEF Bit
<1>13. cached' = cached + Bit(entry[k] # None) - Bit(entry[k] # None)
                  - Bit(r.at = "count") + Bit(run[t].at = "count")
                  + Bit(r.at = "uncount") - Bit(run[t].at = "uncount")
  BY <1>1, <1>2, <1>7 DEF Bit, StableTypes
<1>14. entry' = [entry EXCEPT ![k] = entry[k]]
  BY <1>1, <1>2 DEF StableTypes
<1>15. Moves(t, r, k, entry[k]) /\ Harmless(t, k, entry[k])
  BY <1>3, <1>7, <1>12, <1>13, <1>14, Zenon DEF Moves, Harmless
<1> QED BY <1>3, <1>5, <1>7, <1>8, <1>9, <1>15, StableMoves

\* The entry is erased.
LEMMA StableErase == ASSUME Sizes, StableInv, NEW t \in Threads, Erase(t) PROVE StableInv'
<1> DEFINE k == run[t].victim
           r == [run[t] EXCEPT !.at = "uncount"]
<1>1. StableTypes /\ ThreadOK(t) /\ Charged
  BY DEF StableInv
<1>2. run[t].at = "erase" /\ UNCHANGED <<leases, used, cached, exports>>
  BY DEF Erase, At
<1>3. k \in Keys /\ t \in Evictors /\ entry[k] # None
  BY <1>1, <1>2 DEF ThreadOK
<1>4. Goto(t, "uncount") /\ entry' = [entry EXCEPT ![k] = None]
  BY <1>3 DEF Erase
<1>5. /\ r \in Jobs /\ r.at = "uncount" /\ r.victim = k /\ r.op = run[t].op /\ r.over = run[t].over
      /\ r.key = run[t].key /\ run' = [run EXCEPT ![t] = r]
  BY <1>1, <1>2, <1>4, Going, ZenonT(40) DEF Places
<1> HIDE DEF r
<1>6. StableTypes' /\ run'[t] = r
  BY <1>1, <1>2, <1>4, <1>5, ZenonT(40) DEF StableTypes
<1>7. ThreadOK(t)'
  BY <1>1, <1>2, <1>3, <1>5, <1>6 DEF ThreadOK
<1>8. \A j \in Keys : /\ ~IsIns(r, j) /\ ~IsIns(run[t], j) /\ ~IsEra(r, j)
                      /\ IsEra(run[t], j) <=> j = k
  BY <1>2, <1>5 DEF IsIns, IsEra
<1> HIDE DEF k
<1>9. \A j \in Keys : /\ leases[j] \in Nat /\ exports[j] \in Nat
                      /\ entry'[j] = IF j = k THEN None ELSE entry[j]
  BY <1>1, <1>3, <1>4 DEF StableTypes
<1>10. \A j \in Keys :
          leases'[j] = leases[j] + exports'[j] - exports[j]
                       + Bit(IsIns(r, j)) - Bit(IsIns(run[t], j))
                       - Bit(IsEra(r, j)) + Bit(IsEra(run[t], j))
                       + Bit(entry'[j] # None) - Bit(entry[j] # None)
  <2> SUFFICES ASSUME NEW j \in Keys
               PROVE  leases'[j] = leases[j] + exports'[j] - exports[j]
                                   + Bit(IsIns(r, j)) - Bit(IsIns(run[t], j))
                                   - Bit(IsEra(r, j)) + Bit(IsEra(run[t], j))
                                   + Bit(entry'[j] # None) - Bit(entry[j] # None)
    OBVIOUS
  <2>1. /\ Bit(IsIns(r, j)) = 0 /\ Bit(IsIns(run[t], j)) = 0 /\ Bit(IsEra(r, j)) = 0
        /\ Bit(IsEra(run[t], j)) = IF j = k THEN 1 ELSE 0
    BY <1>8, Zenon DEF Bit
  <2>2. Bit(entry'[j] # None) = IF j = k THEN 0 ELSE Bit(entry[j] # None)
    BY <1>9, Zenon DEF Bit
  <2>3. Bit(entry[j] # None) \in 0..1 /\ (j = k => Bit(entry[j] # None) = 1)
    BY <1>3 DEF Bit
  <2>4. leases[j] \in Nat /\ exports[j] \in Nat /\ leases'[j] = leases[j] /\ exports'[j] = exports[j]
    BY <1>2, <1>9
  <2> QED BY ONLY <2>1, <2>2, <2>3, <2>4
<1>11. cached' = cached + Bit(None # None) - Bit(entry[k] # None)
                  - Bit(r.at = "count") + Bit(run[t].at = "count")
                  + Bit(r.at = "uncount") - Bit(run[t].at = "uncount")
  BY <1>1, <1>2, <1>3, <1>5 DEF Bit, StableTypes
<1>12. Charged'
  BY <1>1, <1>2, Zenon DEF Charged
<1>13. Moves(t, r, k, None) /\ Harmless(t, k, None)
  BY <1>3, <1>4, <1>5, <1>10, <1>11 DEF Moves, Harmless
<1> QED BY <1>3, <1>5, <1>6, <1>7, <1>12, <1>13, StableMoves

\* Every step of the cache keeps its invariant.
LEMMA StableKept == ASSUME Sizes, StableInv, Next PROVE StableInv'
<1>1. ASSUME NEW t \in Threads, Step(t) PROVE StableInv'
  BY <1>1, StableGranted, StableExhausted, StableInsert, StableUndo, StableCounts, StableLooks,
     StableDrop, StableErase DEF Step
<1>2. ASSUME NEW t \in Threads, NEW k \in Keys, NEW p \in Policies, UpdatePolicy(t, k, p)
      PROVE  StableInv'
  BY <1>2, PolicyOnly, Zenon DEF UpdatePolicy, Retentions, Sizes
<1>3. ASSUME NEW t \in Threads, Call(t) PROVE StableInv'
  BY <1>2, <1>3, StableAdmit, StableBegins, StableUnexport DEF Call
<1>4. ASSUME NEW k \in Keys, TtlExpires(k) PROVE StableInv'
  BY <1>4, PolicyOnly, Zenon DEF TtlExpires, Retentions, Sizes
<1> QED BY <1>1, <1>3, <1>4 DEF Next

\* The invariant implies what the model checker checks of the cache.
LEMMA StableSound ==
  ASSUME Sizes, StableInv
  PROVE  TypeOK /\ LeasesAccounted /\ CachedMatches /\ ExportsKeepLease
<1>1. StableTypes /\ Owned /\ Charged /\ CacheCounted
  BY DEF StableInv
<1>2. {Order[i] : i \in 1..4} = Retentions
  BY DEF Order, Retentions
<1>3. TypeOK
  BY <1>1, <1>2 DEF StableTypes, TypeOK
<1>4. Counted = Pairs(leases, Keys)
  BY Zenon DEF Counted, Pairs
<1>5. ASSUME NEW k \in Keys PROVE InHand(k) = Cardinality(Ins(k)) - Cardinality(Era(k))
  BY Zenon DEF InHand, Ins, Era, At
<1>6. ASSUME NEW k \in Keys
      PROVE  leases[k] = exports[k] + InHand(k) + (IF entry[k] = None THEN 0 ELSE 1)
  <2>1. IsFiniteSet(Ins(k)) /\ IsFiniteSet(Era(k))
    BY FS_Subset DEF Ins, Era, Sizes
  <2>2. Cardinality(Ins(k)) \in Int /\ Cardinality(Era(k)) \in Int /\ exports[k] \in Int
    BY <1>1, <2>1, FS_CardinalityType DEF StableTypes
  <2> QED BY <1>1, <1>5, <2>2 DEF Owned, Bit
<1>7. LeasesAccounted
  BY <1>1, <1>4, <1>6 DEF Charged, LeasesAccounted
<1>8. ASSUME \A t \in Threads : At(t, "idle")
      PROVE  cached = Cardinality({k \in Keys : entry[k] # None})
  <2>1. Cnt = {} /\ Unc = {}
    BY <1>8 DEF Cnt, Unc, At
  <2>2. IsFiniteSet(Ent)
    BY FS_Subset DEF Ent, Sizes
  <2>3. cached = Cardinality(Ent)
    BY <1>1, <2>1, <2>2, FS_EmptySet, FS_CardinalityType DEF CacheCounted
  <2> QED BY <2>3 DEF Ent
<1>9. ASSUME NEW k \in Keys PROVE leases[k] >= exports[k]
  <2>1. IsFiniteSet(Ins(k)) /\ IsFiniteSet(Era(k))
    BY FS_Subset DEF Ins, Era, Sizes
  <2>2. Cardinality(Ins(k)) \in Nat /\ Cardinality(Era(k)) \in Nat /\ exports[k] \in Nat
    BY <1>1, <2>1, FS_CardinalityType DEF StableTypes
  <2> QED BY <1>1, <2>2, EraseOne DEF Owned, Bit
<1> QED BY <1>3, <1>7, <1>8, <1>9 DEF CachedMatches, ExportsKeepLease

----------------------------------------------------------------------------
\* The invariant of the cache holds in every state that it reaches, whatever
\* the interleaving of admissions, exports, evictions and unloads.
THEOREM CacheInvariance == ASSUME Sizes PROVE Spec => []StableInv
<1>1. StableCacheInit => StableInv
  BY StableInit
<1>2. StableInv /\ [Next]_vars => StableInv'
  <2>1. StableInv /\ Next => StableInv'
    BY StableKept
  <2>2. StableInv /\ UNCHANGED vars => StableInv'
    <3> SUFFICES ASSUME StableInv, UNCHANGED vars PROVE StableInv'
      OBVIOUS
    <3>1. /\ entry' = entry /\ leases' = leases /\ used' = used /\ cached' = cached
          /\ exports' = exports /\ run' = run
      BY DEF vars
    <3> QED BY <3>1, ZenonT(40) DEF StableInv, StableTypes, ThreadOK, Owned, Charged, CacheCounted, Ins, Era, Cnt, Unc, Ent
  <2> QED BY <2>1, <2>2
<1> QED BY <1>1, <1>2, PTL DEF Spec

\* Every stable lease is owned by the entry of its key, by an export or by a
\* call in progress, and the budget is charged with exactly the leases that
\* exist: neither the admission that loses the race for the entry, nor an
\* eviction that releases a lease outside mu_, leaks or steals one.
THEOREM LeasesAlwaysAccounted == ASSUME Sizes PROVE Spec => []LeasesAccounted
BY CacheInvariance, StableSound, PTL

\* bytes_used_, which is updated after mu_ is released, is the size of the
\* cache whenever no call is in progress.
THEOREM CachedAlwaysMatches == ASSUME Sizes PROVE Spec => []CachedMatches
BY CacheInvariance, StableSound, PTL

\* An eviction never releases the lease of an active export.
THEOREM ExportsAlwaysKeepLease == ASSUME Sizes PROVE Spec => []ExportsKeepLease
BY CacheInvariance, StableSound, PTL

\* Every variable keeps its type, and the budget is never exceeded.
THEOREM TypesAlwaysKept == ASSUME Sizes PROVE Spec => []TypeOK
<1>1. StableInv => TypeOK
  <2>1. {Order[i] : i \in 1..4} = Retentions
    BY DEF Order, Retentions
  <2> QED BY <2>1 DEF StableInv, StableTypes, TypeOK
<1> QED BY <1>1, CacheInvariance, PTL

----------------------------------------------------------------------------
(* The capabilities of the lifecycle kernel. *)

CONSTANTS Caps, Bound, Guards, Lifetimes, MaxTime

VARIABLES cap, addr, bind, guards, now, released

Kernel == INSTANCE LifecycleKernel

\* What is assumed of its constants: finitely many guards, and a None that is
\* neither a capability nor an entry.
KernelSizes ==
  /\ IsFiniteSet(Guards) /\ Lifetimes \subseteq Nat /\ MaxTime \in Nat
  /\ None \notin Caps /\ None \notin [state : {"active", "draining", "expired"}, exp : Nat, uses : Nat]

\* A set grows or shrinks by one element.
LEMMA OneMore ==
  ASSUME NEW S, NEW x, IsFiniteSet(S)
  PROVE  /\ Cardinality(S) \in Nat
         /\ x \notin S => Cardinality(S \union {x}) = Cardinality(S) + 1
         /\ x \in S => Cardinality(S) > 0 /\ Cardinality(S \ {x}) = Cardinality(S) - 1
         /\ Cardinality(S) = 0 <=> S = {}
<1>1. Cardinality(S) \in Nat /\ (Cardinality(S) = 0 <=> S = {})
  BY FS_CardinalityType, FS_EmptySet
<1>2. x \notin S => Cardinality(S \union {x}) = Cardinality(S) + 1
  BY FS_AddElement
<1>3. x \in S => Cardinality(S \ {x}) = Cardinality(S) - 1
  BY FS_RemoveElement
<1> QED BY <1>1, <1>2, <1>3

\* The cardinality that the kernel takes from its own copy of FiniteSets.
LEMMA KernelCardinality == \A S : Kernel!Cardinality(S) = Cardinality(S)
BY Zenon DEF Kernel!Cardinality, Cardinality

Entries == [state : {"active", "draining", "expired"}, exp : Nat, uses : Nat]

\* Without an entry there is no index key, no binding record and no guard; the
\* entry of a released capability is draining, out of the index, and kept by
\* a guard.
CapOK(c) ==
  /\ cap[c] = None => c \notin addr /\ bind[c] = "none" /\ Kernel!Holding(c) = {}
  /\ cap[c] # None => cap[c].uses = Cardinality(Kernel!Holding(c))
  /\ c \in released /\ cap[c] # None =>
       cap[c].state = "draining" /\ c \notin addr /\ Kernel!Holding(c) # {}

KernelTypes ==
  /\ cap \in [Caps -> Entries \union {None}] /\ addr \subseteq Caps
  /\ bind \in [Caps -> {"none", "active", "expired", "revoked"}]
  /\ guards \in [Guards -> Caps \union {None}]
  /\ now \in 0..MaxTime /\ released \subseteq Caps

KernelInv == KernelTypes /\ \A c \in Caps : CapOK(c)

\* Nothing is minted at the start.
LEMMA KernelStart == ASSUME KernelSizes PROVE Kernel!KernelInit => KernelInv
BY DEF KernelSizes, Kernel!KernelInit, KernelInv, KernelTypes, CapOK, Kernel!Holding

\* Who holds a guard of a capability depends on the guards alone.
LEMMA HoldingSame == UNCHANGED guards => \A c : Kernel!Holding(c)' = Kernel!Holding(c)
BY DEF Kernel!Holding

\* The guards of a capability are finitely many.
LEMMA HoldingFinite == ASSUME KernelSizes PROVE \A c : IsFiniteSet(Kernel!Holding(c))
BY FS_Subset DEF KernelSizes, Kernel!Holding

\* One guard is taken or given back.
LEMMA GuardMoves ==
  ASSUME KernelTypes, NEW g \in Guards, NEW v, guards' = [guards EXCEPT ![g] = v]
  PROVE  \A x : Kernel!Holding(x)' = IF x = v THEN Kernel!Holding(x) \union {g} ELSE Kernel!Holding(x) \ {g}
<1>1. \A h \in Guards : guards'[h] = IF h = g THEN v ELSE guards[h]
  BY DEF KernelTypes
<1>2. ASSUME NEW x, NEW h
      PROVE  h \in Kernel!Holding(x)' <=> h \in Guards /\ (IF h = g THEN v ELSE guards[h]) = x
  BY <1>1 DEF Kernel!Holding
<1>3. ASSUME NEW x, NEW h PROVE h \in Kernel!Holding(x) <=> h \in Guards /\ guards[h] = x
  BY DEF Kernel!Holding
<1> QED BY ONLY g \in Guards, <1>2, <1>3

\* A capability that a step does not touch.
LEMMA CapSame ==
  ASSUME NEW x, CapOK(x), cap'[x] = cap[x], bind'[x] = bind[x], x \in addr' <=> x \in addr,
         x \in released' <=> x \in released, Kernel!Holding(x)' = Kernel!Holding(x)
  PROVE  CapOK(x)'
BY Zenon DEF CapOK

\* An entry of a capability that may be minted is made, and one that is there
\* is renewed.
LEMMA KernelMints ==
  ASSUME KernelSizes, KernelInv, NEW c \in Caps, NEW d \in Lifetimes,
         (c \notin released /\ Kernel!Mint(c, now + d)) \/ (c \notin Bound /\ Kernel!Renew(c, now + d))
  PROVE  KernelInv'
<1>1. now + d \in Nat /\ None \notin Entries
  BY DEF KernelSizes, KernelInv, KernelTypes, Entries
<1>2. UNCHANGED <<guards, now, released>> /\ \A x : Kernel!Holding(x)' = Kernel!Holding(x)
  BY HoldingSame, Zenon DEF Kernel!Mint, Kernel!Renew
<1>3. CASE c \notin released /\ Kernel!Mint(c, now + d)
  <2>1. /\ cap[c] = None
        /\ cap' = [cap EXCEPT ![c] = [state |-> "active", exp |-> now + d, uses |-> 0]]
        /\ addr' \in {addr, addr \union {c}}
        /\ bind' \in {bind, [bind EXCEPT ![c] = "active"]}
    BY <1>3 DEF Kernel!Mint
  <2>2. [state |-> "active", exp |-> now + d, uses |-> 0] \in Entries
    BY <1>1 DEF Entries
  <2>3. /\ KernelTypes' /\ cap'[c] = [state |-> "active", exp |-> now + d, uses |-> 0]
        /\ \A x \in Caps : x # c => cap'[x] = cap[x] /\ bind'[x] = bind[x] /\ (x \in addr' <=> x \in addr)
    BY <1>2, <2>1, <2>2 DEF KernelInv, KernelTypes
  <2>4. CapOK(c)'
    <3>1. Kernel!Holding(c)' = {} /\ Cardinality({}) = 0
      BY <1>2, <2>1, FS_EmptySet DEF KernelInv, CapOK
    <3> QED BY <1>1, <1>2, <1>3, <2>2, <2>3, <3>1 DEF CapOK
  <2> QED BY <1>2, <2>3, <2>4, CapSame DEF KernelInv
<1>4. CASE c \notin Bound /\ Kernel!Renew(c, now + d)
  <2>1. /\ cap[c] # None /\ UNCHANGED <<addr, bind>>
        /\ cap' = [cap EXCEPT ![c].exp = now + d,
                              ![c].state = IF @ = "expired" THEN "active" ELSE @]
    BY <1>4 DEF Kernel!Renew
  <2>2. cap[c] \in Entries /\ CapOK(c)
    BY <2>1 DEF KernelInv, KernelTypes
  <2>3. /\ cap'[c] \in Entries /\ cap'[c].uses = cap[c].uses
        /\ cap[c].state = "draining" => cap'[c].state = "draining"
        /\ \A x \in Caps : x # c => cap'[x] = cap[x]
        /\ cap' \in [Caps -> Entries \union {None}]
    BY <1>1, <2>1, <2>2 DEF KernelInv, KernelTypes, Entries
  <2>4. KernelTypes'
    BY <1>2, <2>1, <2>3 DEF KernelInv, KernelTypes
  <2>5. CapOK(c)'
    BY ONLY <1>1, <1>2, <2>1, <2>2, <2>3, Zenon DEF CapOK
  <2> QED BY <1>2, <2>1, <2>3, <2>4, <2>5, CapSame DEF KernelInv
<1> QED BY <1>3, <1>4

\* A guard is taken: the capability was active, so it was not released.
LEMMA KernelAdmits ==
  ASSUME KernelSizes, KernelInv, NEW c \in Caps, NEW g \in Guards, Kernel!Admit(c, g)
  PROVE  KernelInv' /\ c \notin released /\ now < cap[c].exp
<1>1. /\ cap[c] # None /\ guards[g] = None /\ cap[c].state = "active" /\ now < cap[c].exp
      /\ cap' = [cap EXCEPT ![c].uses = @ + 1] /\ guards' = [guards EXCEPT ![g] = c]
      /\ UNCHANGED <<addr, bind, now, released>>
  BY Zenon DEF Kernel!Admit
<1>2. c \notin released /\ cap[c] \in Entries /\ None \notin Entries /\ c # None /\ CapOK(c)
  BY <1>1 DEF KernelSizes, KernelInv, KernelTypes, CapOK, Entries
<1>3. /\ Kernel!Holding(c)' = Kernel!Holding(c) \union {g} /\ g \notin Kernel!Holding(c)
      /\ \A x \in Caps : x # c => Kernel!Holding(x)' = Kernel!Holding(x)
  <2>1. g \in Kernel!Holding(None) /\ \A x \in Caps : g \notin Kernel!Holding(x)
    BY <1>1 DEF KernelSizes, Kernel!Holding
  <2>2. \A x : Kernel!Holding(x)' = IF x = c THEN Kernel!Holding(x) \union {g} ELSE Kernel!Holding(x) \ {g}
    BY <1>1, GuardMoves DEF KernelInv
  <2> QED BY ONLY c \in Caps, <2>1, <2>2
<1>4. Cardinality(Kernel!Holding(c)') = Cardinality(Kernel!Holding(c)) + 1
  BY ONLY KernelSizes, <1>3, HoldingFinite, OneMore
<1>5. /\ cap'[c] \in Entries /\ cap'[c].uses = cap[c].uses + 1
      /\ \A x \in Caps : x # c => cap'[x] = cap[x]
      /\ cap' \in [Caps -> Entries \union {None}]
  BY <1>1, <1>2 DEF KernelInv, KernelTypes, Entries
<1>6. KernelTypes'
  BY <1>1, <1>5 DEF KernelInv, KernelTypes
<1>7. CapOK(c)'
  BY ONLY <1>1, <1>2, <1>4, <1>5, Zenon DEF CapOK
<1>8. KernelInv'
  BY <1>1, <1>3, <1>5, <1>6, <1>7, CapSame DEF KernelInv
<1> QED BY <1>1, <1>2, <1>8

\* An admission that is refused leaves a mark: on a binding record, or on an
\* entry that is in the index and so was not released.
LEMMA KernelRefuses ==
  ASSUME KernelSizes, KernelInv, NEW c \in Caps, Kernel!RefuseExpired(c)
  PROVE  KernelInv'
<1>1. cap[c] # None /\ UNCHANGED <<addr, guards, now, released>>
  BY DEF Kernel!RefuseExpired
<1>2. \A x : Kernel!Holding(x)' = Kernel!Holding(x)
  BY <1>1, HoldingSame
<1>3. cap[c] \in Entries /\ None \notin Entries /\ CapOK(c)
  BY <1>1 DEF KernelSizes, KernelInv, KernelTypes, Entries
<1>4. CASE bind' = [bind EXCEPT ![c] = "expired"] /\ UNCHANGED cap
  <2>1. KernelTypes' /\ \A x \in Caps : x # c => bind'[x] = bind[x]
    BY <1>1, <1>4 DEF KernelInv, KernelTypes
  <2>2. CapOK(c)'
    BY ONLY <1>1, <1>2, <1>3, <1>4, Zenon DEF CapOK
  <2> QED BY <1>1, <1>2, <1>4, <2>1, <2>2, CapSame DEF KernelInv
<1>5. CASE c \in addr /\ cap' = [cap EXCEPT ![c].state = "expired"] /\ UNCHANGED bind
  <2>1. /\ cap'[c] \in Entries /\ cap'[c].uses = cap[c].uses
        /\ \A x \in Caps : x # c => cap'[x] = cap[x]
        /\ cap' \in [Caps -> Entries \union {None}]
    BY <1>3, <1>5 DEF KernelInv, KernelTypes, Entries
  <2>2. KernelTypes'
    BY <1>1, <1>5, <2>1 DEF KernelInv, KernelTypes
  <2>3. CapOK(c)'
    BY ONLY <1>1, <1>2, <1>3, <1>5, <2>1, Zenon DEF CapOK
  <2> QED BY <1>1, <1>2, <1>5, <2>1, <2>2, <2>3, CapSame DEF KernelInv
<1> QED BY <1>4, <1>5 DEF Kernel!RefuseExpired

\* A guard is given back; the last one takes an entry with it that is not
\* active any more.
LEMMA KernelReturns ==
  ASSUME KernelSizes, KernelInv, NEW g \in Guards, Kernel!ReleaseGuard(g)
  PROVE  KernelInv'
<1>0. PICK c : c = guards[g]
  OBVIOUS
<1>1. /\ c # None /\ guards' = [guards EXCEPT ![g] = None] /\ UNCHANGED <<now, released>>
      /\ IF cap[c].uses = 1 /\ cap[c].state # "active" THEN Kernel!EraseEntry(c)
         ELSE cap' = [cap EXCEPT ![c].uses = @ - 1] /\ UNCHANGED <<addr, bind>>
  BY <1>0, Zenon DEF Kernel!ReleaseGuard
<1>2. c \in Caps /\ g \in Kernel!Holding(c) /\ None \notin Entries /\ None \notin Caps
  BY <1>0, <1>1 DEF KernelSizes, KernelInv, KernelTypes, Kernel!Holding, Entries
<1>3. /\ Kernel!Holding(c)' = Kernel!Holding(c) \ {g}
      /\ \A x \in Caps : x # c => Kernel!Holding(x)' = Kernel!Holding(x)
  <2>1. \A x \in Caps : x # c => g \notin Kernel!Holding(x)
    BY <1>0 DEF Kernel!Holding
  <2>2. \A x : Kernel!Holding(x)' = IF x = None THEN Kernel!Holding(x) \union {g} ELSE Kernel!Holding(x) \ {g}
    BY <1>1, GuardMoves DEF KernelInv
  <2> QED BY ONLY <1>2, <2>1, <2>2
<1>4. cap[c] \in Entries /\ cap[c] # None /\ cap[c].uses = Cardinality(Kernel!Holding(c)) /\ CapOK(c)
  BY <1>2 DEF KernelInv, KernelTypes, CapOK
<1>5. guards' \in [Guards -> Caps \union {None}]
  BY <1>1 DEF KernelInv, KernelTypes
<1>6. /\ Cardinality(Kernel!Holding(c)') = cap[c].uses - 1 /\ cap[c].uses \in Nat /\ cap[c].uses > 0
      /\ cap[c].uses = 1 <=> Kernel!Holding(c)' = {}
  <2>1. IsFiniteSet(Kernel!Holding(c)) /\ IsFiniteSet(Kernel!Holding(c) \ {g})
    <3>1. IsFiniteSet(Kernel!Holding(c))
      BY HoldingFinite
    <3> QED BY ONLY <3>1, FS_RemoveElement
  <2>2. /\ Cardinality(Kernel!Holding(c)) > 0 /\ Cardinality(Kernel!Holding(c)) \in Nat
        /\ Cardinality(Kernel!Holding(c) \ {g}) = Cardinality(Kernel!Holding(c)) - 1
    BY ONLY <1>2, <2>1, OneMore
  <2>3. Cardinality(Kernel!Holding(c) \ {g}) = 0 <=> Kernel!Holding(c) \ {g} = {}
    BY ONLY <2>1, OneMore
  <2> QED BY ONLY <1>3, <1>4, <2>2, <2>3
<1>7. CASE cap[c].uses = 1 /\ cap[c].state # "active"
  <2>1. /\ cap' = [cap EXCEPT ![c] = None] /\ addr' = addr \ {c}
        /\ bind' = [bind EXCEPT ![c] = "none"]
    BY <1>1, <1>7 DEF Kernel!EraseEntry
  <2>2. /\ cap'[c] = None /\ bind'[c] = "none" /\ KernelTypes'
        /\ \A x \in Caps : x # c => cap'[x] = cap[x] /\ bind'[x] = bind[x] /\ (x \in addr' <=> x \in addr)
    BY <1>1, <1>2, <1>5, <2>1 DEF KernelInv, KernelTypes
  <2>3. CapOK(c)'
    BY <1>6, <1>7, <2>1, <2>2 DEF CapOK
  <2> QED BY <1>1, <1>3, <2>2, <2>3, CapSame DEF KernelInv
<1>8. CASE ~(cap[c].uses = 1 /\ cap[c].state # "active")
  <2>1. cap' = [cap EXCEPT ![c].uses = @ - 1] /\ UNCHANGED <<addr, bind>>
    BY <1>1, <1>8, Zenon
  <2>2. /\ cap'[c] \in Entries /\ cap'[c].uses = cap[c].uses - 1 /\ cap'[c].state = cap[c].state
        /\ \A x \in Caps : x # c => cap'[x] = cap[x]
        /\ cap' \in [Caps -> Entries \union {None}]
    BY <1>2, <1>4, <1>6, <2>1 DEF KernelInv, KernelTypes, Entries
  <2>3. c \in released => Kernel!Holding(c)' # {}
    BY <1>4, <1>6, <1>8 DEF CapOK
  <2>4. KernelTypes'
    BY <1>1, <1>5, <2>1, <2>2 DEF KernelInv, KernelTypes
  <2>5. CapOK(c)'
    BY ONLY <1>1, <1>2, <1>4, <1>6, <2>1, <2>2, <2>3, Zenon DEF CapOK
  <2> QED BY <1>1, <1>3, <2>1, <2>2, <2>4, <2>5, CapSame DEF KernelInv
<1> QED BY <1>7, <1>8

\* A capability is released: it is erased, or drains.
LEMMA KernelReleases ==
  ASSUME KernelSizes, KernelInv, NEW c \in Caps, Kernel!ReleaseMinted(c)
  PROVE  KernelInv'
<1>1. /\ cap[c] # None /\ released' = released \union {c} /\ UNCHANGED <<guards, now>>
      /\ IF cap[c].uses = 0 THEN Kernel!EraseEntry(c)
         ELSE /\ cap' = [cap EXCEPT ![c].state = "draining"] /\ addr' = addr \ {c}
              /\ bind' = IF c \in Bound /\ bind[c] # "none" THEN [bind EXCEPT ![c] = "revoked"] ELSE bind
  BY Zenon DEF Kernel!ReleaseMinted, Kernel!Release
<1>2. /\ cap[c] \in Entries /\ None \notin Entries /\ CapOK(c)
      /\ cap[c].uses = Cardinality(Kernel!Holding(c))
  BY <1>1 DEF KernelSizes, KernelInv, KernelTypes, CapOK, Entries
<1>3. \A x : Kernel!Holding(x)' = Kernel!Holding(x)
  BY <1>1, HoldingSame
<1>4. cap[c].uses = 0 <=> Kernel!Holding(c) = {}
  BY ONLY KernelSizes, <1>2, HoldingFinite, OneMore
<1>5. CASE cap[c].uses = 0
  <2>1. /\ cap' = [cap EXCEPT ![c] = None] /\ addr' = addr \ {c}
        /\ bind' = [bind EXCEPT ![c] = "none"]
    BY <1>1, <1>5 DEF Kernel!EraseEntry
  <2>2. /\ cap'[c] = None /\ bind'[c] = "none" /\ KernelTypes'
        /\ \A x \in Caps : x # c => cap'[x] = cap[x] /\ bind'[x] = bind[x]
                                    /\ (x \in addr' <=> x \in addr) /\ (x \in released' <=> x \in released)
    BY <1>1, <2>1 DEF KernelInv, KernelTypes
  <2>3. CapOK(c)'
    BY <1>3, <1>4, <1>5, <2>1, <2>2 DEF CapOK
  <2> QED BY <1>3, <2>2, <2>3, CapSame DEF KernelInv
<1>6. CASE cap[c].uses # 0
  <2>1. /\ cap' = [cap EXCEPT ![c].state = "draining"] /\ addr' = addr \ {c}
        /\ bind' \in {bind, [bind EXCEPT ![c] = "revoked"]}
    BY <1>1, <1>6
  <2>2. /\ cap'[c] \in Entries /\ cap'[c].uses = cap[c].uses /\ cap'[c].state = "draining"
        /\ \A x \in Caps : x # c => cap'[x] = cap[x]
        /\ cap' \in [Caps -> Entries \union {None}]
    BY <1>2, <2>1 DEF KernelInv, KernelTypes, Entries
  <2>3. /\ KernelTypes'
        /\ \A x \in Caps : x # c => bind'[x] = bind[x] /\ (x \in addr' <=> x \in addr)
                                    /\ (x \in released' <=> x \in released)
    BY <1>1, <2>1, <2>2 DEF KernelInv, KernelTypes
  <2>4. CapOK(c)'
    BY ONLY <1>2, <1>3, <1>4, <1>6, <2>1, <2>2, Zenon DEF CapOK
  <2> QED BY <1>3, <2>2, <2>3, <2>4, CapSame DEF KernelInv
<1> QED BY <1>5, <1>6

\* Every step of the kernel keeps the invariant.
LEMMA KernelKept == ASSUME KernelSizes PROVE KernelInv /\ Kernel!KernelNext => KernelInv'
<1> SUFFICES ASSUME KernelInv, Kernel!KernelNext PROVE KernelInv'
  OBVIOUS
<1>1. CASE Kernel!Tick
  <2>1. now' \in 0..MaxTime /\ UNCHANGED <<cap, addr, bind, guards, released>>
    BY <1>1 DEF KernelSizes, Kernel!Tick, KernelInv, KernelTypes
  <2> QED BY <2>1, HoldingSame, CapSame DEF KernelInv, KernelTypes
<1> QED BY <1>1, KernelMints, KernelAdmits, KernelRefuses, KernelReleases, KernelReturns, Zenon
        DEF Kernel!KernelNext

\* What the invariant says of the books and of the end of a capability.
LEMMA KernelSound ==
  KernelInv => Kernel!KernelTypeOK /\ Kernel!GuardsCounted /\ Kernel!ReleasedIsErased /\ Kernel!NoRevival
<1> SUFFICES ASSUME KernelInv
    PROVE  Kernel!KernelTypeOK /\ Kernel!GuardsCounted /\ Kernel!ReleasedIsErased /\ Kernel!NoRevival
  OBVIOUS
<1>1. Kernel!KernelTypeOK
  BY DEF KernelInv, KernelTypes, Kernel!KernelTypeOK, Kernel!Entry, Kernel!States, Entries
<1>2. Kernel!GuardsCounted
  BY KernelCardinality, Zenon DEF KernelInv, CapOK, Kernel!GuardsCounted
<1>3. Kernel!ReleasedIsErased /\ Kernel!NoRevival
  BY DEF KernelInv, KernelTypes, CapOK, Kernel!ReleasedIsErased, Kernel!NoRevival
<1> QED BY <1>1, <1>2, <1>3

\* A step that takes a guard is an admission.
LEMMA KernelFailsClosed ==
  ASSUME KernelSizes PROVE KernelInv /\ Kernel!KernelNext => Kernel!AdmitFailsClosedStep
<1> SUFFICES ASSUME KernelInv, Kernel!KernelNext, NEW g \in Guards, guards[g] = None, guards'[g] # None
    PROVE  guards'[g] \notin released /\ now < cap[guards'[g]].exp
  BY DEF Kernel!AdmitFailsClosedStep
<1>1. CASE \E h \in Guards : Kernel!ReleaseGuard(h)
  <2>1. PICK h \in Guards : guards' = [guards EXCEPT ![h] = None]
    BY <1>1, Zenon DEF Kernel!ReleaseGuard
  <2> QED BY <2>1 DEF KernelInv, KernelTypes
<1>2. CASE \E c \in Caps, h \in Guards : Kernel!Admit(c, h)
  <2>1. PICK c \in Caps, h \in Guards : Kernel!Admit(c, h)
    BY <1>2
  <2>2. guards' = [guards EXCEPT ![h] = c]
    BY <2>1 DEF Kernel!Admit
  <2>3. guards'[g] = c
    BY <2>2 DEF KernelInv, KernelTypes
  <2> QED BY <2>1, <2>3, KernelAdmits
<1>3. CASE UNCHANGED guards
  BY <1>3
<1> QED BY <1>1, <1>2, <1>3, Zenon DEF Kernel!KernelNext, Kernel!Mint, Kernel!Renew, Kernel!RefuseExpired,
        Kernel!ReleaseMinted, Kernel!Release, Kernel!EraseEntry, Kernel!Tick

\* The behaviours of the kernel; its promises need no fairness.
KernelRuns == Kernel!KernelInit /\ [][Kernel!KernelNext]_(Kernel!kernelVars)

\* The invariant holds in every state that the kernel reaches.
LEMMA KernelInvariance == ASSUME KernelSizes PROVE KernelRuns => []KernelInv
<1>1. KernelInv /\ UNCHANGED Kernel!kernelVars => KernelInv'
  <2> SUFFICES ASSUME KernelInv, UNCHANGED <<cap, addr, bind, guards, now, released>> PROVE KernelInv'
    BY DEF Kernel!kernelVars
  <2> QED BY HoldingSame, CapSame DEF KernelInv, KernelTypes
<1> QED BY <1>1, KernelStart, KernelKept, PTL DEF KernelRuns

\* The uses of a capability are the guards that name it, nothing is left of one
\* that was released and has no guard out, and none that was released is active
\* again.
THEOREM CapabilitiesAlwaysSound ==
  ASSUME KernelSizes
  PROVE  KernelRuns => [](Kernel!KernelTypeOK /\ Kernel!GuardsCounted /\ Kernel!ReleasedIsErased /\ Kernel!NoRevival)
BY KernelInvariance, KernelSound, PTL

\* Admission fails closed when it races with release or expiry: every guard that
\* is handed out is for a capability that is neither released nor over.
THEOREM GuardsAlwaysAdmitted ==
  ASSUME KernelSizes
  PROVE  KernelRuns => [][Kernel!AdmitFailsClosedStep]_(Kernel!kernelVars)
BY KernelInvariance, KernelFailsClosed, PTL DEF KernelRuns

----------------------------------------------------------------------------
(* The retention handles. *)

CONSTANTS Handles, Ranks

VARIABLES phase, policy, lease, recorded, renewal, pending, cache

Retention == INSTANCE RetentionHandles WITH
    Policies <- Ranks, Renewals <- TRUE, EarlyRetire <- FALSE, AdmitMayFail <- TRUE

\* What is assumed of its constants: the ranks of the four retention policies,
\* of which None is none.
RanksKnown == Ranks \subseteq 0..3 /\ None \notin 0..3

\* While acquire is under way the lease of the handle is live, a handle on
\* record has a lease whose finalizers are still to run, and the policy that the
\* finalizer computed is applied before the finalizer goes on.
HandleOK(h) ==
  /\ h \in recorded => lease[h] \in {"live", "expire"}
  /\ phase[h] = "new" => lease[h] = "none"
  /\ phase[h] \in {"leased", "admitted", "minted"} => lease[h] = "live"
  /\ pending["expire"][h] # None => lease[h] = "apply"

RetentionTypes ==
  /\ phase \in [Handles -> {"new", "leased", "admitted", "minted", "recorded", "held", "failed"}]
  /\ policy \in [Handles -> Ranks \union {0}]
  /\ lease \in [Handles -> {"none", "live", "expire", "apply", "capability", "gone"}]
  /\ recorded \subseteq Handles /\ cap \subseteq Handles /\ cache \in Ranks \union {0}
  /\ pending \in [Retention!Ops -> [Handles -> Ranks \union {0, None}]]

RetentionInv == RetentionTypes /\ \A h \in Handles : HandleOK(h)

LEMMA RetentionStart == ASSUME RanksKnown PROVE Retention!RetentionInit => RetentionInv
BY DEF RanksKnown, Retention!RetentionInit, Retention!Ops, RetentionInv, RetentionTypes, HandleOK

\* The strongest of the policies that some handles ask for is one of them.
LEMMA EffectiveIsRank ==
  ASSUME RanksKnown, RetentionTypes, NEW hs \in SUBSET Handles
  PROVE  Retention!Effective(hs) \in Ranks \union {0}
<1> DEFINE S == {policy[h] : h \in hs} \union {0}
<1>1. \A y \in S : y \in Ranks \union {0}
  BY DEF RetentionTypes
<1>2. \A y \in S : y = 0 \/ y = 1 \/ y = 2 \/ y = 3
  <2>1. \A y \in Ranks \union {0} : y = 0 \/ y = 1 \/ y = 2 \/ y = 3
    BY DEF RanksKnown
  <2> QED BY ONLY <1>1, <2>1
<1>3. 0 \in S /\ \A h \in hs : policy[h] \in S
  OBVIOUS
<1> HIDE DEF S
<1>4. \E x \in S : \A y \in S : y <= x
  <2>1. CASE 3 \in S
    BY ONLY <1>2, <2>1
  <2>2. CASE 3 \notin S /\ 2 \in S
    BY ONLY <1>2, <2>2
  <2>3. CASE 3 \notin S /\ 2 \notin S /\ 1 \in S
    BY ONLY <1>2, <2>3
  <2>4. CASE 3 \notin S /\ 2 \notin S /\ 1 \notin S
    BY ONLY <1>2, <1>3, <2>4
  <2> QED BY ONLY <2>1, <2>2, <2>3, <2>4
<1>5. \E p \in S : \A h \in hs : policy[h] <= p
  BY ONLY <1>3, <1>4
<1>6. Retention!Effective(hs) = CHOOSE p \in S : \A h \in hs : policy[h] <= p
  BY Zenon DEF Retention!Effective, S
<1>7. Retention!Effective(hs) \in S
  BY ONLY <1>5, <1>6, Zenon
<1> QED BY ONLY <1>1, <1>7

\* A policy that was computed waits to be applied.
LEMMA PolicyComputed ==
  ASSUME RanksKnown, RetentionTypes, NEW o \in Retention!Ops, NEW h \in Handles, NEW hs \in SUBSET Handles,
         Retention!Compute(o, h, hs)
  PROVE  /\ pending' \in [Retention!Ops -> [Handles -> Ranks \union {0, None}]]
         /\ \A x \in Handles : x # h \/ o # "expire" => pending'["expire"][x] = pending["expire"][x]
<1>1. PICK e \in Ranks \union {0} : pending' = [pending EXCEPT ![o][h] = e]
  BY EffectiveIsRank, Zenon DEF Retention!Compute
<1>2. "expire" \in Retention!Ops
  BY DEF Retention!Ops
<1> QED BY <1>1, <1>2 DEF RetentionTypes

\* A handle that a step does not touch.
LEMMA HandleSame ==
  ASSUME NEW x, HandleOK(x), phase'[x] = phase[x], lease'[x] = lease[x],
         x \in recorded' <=> x \in recorded, pending'["expire"][x] = pending["expire"][x]
  PROVE  HandleOK(x)'
BY Zenon DEF HandleOK

\* Acquire, until the handle is on record.
LEMMA RetentionAcquires ==
  ASSUME RanksKnown, RetentionInv, NEW h \in Handles, Retention!Acquire(h) \/ Retention!Acquiring(h)
  PROVE  RetentionInv'
<1> USE DEF RetentionInv
<1>0. HandleOK(h) /\ RetentionTypes
  OBVIOUS
<1>1. CASE Retention!Acquire(h)
  <2>1. /\ phase[h] = "new" /\ phase' = [phase EXCEPT ![h] = "leased"]
        /\ lease' = [lease EXCEPT ![h] = "live"] /\ \E p \in Ranks : policy' = [policy EXCEPT ![h] = p]
        /\ UNCHANGED <<recorded, cap, renewal, pending, cache>>
    BY <1>1, Zenon DEF Retention!Acquire
  <2>2. /\ RetentionTypes' /\ phase'[h] = "leased" /\ lease'[h] = "live"
        /\ \A x \in Handles : x # h => phase'[x] = phase[x] /\ lease'[x] = lease[x]
    BY <2>1 DEF RetentionTypes
  <2>3. HandleOK(h)'
    BY ONLY <1>0, <2>1, <2>2 DEF HandleOK
  <2> QED BY <2>1, <2>2, <2>3, HandleSame
<1>2. CASE Retention!Admit(h)
  <2>1. /\ phase[h] = "leased" /\ UNCHANGED <<policy, recorded, cap, renewal, pending>>
        /\ \/ /\ cache' \in {cache, policy[h]} /\ phase' = [phase EXCEPT ![h] = "admitted"]
              /\ UNCHANGED lease
           \/ /\ phase' = [phase EXCEPT ![h] = "failed"]
              /\ lease' = [lease EXCEPT ![h] = IF @ = "live" THEN "expire" ELSE @]
              /\ UNCHANGED cache
    BY <1>2, Zenon DEF Retention!Admit, Retention!Upgraded
  <2>2. /\ RetentionTypes' /\ \A x \in Handles : x # h => phase'[x] = phase[x] /\ lease'[x] = lease[x]
        /\ lease[h] = "live" => \/ phase'[h] = "admitted" /\ lease'[h] = "live"
                                \/ phase'[h] = "failed" /\ lease'[h] = "expire"
    BY <2>1 DEF RetentionTypes
  <2>3. HandleOK(h)'
    BY ONLY <1>0, <2>1, <2>2 DEF HandleOK
  <2> QED BY <2>1, <2>2, <2>3, HandleSame
<1>3. CASE Retention!MintCapability(h)
  <2>1. /\ phase[h] = "admitted" /\ phase' = [phase EXCEPT ![h] = "minted"]
        /\ cap' = cap \union {h} /\ UNCHANGED <<policy, lease, recorded, renewal, pending, cache>>
    BY <1>3, Zenon DEF Retention!MintCapability
  <2>2. RetentionTypes' /\ phase'[h] = "minted" /\ \A x \in Handles : x # h => phase'[x] = phase[x]
    BY <2>1 DEF RetentionTypes
  <2>3. HandleOK(h)'
    BY ONLY <1>0, <2>1, <2>2 DEF HandleOK
  <2> QED BY <2>1, <2>2, <2>3, HandleSame
<1>4. CASE Retention!Record(h)
  <2>1. /\ phase[h] = "minted" /\ phase' = [phase EXCEPT ![h] = "recorded"]
        /\ recorded' = recorded \union {h} /\ Retention!Compute("acquire", h, recorded')
        /\ UNCHANGED <<policy, lease, cap, renewal, cache>>
    BY <1>4, Zenon DEF Retention!Record
  <2>2. /\ pending' \in [Retention!Ops -> [Handles -> Ranks \union {0, None}]]
        /\ \A x \in Handles : pending'["expire"][x] = pending["expire"][x]
    <3>1. "acquire" \in Retention!Ops /\ recorded' \in SUBSET Handles
      BY <2>1 DEF Retention!Ops, RetentionTypes
    <3> QED BY <2>1, <3>1, PolicyComputed
  <2>3. RetentionTypes' /\ phase'[h] = "recorded" /\ \A x \in Handles : x # h => phase'[x] = phase[x]
    BY <2>1, <2>2 DEF RetentionTypes
  <2>4. HandleOK(h)'
    BY ONLY <1>0, <2>1, <2>2, <2>3 DEF HandleOK
  <2> QED BY <2>1, <2>2, <2>3, <2>4, HandleSame
<1> QED BY <1>1, <1>2, <1>3, <1>4 DEF Retention!Acquiring

\* A computed policy is applied, and the call that computed it goes on.
LEMMA RetentionApplies ==
  ASSUME RanksKnown, RetentionInv, NEW h \in Handles, NEW o \in Retention!Ops, Retention!Apply(o, h)
  PROVE  RetentionInv'
<1> USE DEF RetentionInv
<1>1. /\ pending[o][h] # None /\ cache' = pending[o][h] /\ pending' = [pending EXCEPT ![o][h] = None]
      /\ phase' = [phase EXCEPT ![h] = IF o = "acquire" THEN "held" ELSE @]
      /\ lease' = [lease EXCEPT ![h] = IF o = "expire" THEN "capability" ELSE @]
      /\ UNCHANGED <<policy, recorded, cap, renewal>>
  BY Zenon DEF Retention!Apply
<1>2. /\ RetentionTypes' /\ \A x \in Handles : x # h => phase'[x] = phase[x] /\ lease'[x] = lease[x]
      /\ phase'[h] = IF o = "acquire" THEN "held" ELSE phase[h]
      /\ lease'[h] = IF o = "expire" THEN "capability" ELSE lease[h]
  BY <1>1 DEF RetentionTypes
<1>3. /\ \A x \in Handles : x # h \/ o # "expire" => pending'["expire"][x] = pending["expire"][x]
      /\ o = "expire" => pending'["expire"][h] = None
  <2>1. "expire" \in Retention!Ops
    BY DEF Retention!Ops
  <2> QED BY <1>1, <2>1 DEF RetentionTypes
<1>4. HandleOK(h)'
  <2>1. HandleOK(h)
    OBVIOUS
  <2> QED BY ONLY h \in Handles, <1>1, <1>2, <1>3, <2>1 DEF HandleOK
<1> QED BY <1>1, <1>2, <1>3, <1>4, HandleSame

\* The deadline of a lease, a release, and what the finalizers do.
LEMMA RetentionEnds ==
  ASSUME RanksKnown, RetentionInv, NEW h \in Handles,
         Retention!Deadline(h) \/ Retention!Release(h) \/ Retention!Finalizing(h)
  PROVE  RetentionInv'
<1> USE DEF RetentionInv
<1>0. HandleOK(h) /\ RetentionTypes
  OBVIOUS
<1>1. CASE Retention!Deadline(h)
  <2>1. /\ lease[h] = "live" /\ phase[h] = "held" /\ lease' = [lease EXCEPT ![h] = "expire"]
        /\ UNCHANGED <<phase, policy, recorded, cap, renewal, pending, cache>>
    BY <1>1, Zenon DEF Retention!Deadline
  <2>2. RetentionTypes' /\ lease'[h] = "expire" /\ \A x \in Handles : x # h => lease'[x] = lease[x]
    BY <2>1 DEF RetentionTypes
  <2>3. HandleOK(h)'
    BY ONLY <1>0, <2>1, <2>2 DEF HandleOK
  <2> QED BY <2>1, <2>2, <2>3, HandleSame
<1>2. CASE Retention!Release(h)
  <2>1. /\ phase[h] = "held" /\ h \in recorded /\ recorded' = recorded \ {h}
        /\ Retention!Compute("release", h, recorded') /\ cap' = cap \ {h}
        /\ lease' = [lease EXCEPT ![h] = IF @ = "live" THEN "expire" ELSE @]
        /\ UNCHANGED <<phase, policy, renewal, cache>>
    BY <1>2, Zenon DEF Retention!Release
  <2>2. /\ pending' \in [Retention!Ops -> [Handles -> Ranks \union {0, None}]]
        /\ \A x \in Handles : pending'["expire"][x] = pending["expire"][x]
    <3>1. "release" \in Retention!Ops /\ recorded' \in SUBSET Handles
      BY <2>1 DEF Retention!Ops, RetentionTypes
    <3> QED BY <2>1, <3>1, PolicyComputed
  <2>3. RetentionTypes' /\ \A x \in Handles : x # h => lease'[x] = lease[x]
    BY <2>1, <2>2 DEF RetentionTypes
  <2>4. HandleOK(h)'
    BY ONLY h \in Handles, <1>0, <2>1, <2>2 DEF HandleOK
  <2> QED BY <2>1, <2>2, <2>3, <2>4, HandleSame
<1>3. CASE Retention!ExpireHandle(h)
  <2>1. /\ lease[h] = "expire" /\ UNCHANGED <<phase, policy, cap, renewal, cache>>
        /\ IF h \in recorded
             THEN /\ recorded' = recorded \ {h} /\ Retention!Compute("expire", h, recorded')
                  /\ lease' = [lease EXCEPT ![h] = "apply"]
             ELSE lease' = [lease EXCEPT ![h] = "capability"] /\ UNCHANGED <<recorded, pending>>
    BY <1>3, Zenon DEF Retention!ExpireHandle
  <2>2. CASE h \in recorded
    <3>1. "expire" \in Retention!Ops /\ recorded' \in SUBSET Handles
      BY <2>1, <2>2 DEF Retention!Ops, RetentionTypes
    <3>2. /\ pending' \in [Retention!Ops -> [Handles -> Ranks \union {0, None}]]
          /\ \A x \in Handles : x # h => pending'["expire"][x] = pending["expire"][x]
      BY <2>1, <2>2, <3>1, PolicyComputed
    <3>3. RetentionTypes' /\ lease'[h] = "apply" /\ \A x \in Handles : x # h => lease'[x] = lease[x]
      BY <2>1, <2>2, <3>2 DEF RetentionTypes
    <3>4. HandleOK(h)'
      BY ONLY <1>0, <2>1, <2>2, <3>3 DEF HandleOK
    <3> QED BY <2>1, <2>2, <3>2, <3>3, <3>4, HandleSame
  <2>3. CASE h \notin recorded
    <3>1. RetentionTypes' /\ lease'[h] = "capability" /\ \A x \in Handles : x # h => lease'[x] = lease[x]
      BY <2>1, <2>3 DEF RetentionTypes
    <3>2. HandleOK(h)'
      BY ONLY <1>0, <2>1, <2>3, <3>1 DEF HandleOK
    <3> QED BY <2>1, <2>3, <3>1, <3>2, HandleSame
  <2> QED BY <2>2, <2>3
<1>4. CASE Retention!ReleaseCapability(h)
  <2>1. /\ lease[h] = "capability" /\ cap' = cap \ {h} /\ lease' = [lease EXCEPT ![h] = "gone"]
        /\ UNCHANGED <<phase, policy, recorded, renewal, pending, cache>>
    BY <1>4, Zenon DEF Retention!ReleaseCapability
  <2>2. RetentionTypes' /\ lease'[h] = "gone" /\ \A x \in Handles : x # h => lease'[x] = lease[x]
    BY <2>1 DEF RetentionTypes
  <2>3. HandleOK(h)'
    BY ONLY <1>0, <2>1, <2>2 DEF HandleOK
  <2> QED BY <2>1, <2>2, <2>3, HandleSame
<1> QED BY <1>1, <1>2, <1>3, <1>4 DEF Retention!Finalizing

\* A renewal repeats the admission and computes the policy again.
LEMMA RetentionRenews ==
  ASSUME RanksKnown, RetentionInv, NEW h \in Handles, Retention!Renew(h) \/ Retention!Renewing(h)
  PROVE  RetentionInv'
<1> USE DEF RetentionInv
<1>1. UNCHANGED <<phase, policy, lease, recorded, cap>>
  BY Zenon DEF Retention!Renew, Retention!Renewing, Retention!RenewAdmit, Retention!RenewLease, Retention!RenewRecord
<1>2. cache' \in Ranks \union {0}
  BY DEF Retention!Renew, Retention!Renewing, Retention!RenewAdmit, Retention!RenewLease,
         Retention!RenewRecord, Retention!Upgraded, RetentionTypes
<1>3. UNCHANGED pending \/ Retention!Compute("renew", h, recorded)
  BY Zenon DEF Retention!Renew, Retention!Renewing, Retention!RenewAdmit, Retention!RenewLease, Retention!RenewRecord
<1>4. /\ pending' \in [Retention!Ops -> [Handles -> Ranks \union {0, None}]]
      /\ \A x \in Handles : pending'["expire"][x] = pending["expire"][x]
  <2>1. "renew" \in Retention!Ops /\ recorded \in SUBSET Handles /\ RetentionTypes
    BY DEF Retention!Ops, RetentionTypes
  <2>2. CASE UNCHANGED pending
    BY <2>1, <2>2 DEF RetentionTypes
  <2>3. CASE Retention!Compute("renew", h, recorded)
    BY <2>1, <2>3, PolicyComputed
  <2> QED BY <1>3, <2>2, <2>3
<1>5. RetentionTypes'
  BY <1>1, <1>2, <1>4 DEF RetentionTypes
<1> QED BY <1>1, <1>4, <1>5, HandleSame

\* Every step of the registry keeps the invariant.
LEMMA RetentionKept == ASSUME RanksKnown PROVE RetentionInv /\ Retention!Next => RetentionInv'
BY RetentionAcquires, RetentionApplies, RetentionEnds, RetentionRenews, Zenon DEF Retention!Next

LEMMA RetentionSound == RetentionInv => Retention!TypeOK /\ Retention!RecordedHasLease
<1>1. RetentionInv => Retention!TypeOK
  BY DEF RetentionInv, RetentionTypes, Retention!TypeOK
<1>2. RetentionInv => Retention!RecordedHasLease
  BY DEF RetentionInv, RetentionTypes, HandleOK, Retention!RecordedHasLease
<1> QED BY <1>1, <1>2

\* The behaviours of the registry; its promises need no fairness.
RetentionRuns == Retention!RetentionInit /\ [][Retention!Next]_(Retention!vars)

\* A retention handle on record has a lease whose finalizers will expire it,
\* through refused admissions, renewals, releases and deadlines, and the policies
\* that wait to be applied are policies that handles asked for.
THEOREM HandlesAlwaysLeased ==
  ASSUME RanksKnown
  PROVE  RetentionRuns => [](Retention!TypeOK /\ Retention!RecordedHasLease)
<1>1. RetentionInv /\ UNCHANGED Retention!vars => RetentionInv'
  BY Zenon DEF Retention!vars, RetentionInv, RetentionTypes, HandleOK
<1> QED BY <1>1, RetentionStart, RetentionKept, RetentionSound, PTL DEF RetentionRuns

=============================================================================
