----------------------------- MODULE Deploy_proofs -----------------------------
(***************************************************************************)
(* Deploy, for any number of ranks, any jobs and any hash: the ranks make  *)
(* the same tags, get the broadcasts they wait for, and end with whole     *)
(* parameters.                                                             *)
(*                                                                         *)
(* All ranks run one program.  The argument compares each of them with a   *)
(* run of that program which exists only on paper: M[n][o] is what TagMap  *)
(* holds on rank 0 at place o of module n (Canon).  A rank at that place   *)
(* holds the same, or the part of it about rank sets; two ranks agree      *)
(* because the paper run only adds tags.  And what rank 0 has sent and a   *)
(* rank not yet received leads, message by message, from the broadcast the *)
(* rank comes to next to the one rank 0 comes to next (Path).              *)
(***************************************************************************)
EXTENDS Deploy, Redist_proofs

-----------------------------------------------------------------------------
(* The run on paper. *)

\* How many parameters a module has, the ranks that use one, the rank sets of
\* its routes, and its last place.
Size(j, n)       == Len(j.modules[n].params)
UsersOf(j, n, i) == UNION j.modules[n].users[j.modules[n].params[i]]
Comms(j, n)      == CommSets(j, j.modules[n])
EndOf(j, n)      == 3 + Size(j, n) + Len(Comms(j, n))

NoTags == [tag |-> << >>, taken |-> {}]

\* The TagMaps rank 0 may have: one tag for each key, and no other tag taken.
TagMaps(j) ==
    {t \in [tag : UNION {[K -> 0 .. TagUB - 1] : K \in SUBSET KeysOf(j)},
            taken : SUBSET (0 .. TagUB - 1)] :
        /\ \A k, l \in DOMAIN t.tag : t.tag[k] = t.tag[l] => k = l
        /\ \A u \in t.taken : \E k \in DOMAIN t.tag : t.tag[k] = u
        /\ \A k \in DOMAIN t.tag : t.tag[k] \in t.taken}

\* What place o of module n asks for.
StepMap(j, n, o, t) ==
    IF o = 0 THEN Ask(j, t, RankKey(Ranks))
    ELSE IF o = 1 THEN AskAll(j, t, RouteKeys(j.modules[n]))
    ELSE IF o <= 1 + Size(j, n)
    THEN IF UsersOf(j, n, o - 1) = {} THEN t ELSE Ask(j, t, RankKey(UsersOf(j, n, o - 1)))
    ELSE IF o <= 1 + Size(j, n) + Len(Comms(j, n))
    THEN Ask(j, t, RankKey(Comms(j, n)[o - 1 - Size(j, n)]))
    ELSE IF o = 2 + Size(j, n) + Len(Comms(j, n)) /\ ~j.gather
    THEN Ask(j, t, RankKey({0}))
    ELSE t

StartMap(j) == IF j.stored = << >> THEN NoTags ELSE Ask(j, NoTags, RankKey(Ranks))

Canon(j, M) ==
    /\ \A n \in DOMAIN j.modules : \A o \in Nat :
           M[n][o] \in TagMaps(j) /\ M[n][o + 1] = StepMap(j, n, o, M[n][o])
    /\ M[1][0] = StartMap(j)
    /\ \A n \in DOMAIN j.modules :
           n + 1 \in DOMAIN j.modules => M[n + 1][0] = M[n][EndOf(j, n)]

\* The place of a rank with control state x, and what rank 0 holds there.
Place(j, x) ==
    IF x.pc \in {"register", "trace", "trace_load", "fetchStart"} THEN 0
    ELSE IF x.pc \in {"master", "master_load", "fetching", "fetch_load"} THEN 1
    ELSE IF x.pc \in {"barrier", "deployment", "sync"} THEN 2
    ELSE IF x.pc = "param" THEN 1 + x.at
    ELSE IF x.pc \in {"value", "param_load"} THEN 2 + x.at
    ELSE IF x.pc \in {"zero", "sync2"} THEN 2 + Size(j, x.mod)
    ELSE IF x.pc = "route" THEN 1 + Size(j, x.mod) + x.at
    ELSE EndOf(j, x.mod)

MapAt(j, M, x) ==
    IF x.pc = "store" THEN IF x.at = 1 THEN NoTags ELSE StartMap(j)
    ELSE M[x.mod][Place(j, x)]

\* The part of it that every rank has: the tags of rank sets.
RankPart(f) == [k \in {l \in DOMAIN f : l.kind = "ranks"} |-> f[k]]
View(r, t)  == IF r = 0 THEN t ELSE [tag |-> RankPart(t.tag), taken |-> t.taken]

-----------------------------------------------------------------------------
(* Broadcasts. *)

\* The broadcast a rank comes to next: in RaNNCModule::init at parameter i, in
\* ParamStorage::deploy at parameter i, at the end of module n; for any rank.
RegisterPoint(j, n, i) == IF i <= Size(j, n) THEN <<n, "id", i>> ELSE <<n, "names", 0>>

Sends(j, n, i) == UsersOf(j, n, i) # {} /\ j.modules[n].params[i] \notin ToSet(j.stored)

Sending(j, n, i) == {e \in i .. Size(j, n) : Sends(j, n, e)}

ValuePoint(j, n, i) ==
    IF Sending(j, n, i) = {} THEN <<n, "sync2", 0>>
    ELSE <<n, "value", CHOOSE e \in Sending(j, n, i) : \A d \in Sending(j, n, i) : e <= d>>

EndPoint(j, n) == IF n < Len(j.modules) THEN RegisterPoint(j, n + 1, 1) ELSE <<n, "end", 0>>

Point(j, x) ==
    IF x.pc = "store" THEN RegisterPoint(j, 1, 1)
    ELSE IF x.pc = "register" THEN RegisterPoint(j, x.mod, x.at)
    ELSE IF x.pc \in {"trace", "trace_load"} THEN <<x.mod, "names", 0>>
    ELSE IF x.pc \in {"fetchStart", "master", "master_load", "fetching", "fetch_load"}
    THEN <<x.mod, "fetch", 0>>
    ELSE IF x.pc \in {"barrier", "deployment"} THEN <<x.mod, "deployment", 0>>
    ELSE IF x.pc = "sync" THEN <<x.mod, "sync", 0>>
    ELSE IF x.pc \in {"param", "value", "param_load"} THEN ValuePoint(j, x.mod, x.at)
    ELSE IF x.pc \in {"zero", "sync2"} THEN <<x.mod, "sync2", 0>>
    ELSE IF x.pc = "route" THEN EndPoint(j, x.mod)
    ELSE <<x.mod, "end", 0>>

\* The broadcast after the one at b, in which msg was sent.
After(j, b, msg) ==
    IF b[2] = "id" THEN RegisterPoint(j, b[1], b[3] + 1)
    ELSE IF b[2] = "names" THEN <<b[1], "fetch", 0>>
    ELSE IF b[2] = "fetch"
    THEN IF msg.val = 0 THEN <<b[1], "deployment", 0>> ELSE <<b[1], "fetch", 0>>
    ELSE IF b[2] = "deployment" THEN <<b[1], "sync", 0>>
    ELSE IF b[2] = "sync" THEN ValuePoint(j, b[1], 1)
    ELSE IF b[2] = "value" THEN ValuePoint(j, b[1], b[3] + 1)
    ELSE EndPoint(j, b[1])

\* The entries of a table of routes are tags of t.
RoutesIn(f, t) == \A k \in DOMAIN f : k \in DOMAIN t.tag /\ f[k] = t.tag[k]

\* The message of the broadcast at b.
MsgOK(j, M, b, msg) ==
    LET n == b[1]
    IN  \/ b[2] = "id" /\ msg.kind = "id"
        \/ b[2] = "names" /\ msg.kind = "names" /\ msg.val = j.modules[n].params
        \/ /\ b[2] = "fetch" /\ msg.kind = "fetch"
           /\ \/ msg.val = 0
              \/ \E p \in ToSet(j.modules[n].params) \cap ToSet(j.stored) : msg.val = j.id[0][p]
        \/ b[2] = "deployment" /\ msg.kind = "deployment" /\ RoutesIn(msg.val, M[n][2])
        \/ b[2] = "sync" /\ msg.kind = "tags" /\ msg.val = M[n][2].taken
        \/ b[2] = "sync2" /\ msg.kind = "tags" /\ msg.val = M[n][2 + Size(j, n)].taken
        \/ b[2] = "value" /\ msg.kind = "value" /\ msg.val = Tensor(j.modules[n].params[b[3]], 0)

\* The messages in box lead from broadcast b to broadcast c.
Path(j, M, box, b, c) ==
    /\ \E V : box \in Seq(V)
    /\ \E pts : /\ pts[1] = b /\ pts[Len(box) + 1] = c
                /\ \A k \in 1 .. Len(box) : MsgOK(j, M, pts[k], box[k])
                                            /\ pts[k + 1] = After(j, pts[k], box[k])

-----------------------------------------------------------------------------
(* The invariant, rank by rank. *)

Phases == {"store", "register", "trace", "trace_load", "fetchStart", "master", "master_load",
           "fetching", "fetch_load", "barrier", "deployment", "sync", "param", "value",
           "param_load", "zero", "sync2", "route", "done"}

\* Where a rank can be.
ControlOK(j, r, x) ==
    /\ DOMAIN x = {"pc", "mod", "at", "load", "order"}
    /\ x.pc \in Phases /\ x.mod \in 1 .. Len(j.modules) /\ x.at \in Nat \ {0}
    /\ x.pc = "store" => x.mod = 1 /\ x.at <= Len(j.stored) + 1
    /\ x.pc \in {"register", "trace", "param", "zero"} => x.at <= Size(j, x.mod) + 1
    /\ x.pc = "trace_load" => j.stored # << >> /\ x.at <= Size(j, x.mod)
    /\ x.pc \in {"master", "master_load"} => r = 0
    /\ x.pc \in {"fetching", "fetch_load"} => r # 0
    /\ x.pc \in {"value", "param_load"} => x.at <= Size(j, x.mod) /\ UsersOf(j, x.mod, x.at) # {}
    /\ x.pc = "param_load" => /\ x.load = j.modules[x.mod].params[x.at]
                              /\ x.load \in ToSet(j.stored) /\ r \in UsersOf(j, x.mod, x.at)
    /\ x.pc = "route" => x.at <= Len(Comms(j, x.mod)) + 1
    /\ x.pc = "done" => ~(x.mod < Len(j.modules))
    /\ x.pc \notin {"store", "register", "trace", "trace_load"} => x.order = j.modules[x.mod].params

\* TagMap is that of the run on paper; between fetchEnd and sync only rank 0
\* has the tags it made for the routes.
Unsynced == {"barrier", "deployment", "sync"}

TagsOK(j, M, r, x, t) ==
    \/ t = View(r, MapAt(j, M, x))
    \/ /\ r # 0 /\ x.pc \in Unsynced
       /\ \E s : t = [tag |-> View(r, MapAt(j, M, x)).tag, taken |-> s]

\* A communicator is kept under the tag of its ranks.
CommsOK(t, c) ==
    /\ DOMAIN c = {"mpi", "nccl", "sets"}
    /\ \A u \in DOMAIN c.nccl : RankKey(c.nccl[u]) \in DOMAIN t.tag /\ t.tag[RankKey(c.nccl[u])] = u

\* How many parameters of its module a rank has registered, and deployed.
Registering(j, x) ==
    IF x.pc = "store" THEN 0 ELSE IF x.pc = "register" THEN x.at - 1 ELSE Size(j, x.mod)
Deployed(j, x) ==
    IF x.pc \in {"param", "value", "param_load"} THEN x.at - 1
    ELSE IF x.pc \in {"zero", "sync2", "route", "done"} THEN Size(j, x.mod) ELSE 0

\* Parameters registered and not yet deployed are as they were registered.
StorageOK(j, r, x, st) ==
    /\ DOMAIN st = {"dist", "value"}
    /\ st.dist \subseteq ToSet(j.stored)
    /\ \A i \in Deployed(j, x) + 1 .. Registering(j, x) :
        LET p == j.modules[x.mod].params[i]
        IN  /\ p \in DOMAIN st.value /\ st.value[p] = Tensor(p, r)
            /\ p \in ToSet(j.stored) => p \in st.dist

RankOK(j, M, r, x, t, f, c, st) ==
    /\ ControlOK(j, r, x)
    /\ TagsOK(j, M, r, x, t)
    /\ RoutesIn(f, MapAt(j, M, x))
    /\ CommsOK(t, c)
    /\ StorageOK(j, r, x, st)

Core(M) ==
    /\ DOMAIN proc = Ranks /\ DOMAIN inbox = Ranks /\ DOMAIN tagmap = Ranks
    /\ DOMAIN routes = Ranks /\ DOMAIN comms = Ranks /\ DOMAIN storage = Ranks
    /\ \A r \in Ranks : RankOK(job, M, r, proc[r], tagmap[r], routes[r], comms[r], storage[r])
    /\ \A r \in Ranks \ {0} : Path(job, M, inbox[r], Point(job, proc[r]), Point(job, proc[0]))

\* Two ranks that run have passed the same barriers of RaNNCModule::init.
Barriers(x) ==
    IF x.pc \in {"deployment", "sync", "param", "value", "param_load", "zero", "sync2", "route", "done"}
    THEN x.mod ELSE x.mod - 1

-----------------------------------------------------------------------------
(* Recursion over the natural numbers. *)

Prefix(V, a, F, N, g) ==
    /\ g \in [0 .. N -> V] /\ g[0] = a
    /\ \A n \in 0 .. N - 1 : g[n + 1] = F[<<n, g[n]>>]

\* Two prefixes of one recursion agree as far as both go.
LEMMA PrefixUnique ==
    ASSUME NEW V, NEW a, NEW F, NEW N \in Nat, NEW L \in Nat, NEW g, NEW h,
           Prefix(V, a, F, N, g), Prefix(V, a, F, L, h)
    PROVE  \A n \in 0 .. N : n <= L => g[n] = h[n]
<1>1. PICK Bad \in SUBSET Nat : \A n \in Nat : n \in Bad <=> n <= N /\ n <= L /\ g[n] # h[n]
  <2>1. {n \in Nat : n <= N /\ n <= L /\ g[n] # h[n]} \in SUBSET Nat
    OBVIOUS
  <2> QED
    BY <2>1
<1>2. Bad = {}
  <2>1. SUFFICES ASSUME Bad # {} PROVE FALSE
    OBVIOUS
  <2>2. PICK m \in Bad : \A n \in Bad : m <= n
    BY <2>1, LeastNat
  <2>3. m # 0
    BY <1>1, <2>2 DEF Prefix
  <2>4. PICK k \in Nat : m = k + 1
    BY <2>2, <2>3
  <2>5. k \in 0 .. N - 1 /\ k \in 0 .. L - 1
    BY <1>1, <2>2, <2>4
  <2>6. g[k] = h[k]
    BY <1>1, <2>2, <2>4, <2>5
  <2>7. g[k + 1] = h[k + 1]
    BY <2>5, <2>6 DEF Prefix
  <2> QED
    BY <1>1, <2>2, <2>4, <2>7
<1> QED
  BY <1>1, <1>2

RunOf(V, a, F, f) ==
    f \in [Nat -> V] /\ f[0] = a /\ \A n \in Nat : f[n + 1] = F[<<n, f[n]>>]

\* A recursion on natural numbers defines a function.
LEMMA Recursion ==
    ASSUME NEW V, NEW a \in V, NEW F \in [Nat \X V -> V]
    PROVE  \E f : RunOf(V, a, F, f)
<1>1. PICK Bad \in SUBSET Nat : \A n \in Nat : n \in Bad <=> ~\E g : Prefix(V, a, F, n, g)
  <2>1. {n \in Nat : ~\E g : Prefix(V, a, F, n, g)} \in SUBSET Nat
    OBVIOUS
  <2> QED
    BY <2>1
<1>2. Bad = {}
  <2>1. SUFFICES ASSUME Bad # {} PROVE FALSE
    OBVIOUS
  <2>2. PICK m \in Bad : \A n \in Bad : m <= n
    BY <2>1, LeastNat
  <2>3. m # 0
    <3>1. Prefix(V, a, F, 0, [n \in 0 .. 0 |-> a])
      BY DEF Prefix
    <3> QED
      BY <1>1, <2>2, <3>1
  <2>4. PICK k \in Nat : m = k + 1
    BY <2>2, <2>3
  <2>5. k \notin Bad
    BY <2>2, <2>4
  <2>6. PICK g : Prefix(V, a, F, k, g)
    BY <1>1, <2>5
  <2>7. PICK v \in V : v = F[<<k, g[k]>>]
    BY <2>6 DEF Prefix
  <2>8. PICK h : h = [n \in 0 .. m |-> IF n <= k THEN g[n] ELSE v]
    OBVIOUS
  <2>9. h \in [0 .. m -> V] /\ h[0] = a
    BY <2>4, <2>6, <2>7, <2>8 DEF Prefix
  <2>10. ASSUME NEW n \in 0 .. m - 1 PROVE h[n + 1] = F[<<n, h[n]>>]
    <3>1. h[n] = g[n]
      BY <2>4, <2>8
    <3>2. CASE n = k
      <4>1. h[n + 1] = v
        BY <2>4, <2>8, <3>2
      <4> QED
        BY <2>7, <3>1, <3>2, <4>1
    <3>3. CASE n < k
      <4>1. h[n + 1] = g[n + 1] /\ n \in 0 .. k - 1
        BY <2>4, <2>8, <3>3
      <4> QED
        BY <2>6, <3>1, <4>1 DEF Prefix
    <3> QED
      BY <2>4, <3>2, <3>3
  <2>11. Prefix(V, a, F, m, h)
    BY <2>9, <2>10 DEF Prefix
  <2> QED
    BY <1>1, <2>2, <2>11
<1>3. PICK G : G = [n \in Nat |-> CHOOSE g : Prefix(V, a, F, n, g)]
  OBVIOUS
<1>4. ASSUME NEW n \in Nat PROVE Prefix(V, a, F, n, G[n])
  BY <1>1, <1>2, <1>3
<1>5. PICK f : f = [n \in Nat |-> G[n][n]]
  OBVIOUS
<1>6. f \in [Nat -> V]
  BY <1>4, <1>5 DEF Prefix
<1>7. f[0] = a
  BY <1>4, <1>5 DEF Prefix
<1>8. ASSUME NEW n \in Nat PROVE f[n + 1] = F[<<n, f[n]>>]
  <2>1. Prefix(V, a, F, n, G[n]) /\ Prefix(V, a, F, n + 1, G[n + 1])
    BY <1>4
  <2>2. G[n][n] = G[n + 1][n]
    <3> DEFINE g == G[n]
               h == G[n + 1]
    <3>1. PICK L \in Nat : L = n + 1
      OBVIOUS
    <3>2. Prefix(V, a, F, n, g) /\ Prefix(V, a, F, L, h)
      BY <2>1, <3>1
    <3> HIDE DEF g, h
    <3>3. \A i \in 0 .. n : i <= L => g[i] = h[i]
      BY <3>2, PrefixUnique
    <3> QED
      BY <3>1, <3>3 DEF g, h
  <2>3. G[n + 1][n + 1] = F[<<n, G[n + 1][n]>>]
    BY <2>1 DEF Prefix
  <2> QED
    BY <1>5, <2>2, <2>3
<1> QED
  BY <1>6, <1>7, <1>8 DEF RunOf

-----------------------------------------------------------------------------
(* TagMap. *)

\* t has the tags of s.
Ext(s, t) == \A k \in DOMAIN s.tag : k \in DOMAIN t.tag /\ t.tag[k] = s.tag[k]

\* Every job is as DeployAssumption says.
LEMMA Constants ==
    /\ NumRanks \in Nat \ {0} /\ TagUB \in Nat \ {0}
    /\ \A p \in Params : Numel[p] \in Nat \ {0}
    /\ 0 \in Ranks /\ Ranks \subseteq Nat
  BY DeployAssumption DEF Ranks

\* Tags are numbers below the limit; there are as many as the limit says.
LEMMA FreeTag ==
    ASSUME NEW j \in Jobs, NEW t \in TagMaps(j), NEW k \in KeysOf(j), k \notin DOMAIN t.tag
    PROVE  \E u \in 0 .. TagUB - 1 : u \notin t.taken
<1> DEFINE D == DOMAIN t.tag
<1>1. /\ IsFiniteSet(KeysOf(j)) /\ Cardinality(KeysOf(j)) <= TagUB /\ TagUB \in Nat \ {0}
  BY DeployAssumption
<1>2. /\ D \subseteq KeysOf(j) /\ t.tag \in [D -> 0 .. TagUB - 1]
      /\ \A u \in t.taken : \E l \in D : t.tag[l] = u
      /\ t.taken \subseteq 0 .. TagUB - 1
  BY DEF TagMaps
<1>3. IsFiniteSet(KeysOf(j) \ {k}) /\ Cardinality(KeysOf(j) \ {k}) = Cardinality(KeysOf(j)) - 1
  BY <1>1, FS_RemoveElement
<1>4. D \subseteq KeysOf(j) \ {k}
  BY <1>2
<1>5. IsFiniteSet(D) /\ Cardinality(D) <= Cardinality(KeysOf(j)) - 1
  BY <1>3, <1>4, FS_Subset
<1>6. t.tag \in Surjection(D, t.taken)
  BY <1>2 DEF Surjection, TagMaps
<1>7. IsFiniteSet(t.taken) /\ Cardinality(t.taken) <= Cardinality(D)
  BY <1>5, <1>6, FS_Surjection
<1>8. SUFFICES ASSUME 0 .. TagUB - 1 \subseteq t.taken PROVE FALSE
  OBVIOUS
<1>9. t.taken = 0 .. TagUB - 1
  BY <1>2, <1>8
<1>10. Cardinality(0 .. TagUB - 1) = TagUB
  BY <1>1, FS_Interval
<1>11. Cardinality(D) \in Nat /\ Cardinality(KeysOf(j)) \in Nat
  BY <1>1, <1>5, FS_CardinalityType
<1> QED
  BY <1>1, <1>5, <1>7, <1>9, <1>10, <1>11

\* TagMap::generate finds a tag that is not taken.
LEMMA GenerateFree ==
    ASSUME NEW j \in Jobs, NEW t \in TagMaps(j), NEW k \in KeysOf(j), k \notin DOMAIN t.tag
    PROVE  generate(j, k, t.taken) \in (0 .. TagUB - 1) \ t.taken
<1>1. TagUB \in Nat \ {0}
  BY Constants
<1>2. PICK g \in 0 .. TagUB - 1 : g = generateTag(j, k)
  <2>1. PICK h \in Nat : h = Hash(j.hash, k)
    BY DeployAssumption
  <2>2. h % TagUB \in 0 .. TagUB - 1
    <3>1. h \in Int
      BY <2>1
    <3> QED
      BY <1>1, <3>1, DivMod
  <2> QED
    BY <2>1, <2>2 DEF generateTag
<1>3. PICK free \in SUBSET Nat : free = {d \in 0 .. TagUB - 1 : (g + d) % TagUB \notin t.taken}
  <2>1. {d \in 0 .. TagUB - 1 : (g + d) % TagUB \notin t.taken} \in SUBSET Nat
    BY <1>1
  <2> QED
    BY <2>1
<1>4. free # {}
  <2>1. PICK u \in 0 .. TagUB - 1 : u \notin t.taken
    BY FreeTag
  <2>2. PICK d \in 0 .. TagUB - 1, q \in Int : g + d = TagUB * q + u
    <3>1. CASE u >= g
      <4>1. u - g \in 0 .. TagUB - 1 /\ g + (u - g) = TagUB * 0 + u
        BY <1>1, <1>2, <2>1, <3>1
      <4> QED
        BY <4>1
    <3>2. CASE u < g
      <4>1. u - g + TagUB \in 0 .. TagUB - 1 /\ g + (u - g + TagUB) = TagUB * 1 + u
        BY <1>1, <1>2, <2>1, <3>2
      <4> QED
        BY <4>1
    <3> QED
      BY <1>2, <2>1, <3>1, <3>2
  <2>3. g + d \in Int
    BY <1>2, <2>2
  <2>4. (g + d) % TagUB = u
    BY <1>1, <2>1, <2>2, <2>3, DivModUnique
  <2> QED
    BY <1>3, <2>1, <2>2, <2>4
<1>5. PICK e : e = CHOOSE d \in free : \A c \in free : d <= c
  OBVIOUS
<1>6. e \in free
  BY <1>3, <1>4, <1>5, LeastNat
<1>7. generate(j, k, t.taken) = (g + e) % TagUB
  BY <1>2, <1>3, <1>5 DEF generate
<1>8. g + e \in Int
  BY <1>1, <1>2, <1>3, <1>6
<1> QED
  BY <1>1, <1>3, <1>6, <1>7, <1>8, DivMod

\* Asking for a tag keeps a TagMap what it should be, and adds at most one tag.
LEMMA AskOK ==
    ASSUME NEW j \in Jobs, NEW t \in TagMaps(j), NEW k \in KeysOf(j)
    PROVE  /\ Ask(j, t, k) \in TagMaps(j)
           /\ Ext(t, Ask(j, t, k))
           /\ DOMAIN Ask(j, t, k).tag = DOMAIN t.tag \union {k}
<1>1. CASE k \in DOMAIN t.tag
  BY <1>1 DEF Ask, Ext
<1>2. CASE k \notin DOMAIN t.tag
  <2>1. PICK u \in 0 .. TagUB - 1 : u = generate(j, k, t.taken) /\ u \notin t.taken
    BY <1>2, GenerateFree
  <2>2. PICK D, tg, tk : D = DOMAIN t.tag /\ tg = t.tag /\ tk = t.taken
    OBVIOUS
  <2>3. /\ D \subseteq KeysOf(j) /\ tg \in [D -> 0 .. TagUB - 1] /\ tk \subseteq 0 .. TagUB - 1
        /\ \A i, l \in D : tg[i] = tg[l] => i = l
        /\ \A v \in tk : \E i \in D : tg[i] = v
        /\ \A i \in D : tg[i] \in tk
    BY <2>2 DEF TagMaps
  <2>4. PICK f : f = Put(tg, k, u)
    OBVIOUS
  <2>5. /\ f \in [D \union {k} -> 0 .. TagUB - 1] /\ f[k] = u
        /\ \A i \in D : f[i] = tg[i]
    BY <1>2, <2>1, <2>2, <2>3, <2>4 DEF Put
  <2>6. Ask(j, t, k) = [tag |-> f, taken |-> tk \union {u}]
    BY <1>2, <2>1, <2>2, <2>4 DEF Ask
  <2>7. PICK K \in SUBSET KeysOf(j) : K = D \union {k}
    BY <2>3
  <2>8. /\ f \in [K -> 0 .. TagUB - 1] /\ tk \union {u} \in SUBSET (0 .. TagUB - 1)
        /\ \A i, l \in K : f[i] = f[l] => i = l
        /\ \A v \in tk \union {u} : \E i \in K : f[i] = v
        /\ \A i \in K : f[i] \in tk \union {u}
    <3>1. f \in [K -> 0 .. TagUB - 1] /\ tk \union {u} \in SUBSET (0 .. TagUB - 1)
      BY <2>1, <2>3, <2>5, <2>7
    <3>2. \A i \in K : f[i] \in tk \union {u}
      BY <2>3, <2>5, <2>7
    <3>3. ASSUME NEW v \in tk \union {u} PROVE \E i \in K : f[i] = v
      BY <2>3, <2>5, <2>7
    <3>4. ASSUME NEW i \in K, NEW l \in K, f[i] = f[l] PROVE i = l
      <4>0. \A d \in K : d # k => d \in D /\ f[d] # u
        BY <2>1, <2>2, <2>3, <2>5, <2>7
      <4>1. CASE i = k /\ l # k
        BY <2>5, <3>4, <4>0, <4>1
      <4>2. CASE i # k /\ l = k
        BY <2>5, <3>4, <4>0, <4>2
      <4>3. CASE i # k /\ l # k
        BY <2>3, <2>5, <2>7, <3>4, <4>3
      <4> QED
        BY <4>1, <4>2, <4>3
    <3> QED
      BY <3>1, <3>2, <3>3, <3>4
  <2>9. [tag |-> f, taken |-> tk \union {u}] \in TagMaps(j)
    BY <2>8 DEF TagMaps
  <2> QED
    BY <2>2, <2>5, <2>6, <2>9 DEF Ext
<1> QED
  BY <1>1, <1>2

\* A key that has a tag keeps it.
LEMMA AskKnown ==
    ASSUME NEW j, NEW t, NEW k, k \in DOMAIN t.tag
    PROVE  Ask(j, t, k) = t
  BY DEF Ask

\* Where rank 0 makes a tag for a rank set, every other rank makes the same.
LEMMA AskView ==
    ASSUME NEW j \in Jobs, NEW t \in TagMaps(j), NEW S, RankKey(S) \in KeysOf(j), NEW r
    PROVE  Ask(j, View(r, t), RankKey(S)) = View(r, Ask(j, t, RankKey(S)))
<1>1. CASE r = 0
  BY <1>1 DEF View
<1>2. CASE r # 0
  <2>1. PICK k : k = RankKey(S) /\ k.kind = "ranks"
    <3>1. RankKey(S).kind = "ranks"
      BY DEF RankKey
    <3> QED
      BY <3>1
  <2>2. PICK D, tg, tk : D = DOMAIN t.tag /\ tg = t.tag /\ tk = t.taken
    OBVIOUS
  <2>3. PICK h : h = RankPart(tg)
    OBVIOUS
  <2>4. /\ DOMAIN h = {l \in D : l.kind = "ranks"}
        /\ h = [l \in {i \in D : i.kind = "ranks"} |-> tg[l]]
    BY <2>2, <2>3 DEF RankPart
  <2>5. View(r, t) = [tag |-> h, taken |-> tk]
    BY <1>2, <2>2, <2>3 DEF View
  <2>6. k \in DOMAIN h <=> k \in D
    BY <2>1, <2>4
  <2>7. CASE k \in D
    BY <2>1, <2>2, <2>5, <2>6, <2>7, AskKnown
  <2>8. CASE k \notin D
    <3>1. PICK u : u = generate(j, k, tk)
      OBVIOUS
    <3>2. Ask(j, t, k) = [tag |-> Put(tg, k, u), taken |-> tk \union {u}]
      BY <2>2, <2>8, <3>1 DEF Ask
    <3>3. Ask(j, View(r, t), k) = [tag |-> Put(h, k, u), taken |-> tk \union {u}]
      BY <2>5, <2>6, <2>8, <3>1 DEF Ask
    <3>4. View(r, Ask(j, t, k)) = [tag |-> RankPart(Put(tg, k, u)), taken |-> tk \union {u}]
      BY <1>2, <3>2 DEF View
    <3>5. Put(h, k, u) = RankPart(Put(tg, k, u))
      <4>1. PICK E : E = {l \in D : l.kind = "ranks"} \union {k}
        OBVIOUS
      <4>2. Put(h, k, u) = [l \in E |-> IF l = k THEN u ELSE tg[l]]
        BY <2>4, <4>1 DEF Put
      <4>3. DOMAIN Put(tg, k, u) = D \union {k}
        BY <2>2 DEF Put
      <4>4. {l \in DOMAIN Put(tg, k, u) : l.kind = "ranks"} = E
        BY <2>1, <4>1, <4>3
      <4>5. \A l \in E : Put(tg, k, u)[l] = IF l = k THEN u ELSE tg[l]
        BY <2>2, <4>1 DEF Put
      <4> QED
        BY <4>2, <4>4, <4>5 DEF RankPart
    <3> QED
      BY <2>1, <3>3, <3>4, <3>5
  <2> QED
    BY <2>7, <2>8
<1> QED
  BY <1>1, <1>2

\* The loop of AskAll.
AskedBy(j, t, ks, h) == h = [n \in 0 .. Len(ks) |-> IF n = 0 THEN t ELSE Ask(j, h[n - 1], ks[n])]

\* Asking for several tags: rank 0's TagMap after createDeployment has made the
\* tags of its routes.
LEMMA AskAllOK ==
    ASSUME NEW j \in Jobs, NEW t \in TagMaps(j), NEW ks, Len(ks) \in Nat,
           \A i \in 1 .. Len(ks) : ks[i] \in KeysOf(j)
    PROVE  /\ AskAll(j, t, ks) \in TagMaps(j)
           /\ Ext(t, AskAll(j, t, ks))
           /\ DOMAIN AskAll(j, t, ks).tag = DOMAIN t.tag \union {ks[i] : i \in 1 .. Len(ks)}
<1>1. PICK L \in Nat : L = Len(ks)
  OBVIOUS
<1>2. \E h : AskedBy(j, t, ks, h)
  <2>1. PICK V : V = TagMaps(j)
    OBVIOUS
  <2>2. PICK F : F = [x \in Nat \X V |-> IF x[1] + 1 <= L THEN Ask(j, x[2], ks[x[1] + 1]) ELSE x[2]]
    OBVIOUS
  <2>3. ASSUME NEW n \in Nat, NEW s \in V
        PROVE  F[<<n, s>>] = (IF n + 1 <= L THEN Ask(j, s, ks[n + 1]) ELSE s) /\ F[<<n, s>>] \in V
    <3>1. F[<<n, s>>] = IF n + 1 <= L THEN Ask(j, s, ks[n + 1]) ELSE s
      BY <2>2
    <3>2. CASE n + 1 <= L
      <4>1. ks[n + 1] \in KeysOf(j)
        BY <1>1, <3>2
      <4> QED
        BY <2>1, <3>1, <3>2, <4>1, AskOK
    <3> QED
      BY <3>1, <3>2
  <2>4. F \in [Nat \X V -> V]
    <3>1. ASSUME NEW x \in Nat \X V PROVE F[x] \in V
      <4>1. PICK n \in Nat, s \in V : x = <<n, s>>
        OBVIOUS
      <4> QED
        BY <2>3, <4>1
    <3> QED
      BY <2>2, <3>1
  <2>5. PICK f \in [Nat -> V] : f[0] = t /\ \A n \in Nat : f[n + 1] = F[<<n, f[n]>>]
    <3>1. t \in V
      BY <2>1
    <3>2. \E f : RunOf(V, t, F, f)
      BY <2>4, <3>1, Recursion
    <3> QED
      BY <3>2 DEF RunOf
  <2>6. PICK h : h = [n \in 0 .. L |-> f[n]]
    OBVIOUS
  <2>7. ASSUME NEW n \in 0 .. L PROVE h[n] = IF n = 0 THEN t ELSE Ask(j, h[n - 1], ks[n])
    <3>1. CASE n = 0
      BY <2>5, <2>6, <3>1
    <3>2. CASE n # 0
      <4>1. PICK m \in Nat : n = m + 1 /\ m \in 0 .. L /\ m + 1 <= L
        BY <3>2
      <4>2. f[n] = Ask(j, f[m], ks[n])
        BY <2>3, <2>5, <4>1
      <4>3. h[n] = f[n] /\ h[m] = f[m] /\ n - 1 = m
        BY <2>6, <4>1
      <4> QED
        BY <3>2, <4>2, <4>3
    <3> QED
      BY <3>1, <3>2
  <2>8. h = [n \in 0 .. L |-> IF n = 0 THEN t ELSE Ask(j, h[n - 1], ks[n])]
    BY <2>6, <2>7
  <2> QED
    BY <1>1, <2>8 DEF AskedBy
<1>3. PICK h : AskedBy(j, t, ks, h) /\ AskAll(j, t, ks) = h[Len(ks)]
  <2> DEFINE g == CHOOSE g : AskedBy(j, t, ks, g)
  <2>1. AskedBy(j, t, ks, g)
    BY <1>2
  <2>2. AskAll(j, t, ks) = g[Len(ks)]
    BY DEF AskAll, AskedBy
  <2> QED
    BY <2>1, <2>2
<1>4. h[0] = t /\ \A m \in 0 .. L - 1 : h[m + 1] = Ask(j, h[m], ks[m + 1])
  BY <1>1, <1>3 DEF AskedBy
<1> DEFINE Good(n) == /\ h[n] \in TagMaps(j) /\ Ext(t, h[n])
                      /\ DOMAIN h[n].tag = DOMAIN t.tag \union {ks[i] : i \in 1 .. n}
<1>5. PICK Bad \in SUBSET Nat : \A n \in Nat : n \in Bad <=> n <= L /\ ~Good(n)
  <2>1. {n \in Nat : n <= L /\ ~Good(n)} \in SUBSET Nat
    OBVIOUS
  <2> QED
    BY <2>1
<1>6. Bad = {}
  <2>1. SUFFICES ASSUME Bad # {} PROVE FALSE
    OBVIOUS
  <2>2. PICK m \in Bad : \A n \in Bad : m <= n
    BY <2>1, LeastNat
  <2>3. m # 0
    <3>1. Good(0)
      BY <1>4 DEF Ext
    <3> QED
      BY <1>5, <2>2, <3>1
  <2>4. PICK k \in Nat : m = k + 1
    BY <2>2, <2>3
  <2>5. k \in 0 .. L - 1 /\ Good(k)
    <3>1. k \notin Bad /\ m <= L
      BY <1>5, <2>2, <2>4
    <3> HIDE DEF Good
    <3>2. k \in 0 .. L - 1 /\ k <= L
      BY <2>4, <3>1
    <3> QED
      BY <1>5, <3>1, <3>2
  <2>6. h[m] = Ask(j, h[k], ks[m]) /\ ks[m] \in KeysOf(j)
    BY <1>1, <1>4, <2>4, <2>5
  <2>7. PICK s \in TagMaps(j) : s = h[k]
    BY <2>5
  <2>8. /\ h[m] \in TagMaps(j) /\ Ext(s, h[m])
        /\ DOMAIN h[m].tag = DOMAIN s.tag \union {ks[m]}
    BY <2>6, <2>7, AskOK
  <2>9. Ext(t, h[m])
    BY <2>5, <2>7, <2>8 DEF Ext
  <2>10. {ks[i] : i \in 1 .. m} = {ks[i] : i \in 1 .. k} \union {ks[m]}
    BY <2>4
  <2>11. DOMAIN h[m].tag = DOMAIN t.tag \union {ks[i] : i \in 1 .. m}
    BY <2>5, <2>7, <2>8, <2>10
  <2>12. Good(m)
    BY <2>8, <2>9, <2>11
  <2> HIDE DEF Good
  <2> QED
    BY <1>5, <2>2, <2>12
<1>7. Good(L)
  <2> HIDE DEF Good
  <2> QED
    BY <1>5, <1>6
<1> QED
  BY <1>1, <1>3, <1>7

-----------------------------------------------------------------------------
(* The keys of a job, and the run on paper. *)

\* What a module of a job is made of.
LEMMA ModuleData ==
    ASSUME NEW j \in Jobs, NEW n \in DOMAIN j.modules
    PROVE  /\ n \in Nat \ {0} /\ n <= Len(j.modules)
           /\ j.modules[n].params \in Seq(Params)
           /\ Size(j, n) \in Nat
           /\ \A i, l \in 1 .. Size(j, n) :
                  j.modules[n].params[i] = j.modules[n].params[l] => i = l
           /\ ToSet(j.modules[n].params) = {j.modules[n].params[i] : i \in 1 .. Size(j, n)}
           /\ {j.modules[n].in, j.modules[n].mid, j.modules[n].out} \subseteq Seq(RouteDP)
<1>1. /\ j.modules[n].params \in Seq(Params) /\ IsInjective(j.modules[n].params)
      /\ {j.modules[n].in, j.modules[n].mid, j.modules[n].out} \subseteq Seq(RouteDP)
      /\ Len(j.modules) \in Nat /\ DOMAIN j.modules = 1 .. Len(j.modules)
  BY DeployAssumption
<1>2. PICK s \in Seq(Params) : s = j.modules[n].params
  BY <1>1
<1>3. Len(s) \in Nat /\ DOMAIN s = 1 .. Len(s)
  OBVIOUS
<1>4. \A i, l \in 1 .. Len(s) : s[i] = s[l] => i = l
  BY <1>1, <1>2, <1>3 DEF IsInjective
<1>5. ToSet(s) = {s[i] : i \in 1 .. Len(s)}
  BY <1>3 DEF ToSet
<1>6. n \in Nat \ {0} /\ n <= Len(j.modules)
  BY <1>1
<1> QED
  BY <1>1, <1>2, <1>3, <1>4, <1>5, <1>6 DEF Size

\* The modules are numbered from 1.
LEMMA ModulesFrom1 ==
    ASSUME NEW j \in Jobs
    PROVE  /\ Len(j.modules) \in Nat \ {0} /\ DOMAIN j.modules = 1 .. Len(j.modules)
           /\ 1 \in DOMAIN j.modules
           /\ j.stored \in Seq(Params)
           /\ Len(j.stored) \in Nat
  BY DeployAssumption

\* The rank sets of a module's routes.
LEMMA CommsSeq ==
    ASSUME NEW j \in Jobs, NEW n \in DOMAIN j.modules
    PROVE  Comms(j, n) \in Seq(SUBSET Ranks) /\ Len(Comms(j, n)) \in Nat
<1>1. PICK m : m = j.modules[n]
  OBVIOUS
<1>2. PICK a \in Seq(RouteDP), b \in Seq(RouteDP), c \in Seq(RouteDP) :
         a = m.in /\ b = m.mid /\ c = m.out
  BY <1>1, ModuleData
<1>3. 0 \in Ranks
  BY Constants
<1>4. \A x \in RouteDP : x.sources \in SUBSET Ranks /\ x.dests \in SUBSET Ranks
  BY DEF RouteDP
<1>5. [i \in 1 .. Len(a) |-> IF j.gather THEN a[i].sources \union a[i].dests
                                         ELSE {0} \union a[i].dests] \in Seq(SUBSET Ranks)
  BY <1>2, <1>3, <1>4
<1>6. [i \in 1 .. Len(b) |-> b[i].sources \union b[i].dests] \in Seq(SUBSET Ranks)
  BY <1>2, <1>4
<1>7. [i \in 1 .. Len(c) |-> IF j.gather THEN c[i].sources \union c[i].dests
                                         ELSE c[i].sources \union {0}] \in Seq(SUBSET Ranks)
  BY <1>2, <1>3, <1>4
<1>8. (IF j.gather THEN << >> ELSE <<Ranks>>) \in Seq(SUBSET Ranks)
  <2>1. << >> \in Seq(SUBSET Ranks) /\ <<Ranks>> \in Seq(SUBSET Ranks)
    OBVIOUS
  <2> QED
    BY <2>1
<1> DEFINE A == [i \in 1 .. Len(a) |-> IF j.gather THEN a[i].sources \union a[i].dests
                                                   ELSE {0} \union a[i].dests]
           B == [i \in 1 .. Len(b) |-> b[i].sources \union b[i].dests]
           C == [i \in 1 .. Len(c) |-> IF j.gather THEN c[i].sources \union c[i].dests
                                                   ELSE c[i].sources \union {0}]
           D == IF j.gather THEN << >> ELSE <<Ranks>>
<1>9. Comms(j, n) = A \o B \o C \o C \o B \o A \o D
  BY <1>1, <1>2, Zenon DEF Comms, CommSets
<1>12. /\ A \in Seq(SUBSET Ranks) /\ B \in Seq(SUBSET Ranks)
       /\ C \in Seq(SUBSET Ranks) /\ D \in Seq(SUBSET Ranks)
  BY <1>5, <1>6, <1>7, <1>8
<1> HIDE DEF A, B, C, D
<1>10. A \o B \o C \o C \o B \o A \o D \in Seq(SUBSET Ranks)
  BY <1>12
<1>11. Comms(j, n) \in Seq(SUBSET Ranks)
  BY <1>9, <1>10
<1> QED
  BY <1>11

\* Every key a rank asks for is a key of the job.
LEMMA KeysAsked ==
    ASSUME NEW j \in Jobs, NEW n \in DOMAIN j.modules
    PROVE  /\ RankKey(Ranks) \in KeysOf(j) /\ RankKey({0}) \in KeysOf(j)
           /\ \A i \in 1 .. Size(j, n) : RankKey(UsersOf(j, n, i)) \in KeysOf(j)
           /\ \A i \in 1 .. Len(Comms(j, n)) : RankKey(Comms(j, n)[i]) \in KeysOf(j)
<1>0. \A k \in ModuleKeys(j, j.modules[n]) : k \in KeysOf(j)
  BY DEF KeysOf
<1>1. RankKey(Ranks) \in KeysOf(j) /\ RankKey({0}) \in KeysOf(j)
  BY DEF KeysOf
<1>2. ASSUME NEW i \in 1 .. Size(j, n) PROVE RankKey(UsersOf(j, n, i)) \in KeysOf(j)
  <2>1. j.modules[n].params[i] \in ToSet(j.modules[n].params)
    <3>1. ToSet(j.modules[n].params) = {j.modules[n].params[l] : l \in 1 .. Size(j, n)}
      BY ModuleData
    <3> QED
      BY <3>1
  <2>2. RankKey(UNION j.modules[n].users[j.modules[n].params[i]]) \in ModuleKeys(j, j.modules[n])
    BY <2>1 DEF ModuleKeys
  <2> QED
    BY <1>0, <2>2 DEF UsersOf
<1>3. ASSUME NEW i \in 1 .. Len(Comms(j, n)) PROVE RankKey(Comms(j, n)[i]) \in KeysOf(j)
  <2>1. PICK s \in Seq(SUBSET Ranks) : s = Comms(j, n)
    BY CommsSeq
  <2>2. s[i] \in ToSet(s)
    BY <2>1 DEF ToSet
  <2>3. RankKey(s[i]) \in ModuleKeys(j, j.modules[n])
    BY <2>1, <2>2 DEF ModuleKeys, Comms
  <2> QED
    BY <1>0, <2>1, <2>3
<1> QED
  BY <1>1, <1>2, <1>3

\* The keys of the routes are no rank sets.
LEMMA RouteKeysOK ==
    ASSUME NEW j \in Jobs, NEW n \in DOMAIN j.modules
    PROVE  LET ks == RouteKeys(j.modules[n])
           IN  /\ Len(ks) \in Nat /\ ToSet(ks) = {ks[i] : i \in 1 .. Len(ks)}
               /\ \A i \in 1 .. Len(ks) : ks[i] \in KeysOf(j) /\ ks[i].kind # "ranks"
<1>1. PICK m : m = j.modules[n]
  OBVIOUS
<1>2. PICK a \in Seq(RouteDP), b \in Seq(RouteDP), c \in Seq(RouteDP) :
         a = m.in /\ b = m.mid /\ c = m.out
  BY <1>1, ModuleData
<1>3. PICK cs \in Seq(RouteDP) : cs = a \o b \o c
  <2>1. a \o b \o c \in Seq(RouteDP)
    OBVIOUS
  <2> QED
    BY <2>1
<1>4. PICK N \in Nat : N = 3 * Len(cs)
  OBVIOUS
<1>5. PICK ks : ks = RouteKeys(m)
  OBVIOUS
<1>6. PICK kinds, key :
        /\ kinds = [i \in 1 .. N |-> <<"route", "source", "bwd_source">>[1 + ((i - 1) % 3)]]
        /\ key = [i \in 1 .. N |-> cs[1 + ((i - 1) \div 3)]]
  OBVIOUS
<1>7. ks = [i \in 1 .. N |-> [kind |-> kinds[i], value |-> key[i].value,
                              sources |-> key[i].sources, dests |-> key[i].dests]]
  BY <1>2, <1>3, <1>4, <1>5, <1>6 DEF RouteKeys
<1>8. Len(ks) = N /\ DOMAIN ks = 1 .. N
  BY <1>7
<1>9. ToSet(ks) = {ks[i] : i \in 1 .. N}
  BY <1>8 DEF ToSet
<1>10. ASSUME NEW i \in 1 .. N PROVE ks[i].kind # "ranks"
  <2>1. PICK d \in 0 .. 2 : d = (i - 1) % 3
    OBVIOUS
  <2>2. <<"route", "source", "bwd_source">>[1 + d] # "ranks"
    <3>1. CASE d = 0
      BY <3>1
    <3>2. CASE d = 1
      BY <3>2
    <3>3. CASE d = 2
      BY <3>3
    <3> QED
      BY <3>1, <3>2, <3>3
  <2>3. kinds[i] # "ranks"
    BY <1>6, <2>1, <2>2
  <2> QED
    BY <1>7, <2>3
<1>11. ASSUME NEW i \in 1 .. N PROVE ks[i] \in KeysOf(j)
  <2>1. ks[i] \in ModuleKeys(j, j.modules[n])
    BY <1>1, <1>5, <1>9 DEF ModuleKeys
  <2> QED
    BY <2>1 DEF KeysOf
<1> QED
  BY <1>1, <1>4, <1>5, <1>8, <1>9, <1>10, <1>11

\* The empty TagMap, and the one after distributed parameters were stored.
LEMMA StartMapOK ==
    ASSUME NEW j \in Jobs
    PROVE  /\ NoTags \in TagMaps(j) /\ StartMap(j) \in TagMaps(j) /\ DOMAIN NoTags.tag = {}
           /\ j.stored # << >> => RankKey(Ranks) \in DOMAIN StartMap(j).tag
<1>1. DOMAIN NoTags.tag = {}
  BY DEF NoTags
<1>2. NoTags \in TagMaps(j)
  <2>1. NoTags.tag \in [{} -> 0 .. TagUB - 1]
    BY DEF NoTags
  <2>2. NoTags \in [tag : UNION {[K -> 0 .. TagUB - 1] : K \in SUBSET KeysOf(j)},
                    taken : SUBSET (0 .. TagUB - 1)]
    BY <2>1 DEF NoTags
  <2>3. NoTags.taken = {}
    BY DEF NoTags
  <2> QED
    BY <1>1, <2>2, <2>3 DEF TagMaps
<1>3. RankKey(Ranks) \in KeysOf(j)
  BY DEF KeysOf
<1>4. PICK t : t = Ask(j, NoTags, RankKey(Ranks))
  OBVIOUS
<1>5. t \in TagMaps(j) /\ RankKey(Ranks) \in DOMAIN t.tag
  BY <1>2, <1>3, <1>4, AskOK
<1> QED
  BY <1>1, <1>2, <1>4, <1>5 DEF StartMap

\* A place of a module adds tags.
LEMMA StepMapOK ==
    ASSUME NEW j \in Jobs, NEW n \in DOMAIN j.modules, NEW o \in Nat, NEW t \in TagMaps(j)
    PROVE  StepMap(j, n, o, t) \in TagMaps(j) /\ Ext(t, StepMap(j, n, o, t))
<1>1. Size(j, n) \in Nat /\ Len(Comms(j, n)) \in Nat
  BY ModuleData, CommsSeq
<1>2. \A k \in KeysOf(j) : Ask(j, t, k) \in TagMaps(j) /\ Ext(t, Ask(j, t, k))
  BY AskOK
<1>3. Ext(t, t)
  BY DEF Ext
<1>4. CASE o = 0
  BY <1>2, <1>4, KeysAsked DEF StepMap
<1>5. CASE o = 1
  <2>1. PICK ks : ks = RouteKeys(j.modules[n])
    OBVIOUS
  <2>2. Len(ks) \in Nat /\ \A i \in 1 .. Len(ks) : ks[i] \in KeysOf(j)
    BY <2>1, RouteKeysOK
  <2>3. AskAll(j, t, ks) \in TagMaps(j) /\ Ext(t, AskAll(j, t, ks))
    BY <2>2, AskAllOK
  <2> QED
    BY <1>5, <2>1, <2>3 DEF StepMap
<1>6. CASE o \in 2 .. 1 + Size(j, n)
  <2>1. RankKey(UsersOf(j, n, o - 1)) \in KeysOf(j)
    <3>1. o - 1 \in 1 .. Size(j, n)
      BY <1>1, <1>6
    <3> QED
      BY <3>1, KeysAsked
  <2> QED
    BY <1>1, <1>2, <1>3, <1>6, <2>1 DEF StepMap
<1>7. CASE o \in 2 + Size(j, n) .. 1 + Size(j, n) + Len(Comms(j, n))
  <2>1. RankKey(Comms(j, n)[o - 1 - Size(j, n)]) \in KeysOf(j)
    <3>1. o - 1 - Size(j, n) \in 1 .. Len(Comms(j, n))
      BY <1>1, <1>7
    <3> QED
      BY <3>1, KeysAsked
  <2> QED
    BY <1>1, <1>2, <1>7, <2>1 DEF StepMap
<1>8. CASE o > 1 + Size(j, n) + Len(Comms(j, n)) /\ o # 0 /\ o # 1
  <2>1. RankKey({0}) \in KeysOf(j)
    BY KeysAsked
  <2> QED
    BY <1>1, <1>2, <1>3, <1>8, <2>1 DEF StepMap
<1> QED
  BY <1>1, <1>4, <1>5, <1>6, <1>7, <1>8

Stepping(j, n) == [x \in Nat \X TagMaps(j) |-> StepMap(j, n, x[1], x[2])]

\* From any TagMap a module can be run on paper.
LEMMA ModuleRun ==
    ASSUME NEW j \in Jobs, NEW n \in DOMAIN j.modules, NEW a \in TagMaps(j)
    PROVE  /\ \E f : RunOf(TagMaps(j), a, Stepping(j, n), f)
           /\ \A f : RunOf(TagMaps(j), a, Stepping(j, n), f) =>
                  /\ f \in [Nat -> TagMaps(j)] /\ f[0] = a
                  /\ \A o \in Nat : f[o + 1] = StepMap(j, n, o, f[o])
<1>1. PICK V : V = TagMaps(j)
  OBVIOUS
<1>2. PICK F : F = Stepping(j, n)
  OBVIOUS
<1>3. ASSUME NEW o \in Nat, NEW t \in V
      PROVE  F[<<o, t>>] = StepMap(j, n, o, t) /\ F[<<o, t>>] \in V
  <2>1. F[<<o, t>>] = StepMap(j, n, o, t)
    BY <1>1, <1>2 DEF Stepping
  <2> QED
    BY <1>1, <2>1, StepMapOK
<1>4. F \in [Nat \X V -> V]
  <2>1. ASSUME NEW x \in Nat \X V PROVE F[x] \in V
    <3>1. PICK o \in Nat, t \in V : x = <<o, t>>
      OBVIOUS
    <3> QED
      BY <1>3, <3>1
  <2> QED
    BY <1>1, <1>2, <2>1 DEF Stepping
<1>5. a \in V
  BY <1>1
<1>6. \E f : RunOf(V, a, F, f)
  BY <1>4, <1>5, Recursion
<1>7. ASSUME NEW f, RunOf(V, a, F, f)
      PROVE  f \in [Nat -> V] /\ f[0] = a /\ \A o \in Nat : f[o + 1] = StepMap(j, n, o, f[o])
  <2>1. f \in [Nat -> V] /\ f[0] = a /\ \A o \in Nat : f[o + 1] = F[<<o, f[o]>>]
    BY <1>7 DEF RunOf
  <2> QED
    BY <1>3, <2>1
<1> QED
  BY <1>1, <1>2, <1>6, <1>7

\* The run of the module after the i-th but one, g being the run before it.
NextRun(j, i, g) ==
    IF i + 2 \in DOMAIN j.modules
    THEN CHOOSE f : RunOf(TagMaps(j), g[EndOf(j, i + 1)], Stepping(j, i + 2), f)
    ELSE g

\* Every job has its run on paper.
LEMMA CanonExists ==
    ASSUME NEW j \in Jobs
    PROVE  \E M : Canon(j, M)
<1>1. PICK V : V = [Nat -> TagMaps(j)]
  OBVIOUS
<1>2. PICK a : RunOf(TagMaps(j), StartMap(j), Stepping(j, 1), a)
  BY ModulesFrom1, StartMapOK, ModuleRun
<1>3. /\ a \in V /\ a[0] = StartMap(j)
      /\ \A o \in Nat : a[o + 1] = StepMap(j, 1, o, a[o])
  BY <1>1, <1>2, ModulesFrom1, StartMapOK, ModuleRun
<1>4. ASSUME NEW i \in Nat, NEW g \in V, i + 2 \in DOMAIN j.modules
      PROVE  /\ NextRun(j, i, g) \in V /\ NextRun(j, i, g)[0] = g[EndOf(j, i + 1)]
             /\ \A o \in Nat : NextRun(j, i, g)[o + 1] = StepMap(j, i + 2, o, NextRun(j, i, g)[o])
  <2>1. PICK n \in DOMAIN j.modules : n = i + 2
    BY <1>4
  <2>2. i + 1 \in DOMAIN j.modules
    BY <1>4, ModulesFrom1
  <2>3. EndOf(j, i + 1) \in Nat
    BY <2>2, ModuleData, CommsSeq DEF EndOf
  <2>4. PICK t \in TagMaps(j) : t = g[EndOf(j, i + 1)]
    BY <1>1, <2>3
  <2>5. PICK h : h = CHOOSE f : RunOf(TagMaps(j), t, Stepping(j, n), f)
    OBVIOUS
  <2>6. RunOf(TagMaps(j), t, Stepping(j, n), h)
    BY <2>5, ModuleRun
  <2>7. NextRun(j, i, g) = h
    BY <1>4, <2>1, <2>4, <2>5 DEF NextRun
  <2>8. /\ h \in [Nat -> TagMaps(j)] /\ h[0] = t
        /\ \A o \in Nat : h[o + 1] = StepMap(j, n, o, h[o])
    BY <2>6, ModuleRun
  <2> QED
    BY <1>1, <2>1, <2>4, <2>7, <2>8
<1>5. PICK F : F = [x \in Nat \X V |-> NextRun(j, x[1], x[2])]
  OBVIOUS
<1>6. \A i \in Nat : \A g \in V : F[<<i, g>>] = NextRun(j, i, g) /\ F[<<i, g>>] \in V
  <2>1. ASSUME NEW i \in Nat, NEW g \in V
        PROVE  F[<<i, g>>] = NextRun(j, i, g) /\ F[<<i, g>>] \in V
    <3>1. F[<<i, g>>] = NextRun(j, i, g)
      BY <1>5
    <3>2. NextRun(j, i, g) \in V
      BY <1>4 DEF NextRun
    <3> QED
      BY <3>1, <3>2
  <2> QED
    BY <2>1
<1>7. F \in [Nat \X V -> V]
  <2>1. ASSUME NEW x \in Nat \X V PROVE F[x] \in V
    <3>1. PICK i \in Nat, g \in V : x = <<i, g>>
      OBVIOUS
    <3> QED
      BY <1>6, <3>1
  <2> QED
    BY <1>5, <2>1
<1>8. PICK X : RunOf(V, a, F, X)
  BY <1>3, <1>7, Recursion
<1>9. X \in [Nat -> V] /\ X[0] = a /\ \A i \in Nat : X[i + 1] = NextRun(j, i, X[i])
  <2>1. X \in [Nat -> V] /\ X[0] = a /\ \A i \in Nat : X[i + 1] = F[<<i, X[i]>>]
    BY <1>8 DEF RunOf
  <2> QED
    BY <1>6, <2>1
<1>10. PICK M : M = [n \in DOMAIN j.modules |-> X[n - 1]]
  OBVIOUS
<1>11. ASSUME NEW n \in DOMAIN j.modules, NEW o \in Nat
       PROVE  M[n][o] \in TagMaps(j) /\ M[n][o + 1] = StepMap(j, n, o, M[n][o])
  <2>1. CASE n = 1
    <3>1. M[n] = a
      BY <1>9, <1>10, <2>1
    <3> QED
      BY <1>1, <1>3, <2>1, <3>1
  <2>2. CASE n # 1
    <3>1. PICK i \in Nat : n = i + 2
      <4>1. n \in Nat \ {0}
        BY ModuleData
      <4>2. n - 2 \in Nat /\ n = (n - 2) + 2
        BY <2>2, <4>1
      <4> QED
        BY <4>2
    <3>2. PICK g \in V : g = X[i]
      BY <1>9
    <3>3. M[n] = NextRun(j, i, g)
      <4>1. n - 1 = i + 1
        BY <3>1
      <4> QED
        BY <1>9, <1>10, <3>2, <4>1
    <3>4. i + 2 \in DOMAIN j.modules
      BY <3>1
    <3> QED
      BY <1>1, <1>4, <3>1, <3>3, <3>4
  <2> QED
    BY <2>1, <2>2
<1>12. M[1][0] = StartMap(j)
  BY <1>3, <1>9, <1>10, ModulesFrom1
<1>13. ASSUME NEW n \in DOMAIN j.modules, n + 1 \in DOMAIN j.modules
       PROVE  M[n + 1][0] = M[n][EndOf(j, n)]
  <2>1. PICK i \in Nat : n = i + 1
    <3>1. n \in Nat \ {0}
      BY ModuleData
    <3>2. n - 1 \in Nat /\ n = (n - 1) + 1
      BY <3>1
    <3> QED
      BY <3>2
  <2>2. PICK g \in V : g = X[i]
    BY <1>9
  <2>3. M[n] = g
    <3>1. n - 1 = i
      BY <2>1
    <3> QED
      BY <1>10, <2>2, <3>1
  <2>4. M[n + 1] = NextRun(j, i, g)
    <3>1. (n + 1) - 1 = i + 1
      BY <2>1
    <3> QED
      BY <1>9, <1>10, <1>13, <2>2, <3>1
  <2>5. i + 2 \in DOMAIN j.modules
    <3>1. i + 2 = n + 1
      BY <2>1
    <3> QED
      BY <1>13, <3>1
  <2> QED
    BY <1>4, <2>1, <2>3, <2>4, <2>5
<1>14. Canon(j, M)
  BY <1>11, <1>12, <1>13 DEF Canon
<1> QED
  BY <1>14

\* Ext orders TagMaps.
LEMMA ExtTrans ==
    ASSUME NEW s, NEW t, NEW u, Ext(s, t), Ext(t, u)
    PROVE  Ext(s, u)
  BY DEF Ext

\* Within a module the run on paper only adds tags.
LEMMA CanonExt ==
    ASSUME NEW j \in Jobs, NEW M, Canon(j, M), NEW n \in DOMAIN j.modules,
           NEW o \in Nat, NEW e \in Nat, o <= e
    PROVE  Ext(M[n][o], M[n][e])
<1>1. PICK Bad \in SUBSET Nat : \A d \in Nat : d \in Bad <=> o <= d /\ ~Ext(M[n][o], M[n][d])
  <2>1. {d \in Nat : o <= d /\ ~Ext(M[n][o], M[n][d])} \in SUBSET Nat
    OBVIOUS
  <2> QED
    BY <2>1
<1>2. Bad = {}
  <2>1. SUFFICES ASSUME Bad # {} PROVE FALSE
    OBVIOUS
  <2>2. PICK m \in Bad : \A d \in Bad : m <= d
    BY <2>1, LeastNat
  <2>3. m # o
    BY <1>1, <2>2 DEF Ext
  <2>4. PICK k \in Nat : m = k + 1 /\ o <= k
    <3>1. m \in Nat /\ o <= m
      BY <1>1, <2>2
    <3>2. m - 1 \in Nat /\ m = (m - 1) + 1 /\ o <= m - 1
      BY <2>3, <3>1
    <3> QED
      BY <3>2
  <2>5. Ext(M[n][o], M[n][k])
    BY <1>1, <2>2, <2>4
  <2>6. PICK t \in TagMaps(j) : t = M[n][k] /\ M[n][m] = StepMap(j, n, k, t)
    BY <2>4 DEF Canon
  <2>7. Ext(t, M[n][m])
    BY <2>6, StepMapOK
  <2>8. Ext(M[n][o], M[n][m])
    BY <2>5, <2>6, <2>7, ExtTrans
  <2> QED
    BY <1>1, <2>2, <2>8
<1> QED
  BY <1>1, <1>2

\* The last place of a module.
LEMMA EndOfOK ==
    ASSUME NEW j \in Jobs, NEW n \in DOMAIN j.modules
    PROVE  EndOf(j, n) \in Nat /\ EndOf(j, n) = 3 + Size(j, n) + Len(Comms(j, n))
  BY ModuleData, CommsSeq DEF EndOf

\* A module begins with the tags of those before it.
LEMMA CanonExtModules ==
    ASSUME NEW j \in Jobs, NEW M, Canon(j, M), NEW n \in DOMAIN j.modules,
           NEW l \in DOMAIN j.modules, n <= l
    PROVE  Ext(M[n][0], M[l][0])
<1>1. PICK Bad \in SUBSET Nat :
         \A d \in Nat : d \in Bad <=> d \in DOMAIN j.modules /\ n <= d /\ ~Ext(M[n][0], M[d][0])
  <2>1. {d \in Nat : d \in DOMAIN j.modules /\ n <= d /\ ~Ext(M[n][0], M[d][0])} \in SUBSET Nat
    OBVIOUS
  <2> QED
    BY <2>1
<1>2. n \in Nat \ {0} /\ l \in Nat /\ n <= Len(j.modules) /\ Len(j.modules) \in Nat
      /\ DOMAIN j.modules = 1 .. Len(j.modules)
  BY ModuleData, ModulesFrom1
<1>3. Bad = {}
  <2>1. SUFFICES ASSUME Bad # {} PROVE FALSE
    OBVIOUS
  <2>2. PICK m \in Bad : \A d \in Bad : m <= d
    BY <2>1, LeastNat
  <2>3. m # n
    BY <1>1, <2>2 DEF Ext
  <2>4. PICK k \in Nat : m = k + 1 /\ n <= k
    <3>1. m \in Nat /\ n <= m
      BY <1>1, <2>2
    <3>2. m - 1 \in Nat /\ m = (m - 1) + 1 /\ n <= m - 1
      BY <1>2, <2>3, <3>1
    <3> QED
      BY <3>2
  <2>5. k \in DOMAIN j.modules /\ m \in DOMAIN j.modules
    <3>1. m \in DOMAIN j.modules
      BY <1>1, <2>2
    <3> QED
      BY <1>2, <2>4, <3>1
  <2>6. Ext(M[n][0], M[k][0])
    BY <1>1, <2>2, <2>4, <2>5
  <2>7. M[m][0] = M[k][EndOf(j, k)]
    BY <2>4, <2>5 DEF Canon
  <2>8. Ext(M[k][0], M[k][EndOf(j, k)])
    <3>1. PICK e \in Nat : e = EndOf(j, k) /\ 0 <= e
      BY <2>5, EndOfOK
    <3>2. Ext(M[k][0], M[k][e])
      BY <2>5, <3>1, CanonExt
    <3> QED
      BY <3>1, <3>2
  <2>9. Ext(M[n][0], M[m][0])
    BY <2>6, <2>7, <2>8, ExtTrans
  <2> QED
    BY <1>1, <2>2, <2>9
<1> QED
  BY <1>1, <1>2, <1>3

\* t is rank 0's TagMap somewhere in the run on paper.
OnRun(j, M, t) ==
    \/ t = NoTags
    \/ \E n \in DOMAIN j.modules : \E o \in Nat : o <= EndOf(j, n) /\ t = M[n][o]

\* Of two places in the run on paper, one has the tags of the other.
LEMMA Comparable ==
    ASSUME NEW j \in Jobs, NEW M, Canon(j, M), NEW s, NEW t, OnRun(j, M, s), OnRun(j, M, t)
    PROVE  Ext(s, t) \/ Ext(t, s)
<1>1. CASE s = NoTags \/ t = NoTags
  <2>1. \A u : Ext(NoTags, u)
    BY StartMapOK DEF Ext
  <2> QED
    BY <1>1, <2>1
<1>2. ASSUME NEW n \in DOMAIN j.modules, NEW o \in Nat, o <= EndOf(j, n),
             NEW l \in DOMAIN j.modules, NEW e \in Nat, n < l
      PROVE  Ext(M[n][o], M[l][e])
  <2>1. PICK d \in Nat : d = EndOf(j, n) /\ o <= d
    BY <1>2, EndOfOK
  <2>2. Ext(M[n][o], M[n][d])
    BY <2>1, CanonExt
  <2>3. n \in Nat \ {0} /\ l \in Nat \ {0} /\ l <= Len(j.modules) /\ Len(j.modules) \in Nat
        /\ DOMAIN j.modules = 1 .. Len(j.modules)
    BY ModuleData, ModulesFrom1
  <2>4. PICK m \in DOMAIN j.modules : m = n + 1 /\ m <= l
    BY <1>2, <2>3
  <2>5. M[m][0] = M[n][d]
    BY <2>1, <2>4 DEF Canon
  <2>6. Ext(M[m][0], M[l][0])
    BY <2>4, CanonExtModules
  <2>7. Ext(M[l][0], M[l][e])
    <3>1. 0 \in Nat /\ 0 <= e
      OBVIOUS
    <3> QED
      BY <3>1, CanonExt
  <2>8. Ext(M[n][o], M[l][0])
    BY <2>2, <2>5, <2>6, ExtTrans
  <2> QED
    BY <2>7, <2>8, ExtTrans
<1>3. CASE s # NoTags /\ t # NoTags
  <2>1. PICK n \in DOMAIN j.modules, o \in Nat : o <= EndOf(j, n) /\ s = M[n][o]
    BY <1>3 DEF OnRun
  <2>2. PICK l \in DOMAIN j.modules, e \in Nat : e <= EndOf(j, l) /\ t = M[l][e]
    BY <1>3 DEF OnRun
  <2>3. n \in Nat /\ l \in Nat
    BY ModuleData
  <2>4. CASE n < l
    BY <1>2, <2>1, <2>2, <2>4
  <2>5. CASE l < n
    BY <1>2, <2>1, <2>2, <2>5
  <2>6. CASE n = l /\ o <= e
    BY <2>1, <2>2, <2>6, CanonExt
  <2>7. CASE n = l /\ e <= o
    BY <2>1, <2>2, <2>7, CanonExt
  <2> QED
    BY <2>3, <2>4, <2>5, <2>6, <2>7
<1> QED
  BY <1>1, <1>3

\* A rank that keeps to the program is somewhere in the run on paper.
LEMMA PlaceOK ==
    ASSUME NEW j \in Jobs, NEW M, Canon(j, M), NEW r, NEW x, ControlOK(j, r, x)
    PROVE  /\ x.mod \in DOMAIN j.modules
           /\ x.pc # "store" => Place(j, x) \in Nat /\ Place(j, x) <= EndOf(j, x.mod)
           /\ MapAt(j, M, x) \in TagMaps(j) /\ OnRun(j, M, MapAt(j, M, x))
<1>1. x.mod \in DOMAIN j.modules
  BY ModulesFrom1 DEF ControlOK
<1>2. PICK S \in Nat, C \in Nat, at \in Nat \ {0} :
         S = Size(j, x.mod) /\ C = Len(Comms(j, x.mod)) /\ at = x.at
  BY <1>1, ModuleData, CommsSeq DEF ControlOK
<1>3. EndOf(j, x.mod) = 3 + S + C
  BY <1>1, <1>2, EndOfOK
<1>4. x.pc # "store" => Place(j, x) \in Nat /\ Place(j, x) <= EndOf(j, x.mod)
  <2>1. CASE x.pc \in {"register", "trace", "trace_load", "fetchStart"}
    BY <1>3, <2>1 DEF Place
  <2>2. CASE x.pc \in {"master", "master_load", "fetching", "fetch_load"}
    BY <1>3, <2>2 DEF Place
  <2>3. CASE x.pc \in {"barrier", "deployment", "sync"}
    BY <1>3, <2>3 DEF Place
  <2>4. CASE x.pc = "param"
    <3>1. at <= S + 1
      BY <1>2, <2>4 DEF ControlOK
    <3> QED
      BY <1>2, <1>3, <2>4, <3>1 DEF Place
  <2>5. CASE x.pc \in {"value", "param_load"}
    <3>1. at <= S
      BY <1>2, <2>5 DEF ControlOK
    <3>2. Place(j, x) = 2 + at
      BY <1>2, <2>5 DEF Place
    <3> QED
      BY <1>2, <1>3, <3>1, <3>2
  <2>6. CASE x.pc \in {"zero", "sync2"}
    <3>1. Place(j, x) = 2 + S
      BY <1>2, <2>6 DEF Place
    <3> QED
      BY <1>2, <1>3, <3>1
  <2>7. CASE x.pc = "route"
    <3>1. at <= C + 1
      BY <1>2, <2>7 DEF ControlOK
    <3>2. Place(j, x) = 1 + S + at
      BY <1>2, <2>7 DEF Place
    <3> QED
      BY <1>2, <1>3, <3>1, <3>2
  <2>8. CASE x.pc = "done"
    BY <1>2, <1>3, <2>8 DEF Place
  <2> QED
    BY <2>1, <2>2, <2>3, <2>4, <2>5, <2>6, <2>7, <2>8 DEF ControlOK, Phases
<1>5. CASE x.pc # "store"
  <2>1. PICK o \in Nat : o = Place(j, x) /\ o <= EndOf(j, x.mod)
    BY <1>4, <1>5
  <2>2. MapAt(j, M, x) = M[x.mod][o]
    BY <1>5, <2>1 DEF MapAt
  <2> QED
    BY <1>1, <1>4, <2>1, <2>2 DEF Canon, OnRun
<1>6. CASE x.pc = "store"
  <2>1. OnRun(j, M, NoTags) /\ OnRun(j, M, StartMap(j))
    <3>1. 1 \in DOMAIN j.modules /\ 0 \in Nat /\ 0 <= EndOf(j, 1)
      BY ModulesFrom1, EndOfOK
    <3> QED
      BY <3>1 DEF OnRun, Canon
  <2>2. MapAt(j, M, x) = NoTags \/ MapAt(j, M, x) = StartMap(j)
    BY <1>6 DEF MapAt
  <2> QED
    BY <1>1, <1>4, <1>6, <2>1, <2>2, StartMapOK
<1> QED
  BY <1>5, <1>6

\* What a rank has in its TagMap, it has from the run on paper.
LEMMA TagsInRun ==
    ASSUME NEW j, NEW M, NEW r, NEW x, NEW t, TagsOK(j, M, r, x, t)
    PROVE  Ext(t, MapAt(j, M, x))
<1>1. PICK c : c = MapAt(j, M, x)
  OBVIOUS
<1>2. t.tag = View(r, c).tag
  BY <1>1 DEF TagsOK
<1>3. CASE r = 0
  BY <1>1, <1>2, <1>3 DEF View, Ext
<1>4. CASE r # 0
  <2>1. t.tag = RankPart(c.tag)
    BY <1>2, <1>4 DEF View
  <2> QED
    BY <1>1, <2>1 DEF RankPart, Ext
<1> QED
  BY <1>3, <1>4

\* Ranks that keep to the run on paper have the same tags, one for each key.
LEMMA CoreTagsAgree ==
    ASSUME NEW M, job \in Jobs, Canon(job, M), Core(M)
    PROVE  TagsAgree
<1>1. \A r \in Ranks : RankOK(job, M, r, proc[r], tagmap[r], routes[r], comms[r], storage[r])
  BY DEF Core
<1>2. ASSUME NEW r \in Ranks
      PROVE  /\ Ext(tagmap[r], MapAt(job, M, proc[r]))
             /\ OnRun(job, M, MapAt(job, M, proc[r]))
             /\ MapAt(job, M, proc[r]) \in TagMaps(job)
  <2>1. ControlOK(job, r, proc[r]) /\ TagsOK(job, M, r, proc[r], tagmap[r])
    BY <1>1 DEF RankOK
  <2>2. Ext(tagmap[r], MapAt(job, M, proc[r]))
    BY <2>1, TagsInRun
  <2> QED
    BY <2>1, <2>2, PlaceOK
<1>3. ASSUME NEW r \in Ranks, NEW q \in Ranks,
             NEW k \in DOMAIN tagmap[r].tag \cap DOMAIN tagmap[q].tag
      PROVE  tagmap[r].tag[k] = tagmap[q].tag[k]
  <2>1. PICK s, t : s = MapAt(job, M, proc[r]) /\ t = MapAt(job, M, proc[q])
    OBVIOUS
  <2>2. Ext(s, t) \/ Ext(t, s)
    BY <1>2, <2>1, Comparable
  <2>3. Ext(tagmap[r], s) /\ Ext(tagmap[q], t)
    BY <1>2, <2>1
  <2> QED
    BY <1>3, <2>2, <2>3 DEF Ext
<1>4. ASSUME NEW r \in Ranks
      PROVE  IsInjective([k \in DOMAIN routes[r] \union DOMAIN tagmap[r].tag |->
                 IF k \in DOMAIN routes[r] THEN routes[r][k] ELSE tagmap[r].tag[k]])
  <2>1. PICK c \in TagMaps(job) : c = MapAt(job, M, proc[r])
    BY <1>2
  <2>2. Ext(tagmap[r], c) /\ RoutesIn(routes[r], c)
    BY <1>1, <1>2, <2>1 DEF RankOK
  <2>3. PICK D : D = DOMAIN routes[r] \union DOMAIN tagmap[r].tag
    OBVIOUS
  <2>4. PICK f : f = [k \in D |-> IF k \in DOMAIN routes[r] THEN routes[r][k] ELSE tagmap[r].tag[k]]
    OBVIOUS
  <2>5. ASSUME NEW k \in D PROVE k \in DOMAIN c.tag /\ f[k] = c.tag[k]
    BY <2>2, <2>3, <2>4 DEF Ext, RoutesIn
  <2>6. \A k, l \in DOMAIN c.tag : c.tag[k] = c.tag[l] => k = l
    BY <2>1 DEF TagMaps
  <2>7. \A k, l \in D : f[k] = f[l] => k = l
    BY <2>5, <2>6
  <2>8. DOMAIN f = D
    BY <2>4
  <2>9. IsInjective(f)
    BY <2>7, <2>8 DEF IsInjective
  <2> QED
    BY <2>3, <2>4, <2>9
<1>5. ASSUME NEW r \in Ranks, NEW u \in DOMAIN comms[r].nccl
      PROVE  tagmap[r].tag[RankKey(comms[r].nccl[u])] = u
  BY <1>1 DEF RankOK, CommsOK
<1> QED
  BY <1>3, <1>4, <1>5 DEF TagsAgree

-----------------------------------------------------------------------------
(* The messages on their way. *)

\* A rank that has received everything rank 0 has sent comes to the same broadcast.
LEMMA PathEmpty ==
    ASSUME NEW j, NEW M, NEW b
    PROVE  Path(j, M, << >>, b, b)
<1>1. << >> \in Seq({})
  OBVIOUS
<1>2. PICK pts : pts = [k \in {1} |-> b]
  OBVIOUS
<1>3. pts[1] = b /\ pts[Len(<< >>) + 1] = b
  BY <1>2
<1>4. 1 .. Len(<< >>) = {}
  OBVIOUS
<1> QED
  BY <1>1, <1>3, <1>4 DEF Path

\* Rank 0 sends the message of the broadcast it is at.
LEMMA PathSend ==
    ASSUME NEW j, NEW M, NEW box, NEW b, NEW c, Path(j, M, box, b, c), NEW msg, MsgOK(j, M, c, msg)
    PROVE  Path(j, M, Append(box, msg), b, After(j, c, msg))
<1>1. PICK V : box \in Seq(V)
  BY DEF Path
<1>2. PICK pts : /\ pts[1] = b /\ pts[Len(box) + 1] = c
                 /\ \A k \in 1 .. Len(box) : MsgOK(j, M, pts[k], box[k])
                                             /\ pts[k + 1] = After(j, pts[k], box[k])
  BY DEF Path
<1>3. PICK L \in Nat : L = Len(box)
  BY <1>1
<1>4. PICK W : V \subseteq W /\ msg \in W
  <2>1. V \subseteq V \union {msg} /\ msg \in V \union {msg}
    OBVIOUS
  <2> QED
    BY <2>1
<1>5. PICK bx \in Seq(W) : bx = box
  BY <1>1, <1>4
<1>6. PICK new \in Seq(W) : new = Append(box, msg)
  <2>1. Append(bx, msg) \in Seq(W)
    BY <1>4
  <2> QED
    BY <1>5, <2>1
<1>7. Len(new) = L + 1 /\ new[L + 1] = msg /\ \A k \in 1 .. L : new[k] = box[k]
  BY <1>3, <1>4, <1>5, <1>6
<1>8. PICK d : d = After(j, c, msg)
  OBVIOUS
<1>9. PICK p : p = [k \in 1 .. L + 2 |-> IF k = L + 2 THEN d ELSE pts[k]]
  OBVIOUS
<1>10. p[1] = b /\ p[Len(new) + 1] = d
  BY <1>2, <1>3, <1>7, <1>9
<1>11. ASSUME NEW k \in 1 .. Len(new)
       PROVE  MsgOK(j, M, p[k], new[k]) /\ p[k + 1] = After(j, p[k], new[k])
  <2>1. p[k] = pts[k]
    BY <1>3, <1>7, <1>9
  <2>2. CASE k = L + 1
    <3>1. new[k] = msg /\ p[k] = c /\ p[k + 1] = d
      BY <1>2, <1>3, <1>7, <1>9, <2>1, <2>2
    <3> QED
      BY <1>8, <3>1
  <2>3. CASE k \in 1 .. L
    <3>1. new[k] = box[k] /\ p[k + 1] = pts[k + 1]
      BY <1>7, <1>9, <2>3
    <3> QED
      BY <1>2, <1>3, <2>1, <2>3, <3>1
  <2> QED
    BY <1>3, <1>7, <2>2, <2>3
<1>12. Path(j, M, new, b, d)
  BY <1>6, <1>10, <1>11 DEF Path
<1> QED
  BY <1>6, <1>8, <1>12

\* A rank receives the message of the broadcast it is at.
LEMMA PathTake ==
    ASSUME NEW j, NEW M, NEW box, NEW b, NEW c, Path(j, M, box, b, c), box # << >>
    PROVE  /\ MsgOK(j, M, b, Head(box))
           /\ Path(j, M, Tail(box), After(j, b, Head(box)), c)
<1>1. PICK V : box \in Seq(V)
  BY DEF Path
<1>2. PICK pts : /\ pts[1] = b /\ pts[Len(box) + 1] = c
                 /\ \A k \in 1 .. Len(box) : MsgOK(j, M, pts[k], box[k])
                                             /\ pts[k + 1] = After(j, pts[k], box[k])
  BY DEF Path
<1>3. PICK L \in Nat : Len(box) = L + 1
  <2>1. Len(box) \in Nat \ {0}
    BY <1>1
  <2>2. Len(box) - 1 \in Nat /\ Len(box) = (Len(box) - 1) + 1
    BY <2>1
  <2> QED
    BY <2>2
<1>4. PICK new \in Seq(V) : new = Tail(box)
  <2>1. Tail(box) \in Seq(V)
    BY <1>1
  <2> QED
    BY <2>1
<1>5. Head(box) = box[1] /\ Len(new) = L /\ \A k \in 1 .. L : new[k] = box[k + 1]
  BY <1>1, <1>3, <1>4
<1>6. PICK d : d = After(j, b, Head(box))
  OBVIOUS
<1>7. 1 \in 1 .. Len(box)
  BY <1>3
<1>8. MsgOK(j, M, b, Head(box)) /\ pts[2] = d
  <2>1. 1 + 1 = 2
    OBVIOUS
  <2> QED
    BY <1>2, <1>5, <1>6, <1>7, <2>1
<1>9. PICK p : p = [k \in 1 .. L + 1 |-> pts[k + 1]]
  OBVIOUS
<1>10. p[1] = d /\ p[Len(new) + 1] = c
  BY <1>2, <1>3, <1>5, <1>8, <1>9
<1>11. ASSUME NEW k \in 1 .. Len(new)
       PROVE  MsgOK(j, M, p[k], new[k]) /\ p[k + 1] = After(j, p[k], new[k])
  <2>1. k + 1 \in 1 .. Len(box) /\ new[k] = box[k + 1]
    BY <1>3, <1>5
  <2>2. p[k] = pts[k + 1] /\ p[k + 1] = pts[(k + 1) + 1]
    BY <1>5, <1>9
  <2> QED
    BY <1>2, <2>1, <2>2
<1>12. Path(j, M, new, d, c)
  BY <1>4, <1>10, <1>11 DEF Path
<1> QED
  BY <1>4, <1>6, <1>8, <1>12

\* The next parameter whose value rank 0 sends.
LEMMA ValuePointOK ==
    ASSUME NEW j \in Jobs, NEW n \in DOMAIN j.modules, NEW i \in Nat \ {0}
    PROVE  /\ i <= Size(j, n) /\ Sends(j, n, i) => ValuePoint(j, n, i) = <<n, "value", i>>
           /\ i <= Size(j, n) /\ ~Sends(j, n, i) => ValuePoint(j, n, i) = ValuePoint(j, n, i + 1)
           /\ i > Size(j, n) => ValuePoint(j, n, i) = <<n, "sync2", 0>>
<1>1. PICK S \in Nat : S = Size(j, n)
  BY ModuleData
<1>2. PICK sends : \A e \in Nat : e \in sends <=> Sends(j, n, e)
  <2>1. \A e \in Nat : e \in {d \in Nat : Sends(j, n, d)} <=> Sends(j, n, e)
    OBVIOUS
  <2> QED
    BY <2>1
<1>3. \A d \in Nat : Sending(j, n, d) = {e \in d .. S : e \in sends}
  BY <1>1, <1>2 DEF Sending
<1>4. ASSUME i <= S, i \in sends PROVE ValuePoint(j, n, i) = <<n, "value", i>>
  <2>1. PICK s : s = Sending(j, n, i)
    OBVIOUS
  <2>2. i \in s /\ \A d \in s : i <= d /\ d \in Nat
    BY <1>3, <1>4, <2>1
  <2>3. PICK e : e = CHOOSE o \in s : \A d \in s : o <= d
    OBVIOUS
  <2>4. e \in s /\ \A d \in s : e <= d
    BY <2>2, <2>3
  <2>5. e = i
    BY <2>2, <2>4
  <2> QED
    BY <2>1, <2>2, <2>3, <2>5 DEF ValuePoint
<1>5. ASSUME i <= S, i \notin sends PROVE ValuePoint(j, n, i) = ValuePoint(j, n, i + 1)
  <2>1. Sending(j, n, i) = Sending(j, n, i + 1)
    <3>1. {e \in i .. S : e \in sends} = {e \in i + 1 .. S : e \in sends}
      BY <1>1, <1>5
    <3> QED
      BY <1>3, <3>1
  <2> QED
    BY <2>1 DEF ValuePoint
<1>6. ASSUME i > S PROVE ValuePoint(j, n, i) = <<n, "sync2", 0>>
  <2>1. Sending(j, n, i) = {}
    BY <1>1, <1>3, <1>6
  <2> QED
    BY <2>1 DEF ValuePoint
<1> QED
  BY <1>1, <1>2, <1>4, <1>5, <1>6

-----------------------------------------------------------------------------
(* A rank's moves. *)

\* What each place of a module adds, place by place.
LEMMA PlacesOf ==
    ASSUME NEW j \in Jobs, NEW M, Canon(j, M), NEW n \in DOMAIN j.modules
    PROVE  /\ M[n][1] = Ask(j, M[n][0], RankKey(Ranks))
           /\ M[n][2] = AskAll(j, M[n][1], RouteKeys(j.modules[n]))
           /\ \A i \in 1 .. Size(j, n) :
                  M[n][2 + i] = IF UsersOf(j, n, i) = {} THEN M[n][1 + i]
                                ELSE Ask(j, M[n][1 + i], RankKey(UsersOf(j, n, i)))
           /\ \A i \in 1 .. Len(Comms(j, n)) :
                  M[n][2 + Size(j, n) + i] =
                      Ask(j, M[n][1 + Size(j, n) + i], RankKey(Comms(j, n)[i]))
           /\ M[n][EndOf(j, n)] =
                  IF j.gather THEN M[n][2 + Size(j, n) + Len(Comms(j, n))]
                  ELSE Ask(j, M[n][2 + Size(j, n) + Len(Comms(j, n))], RankKey({0}))
<1>1. PICK S \in Nat, C \in Nat : S = Size(j, n) /\ C = Len(Comms(j, n))
  BY ModuleData, CommsSeq
<1>2. \A o \in Nat : M[n][o + 1] = StepMap(j, n, o, M[n][o])
  BY DEF Canon
<1>3. M[n][1] = Ask(j, M[n][0], RankKey(Ranks))
  <2>1. M[n][0 + 1] = StepMap(j, n, 0, M[n][0])
    BY <1>2
  <2> QED
    BY <2>1 DEF StepMap
<1>4. M[n][2] = AskAll(j, M[n][1], RouteKeys(j.modules[n]))
  <2>1. M[n][1 + 1] = StepMap(j, n, 1, M[n][1])
    BY <1>2
  <2> QED
    BY <2>1 DEF StepMap
<1>5. ASSUME NEW i \in 1 .. S
      PROVE  M[n][2 + i] = IF UsersOf(j, n, i) = {} THEN M[n][1 + i]
                           ELSE Ask(j, M[n][1 + i], RankKey(UsersOf(j, n, i)))
  <2>1. PICK o \in Nat : o = 1 + i /\ o + 1 = 2 + i /\ o - 1 = i /\ o # 0 /\ o # 1 /\ o <= 1 + S
    BY <1>1
  <2>2. M[n][2 + i] = StepMap(j, n, o, M[n][1 + i])
    BY <1>2, <2>1
  <2> QED
    BY <1>1, <2>1, <2>2 DEF StepMap
<1>6. ASSUME NEW i \in 1 .. C
      PROVE  M[n][2 + S + i] = Ask(j, M[n][1 + S + i], RankKey(Comms(j, n)[i]))
  <2>1. PICK o \in Nat : /\ o = 1 + S + i /\ o + 1 = 2 + S + i /\ o - 1 - S = i /\ o # 0 /\ o # 1
                         /\ ~(o <= 1 + S) /\ o <= 1 + S + C
    <3>1. /\ 1 + S + i \in Nat /\ (1 + S + i) + 1 = 2 + S + i /\ (1 + S + i) - 1 - S = i
          /\ 1 + S + i # 0 /\ 1 + S + i # 1 /\ ~(1 + S + i <= 1 + S) /\ 1 + S + i <= 1 + S + C
      BY <1>1
    <3> QED
      BY <3>1
  <2>2. M[n][2 + S + i] = StepMap(j, n, o, M[n][1 + S + i])
    BY <1>2, <2>1
  <2> QED
    BY <1>1, <2>1, <2>2 DEF StepMap
<1>7. M[n][EndOf(j, n)] = IF j.gather THEN M[n][2 + S + C]
                          ELSE Ask(j, M[n][2 + S + C], RankKey({0}))
  <2>1. PICK o \in Nat : /\ o = 2 + S + C /\ o + 1 = 3 + S + C /\ o # 0 /\ o # 1
                         /\ ~(o <= 1 + S) /\ ~(o <= 1 + S + C)
    BY <1>1
  <2>2. M[n][3 + S + C] = StepMap(j, n, o, M[n][o])
    BY <1>2, <2>1
  <2>3. EndOf(j, n) = 3 + S + C
    BY <1>1, EndOfOK
  <2> QED
    BY <1>1, <2>1, <2>2, <2>3 DEF StepMap
<1> QED
  BY <1>1, <1>3, <1>4, <1>5, <1>6, <1>7

Fields(y, pc, n, i, load, order) ==
    /\ DOMAIN y = {"pc", "mod", "at", "load", "order"}
    /\ y.pc = pc /\ y.mod = n /\ y.at = i /\ y.load = load /\ y.order = order

\* Rank r goes from x to y, where rank 0 would have TagMap map and where the next
\* broadcast is b; what its storage held for x it holds for y.
Moved(j, M, r, x, y, map, b) ==
    /\ ControlOK(j, r, y)
    /\ MapAt(j, M, y) = map
    /\ Point(j, y) = b
    /\ \A st : StorageOK(j, r, x, st) => StorageOK(j, r, y, st)

\* Storage is as it was when no parameter is newly registered.
LEMMA StorageKept ==
    ASSUME NEW j \in Jobs, NEW r, NEW x, NEW y, ControlOK(j, r, x), ControlOK(j, r, y),
           x.mod = y.mod, Registering(j, y) = Registering(j, x), Deployed(j, x) <= Deployed(j, y)
    PROVE  \A st : StorageOK(j, r, x, st) => StorageOK(j, r, y, st)
<1>1. x.mod \in DOMAIN j.modules
  BY ModulesFrom1 DEF ControlOK
<1>2. PICK S \in Nat : S = Size(j, x.mod)
  BY <1>1, ModuleData
<1>3. PICK R \in Int, a \in Int, b \in Int :
         /\ R = Registering(j, x) /\ a = Deployed(j, x) /\ b = Deployed(j, y) /\ a <= b
  <2>1. Registering(j, x) \in Int
    BY <1>2 DEF Registering, ControlOK
  <2>2. Deployed(j, x) \in Int
    BY <1>2 DEF Deployed, ControlOK
  <2>3. Deployed(j, y) \in Int
    BY <1>2 DEF Deployed, ControlOK
  <2> QED
    BY <2>1, <2>2, <2>3
<1>4. \A i \in b + 1 .. R : i \in a + 1 .. R
  BY <1>3
<1>5. ASSUME NEW st, StorageOK(j, r, x, st) PROVE StorageOK(j, r, y, st)
  <2>1. \A i \in a + 1 .. R :
           LET p == j.modules[x.mod].params[i]
           IN  /\ p \in DOMAIN st.value /\ st.value[p] = Tensor(p, r)
               /\ p \in ToSet(j.stored) => p \in st.dist
    BY <1>3, <1>5 DEF StorageOK
  <2> QED
    BY <1>3, <1>4, <1>5, <2>1 DEF StorageOK
<1> QED
  BY <1>5

\* store: the parameter is registered on all ranks.
LEMMA MoveStore ==
    ASSUME NEW j \in Jobs, NEW M, Canon(j, M), NEW r, NEW x, ControlOK(j, r, x), NEW y,
           x.pc = "store",
           x.at <= Len(j.stored),
           Fields(y, "store", x.mod, x.at + 1, x.load, x.order)
    PROVE  Moved(j, M, r, x, y, Ask(j, MapAt(j, M, x), RankKey(Ranks)), Point(j, x))
<1>1. x.mod \in DOMAIN j.modules
  BY PlaceOK
<1>2. PICK n \in DOMAIN j.modules, i \in Nat \ {0}, S \in Nat, C \in Nat :
         n = x.mod /\ i = x.at /\ S = Size(j, n) /\ C = Len(Comms(j, n))
  BY <1>1, ModuleData, CommsSeq DEF ControlOK
<1>3. j.stored # << >> /\ i + 1 # 1
  BY <1>2, ModulesFrom1 DEF ControlOK
<1>4. Ask(j, StartMap(j), RankKey(Ranks)) = StartMap(j) /\ StartMap(j) = Ask(j, NoTags, RankKey(Ranks))
  BY <1>3, StartMapOK, AskKnown DEF StartMap
<1>5. ControlOK(j, r, y)
  BY <1>2, ModulesFrom1 DEF ControlOK, Fields, Phases
<1>6. MapAt(j, M, y) = Ask(j, MapAt(j, M, x), RankKey(Ranks))
  BY <1>2, <1>3, <1>4 DEF MapAt, Place, Fields
<1>7. Point(j, y) = Point(j, x)
  BY <1>2 DEF Point, Fields
<1>8. \A st : StorageOK(j, r, x, st) => StorageOK(j, r, y, st)
  <2>1. x.mod = y.mod /\ Registering(j, y) = Registering(j, x) /\ Deployed(j, x) <= Deployed(j, y)
    BY <1>2 DEF Fields, Registering, Deployed, ControlOK
  <2> QED
    BY <1>5, <2>1, StorageKept
<1> QED
  BY <1>5, <1>6, <1>7, <1>8 DEF Moved

\* All is stored: the first module's init.
LEMMA MoveStored ==
    ASSUME NEW j \in Jobs, NEW M, Canon(j, M), NEW r, NEW x, ControlOK(j, r, x), NEW y,
           x.pc = "store",
           x.at > Len(j.stored),
           Fields(y, "register", x.mod, 1, x.load, x.order)
    PROVE  Moved(j, M, r, x, y, MapAt(j, M, x), Point(j, x))
<1>1. x.mod \in DOMAIN j.modules
  BY PlaceOK
<1>2. PICK n \in DOMAIN j.modules, i \in Nat \ {0}, S \in Nat, C \in Nat :
         n = x.mod /\ i = x.at /\ S = Size(j, n) /\ C = Len(Comms(j, n))
  BY <1>1, ModuleData, CommsSeq DEF ControlOK
<1>3. n = 1 /\ M[1][0] = StartMap(j)
  BY <1>2 DEF ControlOK, Canon
<1>4. i = 1 => StartMap(j) = NoTags
  <2>1. i = 1 => j.stored = << >>
    BY <1>2, ModulesFrom1
  <2> QED
    BY <2>1 DEF StartMap
<1>5. ControlOK(j, r, y)
  BY <1>2, ModulesFrom1 DEF ControlOK, Fields, Phases
<1>6. MapAt(j, M, y) = MapAt(j, M, x)
  BY <1>2, <1>3, <1>4 DEF MapAt, Place, Fields
<1>7. Point(j, y) = Point(j, x)
  BY <1>2, <1>3 DEF Point, Fields
<1>8. \A st : StorageOK(j, r, x, st) => StorageOK(j, r, y, st)
  <2>1. x.mod = y.mod /\ Registering(j, y) = Registering(j, x) /\ Deployed(j, x) <= Deployed(j, y)
    BY <1>2 DEF Fields, Registering, Deployed, ControlOK
  <2> QED
    BY <1>5, <2>1, StorageKept
<1> QED
  BY <1>5, <1>6, <1>7, <1>8 DEF Moved

\* All parameters are registered: trace.
LEMMA MoveRegistered ==
    ASSUME NEW j \in Jobs, NEW M, Canon(j, M), NEW r, NEW x, ControlOK(j, r, x), NEW y,
           x.pc = "register",
           x.at > Size(j, x.mod),
           Fields(y, "trace", x.mod, 1, x.load, x.order)
    PROVE  Moved(j, M, r, x, y, MapAt(j, M, x), Point(j, x))
<1>1. x.mod \in DOMAIN j.modules
  BY PlaceOK
<1>2. PICK n \in DOMAIN j.modules, i \in Nat \ {0}, S \in Nat, C \in Nat :
         n = x.mod /\ i = x.at /\ S = Size(j, n) /\ C = Len(Comms(j, n))
  BY <1>1, ModuleData, CommsSeq DEF ControlOK
<1>3. RegisterPoint(j, x.mod, x.at) = <<x.mod, "names", 0>>
  BY <1>2 DEF RegisterPoint
<1>5. ControlOK(j, r, y)
  BY <1>2, ModulesFrom1 DEF ControlOK, Fields, Phases
<1>6. MapAt(j, M, y) = MapAt(j, M, x)
  BY <1>2 DEF MapAt, Place, Fields
<1>7. Point(j, y) = Point(j, x)
  BY <1>2, <1>3 DEF Point, Fields
<1>8. \A st : StorageOK(j, r, x, st) => StorageOK(j, r, y, st)
  <2>1. x.mod = y.mod /\ Registering(j, y) = Registering(j, x) /\ Deployed(j, x) <= Deployed(j, y)
    BY <1>2 DEF Fields, Registering, Deployed, ControlOK
  <2> QED
    BY <1>5, <2>1, StorageKept
<1> QED
  BY <1>5, <1>6, <1>7, <1>8 DEF Moved

\* The trace comes to the next parameter.
LEMMA MoveTrace ==
    ASSUME NEW j \in Jobs, NEW M, Canon(j, M), NEW r, NEW x, ControlOK(j, r, x), NEW y,
           x.pc \in {"trace", "trace_load"},
           x.at <= Size(j, x.mod),
           Fields(y, "trace", x.mod, x.at + 1, x.load, x.order)
    PROVE  Moved(j, M, r, x, y, MapAt(j, M, x), Point(j, x))
<1>1. x.mod \in DOMAIN j.modules
  BY PlaceOK
<1>2. PICK n \in DOMAIN j.modules, i \in Nat \ {0}, S \in Nat, C \in Nat :
         n = x.mod /\ i = x.at /\ S = Size(j, n) /\ C = Len(Comms(j, n))
  BY <1>1, ModuleData, CommsSeq DEF ControlOK
<1>5. ControlOK(j, r, y)
  BY <1>2, ModulesFrom1 DEF ControlOK, Fields, Phases
<1>6. MapAt(j, M, y) = MapAt(j, M, x)
  BY <1>2 DEF MapAt, Place, Fields
<1>7. Point(j, y) = Point(j, x)
  BY <1>2 DEF Point, Fields
<1>8. \A st : StorageOK(j, r, x, st) => StorageOK(j, r, y, st)
  <2>1. x.mod = y.mod /\ Registering(j, y) = Registering(j, x) /\ Deployed(j, x) <= Deployed(j, y)
    BY <1>2 DEF Fields, Registering, Deployed, ControlOK
  <2> QED
    BY <1>5, <2>1, StorageKept
<1> QED
  BY <1>5, <1>6, <1>7, <1>8 DEF Moved

\* The trace loads a distributed parameter.
LEMMA MoveTraceLoad ==
    ASSUME NEW j \in Jobs, NEW M, Canon(j, M), NEW r, NEW x, ControlOK(j, r, x), NEW y,
           x.pc = "trace",
           x.at <= Size(j, x.mod),
           j.stored # << >>,
           NEW p,
           Fields(y, "trace_load", x.mod, x.at, p, x.order)
    PROVE  Moved(j, M, r, x, y, MapAt(j, M, x), Point(j, x))
<1>1. x.mod \in DOMAIN j.modules
  BY PlaceOK
<1>2. PICK n \in DOMAIN j.modules, i \in Nat \ {0}, S \in Nat, C \in Nat :
         n = x.mod /\ i = x.at /\ S = Size(j, n) /\ C = Len(Comms(j, n))
  BY <1>1, ModuleData, CommsSeq DEF ControlOK
<1>5. ControlOK(j, r, y)
  BY <1>2, ModulesFrom1 DEF ControlOK, Fields, Phases
<1>6. MapAt(j, M, y) = MapAt(j, M, x)
  BY <1>2 DEF MapAt, Place, Fields
<1>7. Point(j, y) = Point(j, x)
  BY <1>2 DEF Point, Fields
<1>8. \A st : StorageOK(j, r, x, st) => StorageOK(j, r, y, st)
  <2>1. x.mod = y.mod /\ Registering(j, y) = Registering(j, x) /\ Deployed(j, x) <= Deployed(j, y)
    BY <1>2 DEF Fields, Registering, Deployed, ControlOK
  <2> QED
    BY <1>5, <2>1, StorageKept
<1> QED
  BY <1>5, <1>6, <1>7, <1>8 DEF Moved

\* syncDebugName.
LEMMA MoveNames ==
    ASSUME NEW j \in Jobs, NEW M, Canon(j, M), NEW r, NEW x, ControlOK(j, r, x), NEW y,
           x.pc = "trace",
           Fields(y, "fetchStart", x.mod, 1, x.load, j.modules[x.mod].params)
    PROVE  Moved(j, M, r, x, y, MapAt(j, M, x), <<x.mod, "fetch", 0>>)
<1>1. x.mod \in DOMAIN j.modules
  BY PlaceOK
<1>2. PICK n \in DOMAIN j.modules, i \in Nat \ {0}, S \in Nat, C \in Nat :
         n = x.mod /\ i = x.at /\ S = Size(j, n) /\ C = Len(Comms(j, n))
  BY <1>1, ModuleData, CommsSeq DEF ControlOK
<1>5. ControlOK(j, r, y)
  BY <1>2, ModulesFrom1 DEF ControlOK, Fields, Phases
<1>6. MapAt(j, M, y) = MapAt(j, M, x)
  BY <1>2 DEF MapAt, Place, Fields
<1>7. Point(j, y) = <<x.mod, "fetch", 0>>
  BY <1>2 DEF Point, Fields
<1>8. \A st : StorageOK(j, r, x, st) => StorageOK(j, r, y, st)
  <2>1. x.mod = y.mod /\ Registering(j, y) = Registering(j, x) /\ Deployed(j, x) <= Deployed(j, y)
    BY <1>2 DEF Fields, Registering, Deployed, ControlOK
  <2> QED
    BY <1>5, <2>1, StorageKept
<1> QED
  BY <1>5, <1>6, <1>7, <1>8 DEF Moved

\* The communicator of all ranks for fetchStart.
LEMMA MoveFetchStart ==
    ASSUME NEW j \in Jobs, NEW M, Canon(j, M), NEW r, NEW x, ControlOK(j, r, x), NEW y,
           x.pc = "fetchStart",
           Fields(y, IF r = 0 THEN "master" ELSE "fetching", x.mod, x.at, x.load, x.order)
    PROVE  Moved(j, M, r, x, y, Ask(j, MapAt(j, M, x), RankKey(Ranks)), Point(j, x))
<1>1. x.mod \in DOMAIN j.modules
  BY PlaceOK
<1>2. PICK n \in DOMAIN j.modules, i \in Nat \ {0}, S \in Nat, C \in Nat :
         n = x.mod /\ i = x.at /\ S = Size(j, n) /\ C = Len(Comms(j, n))
  BY <1>1, ModuleData, CommsSeq DEF ControlOK
<1>3. M[n][1] = Ask(j, M[n][0], RankKey(Ranks))
  BY <1>2, PlacesOf
<1>5. ControlOK(j, r, y)
  BY <1>2, ModulesFrom1 DEF ControlOK, Fields, Phases
<1>6. MapAt(j, M, y) = Ask(j, MapAt(j, M, x), RankKey(Ranks))
  BY <1>2, <1>3 DEF MapAt, Place, Fields
<1>7. Point(j, y) = Point(j, x)
  BY <1>2 DEF Point, Fields
<1>8. \A st : StorageOK(j, r, x, st) => StorageOK(j, r, y, st)
  <2>1. x.mod = y.mod /\ Registering(j, y) = Registering(j, x) /\ Deployed(j, x) <= Deployed(j, y)
    BY <1>2 DEF Fields, Registering, Deployed, ControlOK
  <2> QED
    BY <1>5, <2>1, StorageKept
<1> QED
  BY <1>5, <1>6, <1>7, <1>8 DEF Moved

\* Rank 0 fetches a parameter.
LEMMA MoveFetch ==
    ASSUME NEW j \in Jobs, NEW M, Canon(j, M), NEW r, NEW x, ControlOK(j, r, x), NEW y,
           x.pc = "master",
           NEW p,
           Fields(y, "master_load", x.mod, x.at, p, x.order)
    PROVE  Moved(j, M, r, x, y, MapAt(j, M, x), <<x.mod, "fetch", 0>>)
<1>1. x.mod \in DOMAIN j.modules
  BY PlaceOK
<1>2. PICK n \in DOMAIN j.modules, i \in Nat \ {0}, S \in Nat, C \in Nat :
         n = x.mod /\ i = x.at /\ S = Size(j, n) /\ C = Len(Comms(j, n))
  BY <1>1, ModuleData, CommsSeq DEF ControlOK
<1>5. ControlOK(j, r, y)
  BY <1>2, ModulesFrom1 DEF ControlOK, Fields, Phases
<1>6. MapAt(j, M, y) = MapAt(j, M, x)
  BY <1>2 DEF MapAt, Place, Fields
<1>7. Point(j, y) = <<x.mod, "fetch", 0>>
  BY <1>2 DEF Point, Fields
<1>8. \A st : StorageOK(j, r, x, st) => StorageOK(j, r, y, st)
  <2>1. x.mod = y.mod /\ Registering(j, y) = Registering(j, x) /\ Deployed(j, x) <= Deployed(j, y)
    BY <1>2 DEF Fields, Registering, Deployed, ControlOK
  <2> QED
    BY <1>5, <2>1, StorageKept
<1> QED
  BY <1>5, <1>6, <1>7, <1>8 DEF Moved

\* Another rank loads what rank 0 fetches.
LEMMA MoveFetchLoad ==
    ASSUME NEW j \in Jobs, NEW M, Canon(j, M), NEW r, NEW x, ControlOK(j, r, x), NEW y,
           x.pc = "fetching",
           NEW p,
           Fields(y, "fetch_load", x.mod, x.at, p, x.order)
    PROVE  Moved(j, M, r, x, y, MapAt(j, M, x), <<x.mod, "fetch", 0>>)
<1>1. x.mod \in DOMAIN j.modules
  BY PlaceOK
<1>2. PICK n \in DOMAIN j.modules, i \in Nat \ {0}, S \in Nat, C \in Nat :
         n = x.mod /\ i = x.at /\ S = Size(j, n) /\ C = Len(Comms(j, n))
  BY <1>1, ModuleData, CommsSeq DEF ControlOK
<1>5. ControlOK(j, r, y)
  BY <1>2, ModulesFrom1 DEF ControlOK, Fields, Phases
<1>6. MapAt(j, M, y) = MapAt(j, M, x)
  BY <1>2 DEF MapAt, Place, Fields
<1>7. Point(j, y) = <<x.mod, "fetch", 0>>
  BY <1>2 DEF Point, Fields
<1>8. \A st : StorageOK(j, r, x, st) => StorageOK(j, r, y, st)
  <2>1. x.mod = y.mod /\ Registering(j, y) = Registering(j, x) /\ Deployed(j, x) <= Deployed(j, y)
    BY <1>2 DEF Fields, Registering, Deployed, ControlOK
  <2> QED
    BY <1>5, <2>1, StorageKept
<1> QED
  BY <1>5, <1>6, <1>7, <1>8 DEF Moved

\* Both go on after the load.
LEMMA MoveLoaded ==
    ASSUME NEW j \in Jobs, NEW M, Canon(j, M), NEW r, NEW x, ControlOK(j, r, x), NEW y,
           x.pc \in {"master_load", "fetch_load"},
           Fields(y, IF x.pc = "master_load" THEN "master" ELSE "fetching", x.mod, x.at, x.load, x.order)
    PROVE  Moved(j, M, r, x, y, MapAt(j, M, x), Point(j, x))
<1>1. x.mod \in DOMAIN j.modules
  BY PlaceOK
<1>2. PICK n \in DOMAIN j.modules, i \in Nat \ {0}, S \in Nat, C \in Nat :
         n = x.mod /\ i = x.at /\ S = Size(j, n) /\ C = Len(Comms(j, n))
  BY <1>1, ModuleData, CommsSeq DEF ControlOK
<1>5. ControlOK(j, r, y)
  BY <1>2, ModulesFrom1 DEF ControlOK, Fields, Phases
<1>6. MapAt(j, M, y) = MapAt(j, M, x)
  BY <1>2 DEF MapAt, Place, Fields
<1>7. Point(j, y) = Point(j, x)
  BY <1>2 DEF Point, Fields
<1>8. \A st : StorageOK(j, r, x, st) => StorageOK(j, r, y, st)
  <2>1. x.mod = y.mod /\ Registering(j, y) = Registering(j, x) /\ Deployed(j, x) <= Deployed(j, y)
    BY <1>2 DEF Fields, Registering, Deployed, ControlOK
  <2> QED
    BY <1>5, <2>1, StorageKept
<1> QED
  BY <1>5, <1>6, <1>7, <1>8 DEF Moved

\* fetchEnd.
LEMMA MoveFetchEnd ==
    ASSUME NEW j \in Jobs, NEW M, Canon(j, M), NEW r, NEW x, ControlOK(j, r, x), NEW y,
           x.pc \in {"master", "fetching"},
           Fields(y, "barrier", x.mod, 1, x.load, x.order)
    PROVE  Moved(j, M, r, x, y, M[x.mod][2], <<x.mod, "deployment", 0>>)
<1>1. x.mod \in DOMAIN j.modules
  BY PlaceOK
<1>2. PICK n \in DOMAIN j.modules, i \in Nat \ {0}, S \in Nat, C \in Nat :
         n = x.mod /\ i = x.at /\ S = Size(j, n) /\ C = Len(Comms(j, n))
  BY <1>1, ModuleData, CommsSeq DEF ControlOK
<1>5. ControlOK(j, r, y)
  BY <1>2, ModulesFrom1 DEF ControlOK, Fields, Phases
<1>6. MapAt(j, M, y) = M[x.mod][2]
  BY <1>2 DEF MapAt, Place, Fields
<1>7. Point(j, y) = <<x.mod, "deployment", 0>>
  BY <1>2 DEF Point, Fields
<1>8. \A st : StorageOK(j, r, x, st) => StorageOK(j, r, y, st)
  <2>1. x.mod = y.mod /\ Registering(j, y) = Registering(j, x) /\ Deployed(j, x) <= Deployed(j, y)
    BY <1>2 DEF Fields, Registering, Deployed, ControlOK
  <2> QED
    BY <1>5, <2>1, StorageKept
<1> QED
  BY <1>5, <1>6, <1>7, <1>8 DEF Moved

\* The barrier of init.
LEMMA MoveBarrier ==
    ASSUME NEW j \in Jobs, NEW M, Canon(j, M), NEW r, NEW x, ControlOK(j, r, x), NEW y,
           x.pc = "barrier",
           Fields(y, "deployment", x.mod, x.at, x.load, x.order)
    PROVE  Moved(j, M, r, x, y, MapAt(j, M, x), Point(j, x))
<1>1. x.mod \in DOMAIN j.modules
  BY PlaceOK
<1>2. PICK n \in DOMAIN j.modules, i \in Nat \ {0}, S \in Nat, C \in Nat :
         n = x.mod /\ i = x.at /\ S = Size(j, n) /\ C = Len(Comms(j, n))
  BY <1>1, ModuleData, CommsSeq DEF ControlOK
<1>5. ControlOK(j, r, y)
  BY <1>2, ModulesFrom1 DEF ControlOK, Fields, Phases
<1>6. MapAt(j, M, y) = MapAt(j, M, x)
  BY <1>2 DEF MapAt, Place, Fields
<1>7. Point(j, y) = Point(j, x)
  BY <1>2 DEF Point, Fields
<1>8. \A st : StorageOK(j, r, x, st) => StorageOK(j, r, y, st)
  <2>1. x.mod = y.mod /\ Registering(j, y) = Registering(j, x) /\ Deployed(j, x) <= Deployed(j, y)
    BY <1>2 DEF Fields, Registering, Deployed, ControlOK
  <2> QED
    BY <1>5, <2>1, StorageKept
<1> QED
  BY <1>5, <1>6, <1>7, <1>8 DEF Moved

\* The broadcast of the deployment.
LEMMA MoveDeployment ==
    ASSUME NEW j \in Jobs, NEW M, Canon(j, M), NEW r, NEW x, ControlOK(j, r, x), NEW y,
           x.pc = "deployment",
           Fields(y, "sync", x.mod, 1, x.load, x.order)
    PROVE  Moved(j, M, r, x, y, MapAt(j, M, x), <<x.mod, "sync", 0>>)
<1>1. x.mod \in DOMAIN j.modules
  BY PlaceOK
<1>2. PICK n \in DOMAIN j.modules, i \in Nat \ {0}, S \in Nat, C \in Nat :
         n = x.mod /\ i = x.at /\ S = Size(j, n) /\ C = Len(Comms(j, n))
  BY <1>1, ModuleData, CommsSeq DEF ControlOK
<1>5. ControlOK(j, r, y)
  BY <1>2, ModulesFrom1 DEF ControlOK, Fields, Phases
<1>6. MapAt(j, M, y) = MapAt(j, M, x)
  BY <1>2 DEF MapAt, Place, Fields
<1>7. Point(j, y) = <<x.mod, "sync", 0>>
  BY <1>2 DEF Point, Fields
<1>8. \A st : StorageOK(j, r, x, st) => StorageOK(j, r, y, st)
  <2>1. x.mod = y.mod /\ Registering(j, y) = Registering(j, x) /\ Deployed(j, x) <= Deployed(j, y)
    BY <1>2 DEF Fields, Registering, Deployed, ControlOK
  <2> QED
    BY <1>5, <2>1, StorageKept
<1> QED
  BY <1>5, <1>6, <1>7, <1>8 DEF Moved

\* TagMap::sync in ParamStorage::deploy.
LEMMA MoveSync ==
    ASSUME NEW j \in Jobs, NEW M, Canon(j, M), NEW r, NEW x, ControlOK(j, r, x), NEW y,
           x.pc = "sync",
           Fields(y, "param", x.mod, 1, x.load, x.order)
    PROVE  Moved(j, M, r, x, y, M[x.mod][2], ValuePoint(j, x.mod, 1))
<1>1. x.mod \in DOMAIN j.modules
  BY PlaceOK
<1>2. PICK n \in DOMAIN j.modules, i \in Nat \ {0}, S \in Nat, C \in Nat :
         n = x.mod /\ i = x.at /\ S = Size(j, n) /\ C = Len(Comms(j, n))
  BY <1>1, ModuleData, CommsSeq DEF ControlOK
<1>5. ControlOK(j, r, y)
  BY <1>2, ModulesFrom1 DEF ControlOK, Fields, Phases
<1>6. MapAt(j, M, y) = M[x.mod][2]
  BY <1>2 DEF MapAt, Place, Fields
<1>7. Point(j, y) = ValuePoint(j, x.mod, 1)
  BY <1>2 DEF Point, Fields
<1>8. \A st : StorageOK(j, r, x, st) => StorageOK(j, r, y, st)
  <2>1. x.mod = y.mod /\ Registering(j, y) = Registering(j, x) /\ Deployed(j, x) <= Deployed(j, y)
    BY <1>2 DEF Fields, Registering, Deployed, ControlOK
  <2> QED
    BY <1>5, <2>1, StorageKept
<1> QED
  BY <1>5, <1>6, <1>7, <1>8 DEF Moved

\* A parameter nobody uses.
LEMMA MoveSkip ==
    ASSUME NEW j \in Jobs, NEW M, Canon(j, M), NEW r, NEW x, ControlOK(j, r, x), NEW y,
           x.pc = "param",
           x.at <= Size(j, x.mod),
           UsersOf(j, x.mod, x.at) = {},
           Fields(y, "param", x.mod, x.at + 1, x.load, x.order)
    PROVE  Moved(j, M, r, x, y, MapAt(j, M, x), Point(j, x))
<1>1. x.mod \in DOMAIN j.modules
  BY PlaceOK
<1>2. PICK n \in DOMAIN j.modules, i \in Nat \ {0}, S \in Nat, C \in Nat :
         n = x.mod /\ i = x.at /\ S = Size(j, n) /\ C = Len(Comms(j, n))
  BY <1>1, ModuleData, CommsSeq DEF ControlOK
<1>3. M[n][2 + i] = M[n][1 + i] /\ 1 + (i + 1) = 2 + i
  BY <1>2, PlacesOf
<1>4. ValuePoint(j, n, i) = ValuePoint(j, n, i + 1)
  BY <1>2, ValuePointOK DEF Sends
<1>5. ControlOK(j, r, y)
  BY <1>2, ModulesFrom1 DEF ControlOK, Fields, Phases
<1>6. MapAt(j, M, y) = MapAt(j, M, x)
  BY <1>2, <1>3 DEF MapAt, Place, Fields
<1>7. Point(j, y) = Point(j, x)
  BY <1>2, <1>4 DEF Point, Fields
<1>8. \A st : StorageOK(j, r, x, st) => StorageOK(j, r, y, st)
  <2>1. x.mod = y.mod /\ Registering(j, y) = Registering(j, x) /\ Deployed(j, x) <= Deployed(j, y)
    BY <1>2 DEF Fields, Registering, Deployed, ControlOK
  <2> QED
    BY <1>5, <2>1, StorageKept
<1> QED
  BY <1>5, <1>6, <1>7, <1>8 DEF Moved

\* The tag of the ranks that use a parameter.
LEMMA MoveUsed ==
    ASSUME NEW j \in Jobs, NEW M, Canon(j, M), NEW r, NEW x, ControlOK(j, r, x), NEW y,
           x.pc = "param",
           x.at <= Size(j, x.mod),
           UsersOf(j, x.mod, x.at) # {},
           Fields(y, "value", x.mod, x.at, x.load, x.order)
    PROVE  Moved(j, M, r, x, y, Ask(j, MapAt(j, M, x), RankKey(UsersOf(j, x.mod, x.at))), Point(j, x))
<1>1. x.mod \in DOMAIN j.modules
  BY PlaceOK
<1>2. PICK n \in DOMAIN j.modules, i \in Nat \ {0}, S \in Nat, C \in Nat :
         n = x.mod /\ i = x.at /\ S = Size(j, n) /\ C = Len(Comms(j, n))
  BY <1>1, ModuleData, CommsSeq DEF ControlOK
<1>3. M[n][2 + i] = Ask(j, M[n][1 + i], RankKey(UsersOf(j, n, i)))
  BY <1>2, PlacesOf
<1>5. ControlOK(j, r, y)
  BY <1>2, ModulesFrom1 DEF ControlOK, Fields, Phases
<1>6. MapAt(j, M, y) = Ask(j, MapAt(j, M, x), RankKey(UsersOf(j, x.mod, x.at)))
  BY <1>2, <1>3 DEF MapAt, Place, Fields
<1>7. Point(j, y) = Point(j, x)
  BY <1>2 DEF Point, Fields
<1>8. \A st : StorageOK(j, r, x, st) => StorageOK(j, r, y, st)
  <2>1. x.mod = y.mod /\ Registering(j, y) = Registering(j, x) /\ Deployed(j, x) <= Deployed(j, y)
    BY <1>2 DEF Fields, Registering, Deployed, ControlOK
  <2> QED
    BY <1>5, <2>1, StorageKept
<1> QED
  BY <1>5, <1>6, <1>7, <1>8 DEF Moved

\* A user of a distributed parameter loads it.
LEMMA MoveParamLoad ==
    ASSUME NEW j \in Jobs, NEW M, Canon(j, M), NEW r, NEW x, ControlOK(j, r, x), NEW y,
           x.pc = "value",
           j.modules[x.mod].params[x.at] \in ToSet(j.stored),
           r \in UsersOf(j, x.mod, x.at),
           Fields(y, "param_load", x.mod, x.at, j.modules[x.mod].params[x.at], x.order)
    PROVE  Moved(j, M, r, x, y, MapAt(j, M, x), Point(j, x))
<1>1. x.mod \in DOMAIN j.modules
  BY PlaceOK
<1>2. PICK n \in DOMAIN j.modules, i \in Nat \ {0}, S \in Nat, C \in Nat :
         n = x.mod /\ i = x.at /\ S = Size(j, n) /\ C = Len(Comms(j, n))
  BY <1>1, ModuleData, CommsSeq DEF ControlOK
<1>5. ControlOK(j, r, y)
  BY <1>2, ModulesFrom1 DEF ControlOK, Fields, Phases
<1>6. MapAt(j, M, y) = MapAt(j, M, x)
  BY <1>2 DEF MapAt, Place, Fields
<1>7. Point(j, y) = Point(j, x)
  BY <1>2 DEF Point, Fields
<1>8. \A st : StorageOK(j, r, x, st) => StorageOK(j, r, y, st)
  <2>1. x.mod = y.mod /\ Registering(j, y) = Registering(j, x) /\ Deployed(j, x) <= Deployed(j, y)
    BY <1>2 DEF Fields, Registering, Deployed, ControlOK
  <2> QED
    BY <1>5, <2>1, StorageKept
<1> QED
  BY <1>5, <1>6, <1>7, <1>8 DEF Moved

\* A distributed parameter is loaded, or forgotten.
LEMMA MoveTaken ==
    ASSUME NEW j \in Jobs, NEW M, Canon(j, M), NEW r, NEW x, ControlOK(j, r, x), NEW y,
           x.pc \in {"value", "param_load"},
           j.modules[x.mod].params[x.at] \in ToSet(j.stored),
           Fields(y, "param", x.mod, x.at + 1, x.load, x.order)
    PROVE  Moved(j, M, r, x, y, MapAt(j, M, x), Point(j, x))
<1>1. x.mod \in DOMAIN j.modules
  BY PlaceOK
<1>2. PICK n \in DOMAIN j.modules, i \in Nat \ {0}, S \in Nat, C \in Nat :
         n = x.mod /\ i = x.at /\ S = Size(j, n) /\ C = Len(Comms(j, n))
  BY <1>1, ModuleData, CommsSeq DEF ControlOK
<1>3. 1 + (i + 1) = 2 + i
  BY <1>2
<1>4. ValuePoint(j, n, i) = ValuePoint(j, n, i + 1)
  BY <1>2, ValuePointOK DEF Sends, ControlOK
<1>5. ControlOK(j, r, y)
  BY <1>2, ModulesFrom1 DEF ControlOK, Fields, Phases
<1>6. MapAt(j, M, y) = MapAt(j, M, x)
  BY <1>2, <1>3 DEF MapAt, Place, Fields
<1>7. Point(j, y) = Point(j, x)
  BY <1>2, <1>4 DEF Point, Fields
<1>8. \A st : StorageOK(j, r, x, st) => StorageOK(j, r, y, st)
  <2>1. x.mod = y.mod /\ Registering(j, y) = Registering(j, x) /\ Deployed(j, x) <= Deployed(j, y)
    BY <1>2 DEF Fields, Registering, Deployed, ControlOK
  <2> QED
    BY <1>5, <2>1, StorageKept
<1> QED
  BY <1>5, <1>6, <1>7, <1>8 DEF Moved

\* The value of a parameter comes from rank 0.
LEMMA MoveValue ==
    ASSUME NEW j \in Jobs, NEW M, Canon(j, M), NEW r, NEW x, ControlOK(j, r, x), NEW y,
           x.pc = "value",
           Fields(y, "param", x.mod, x.at + 1, x.load, x.order)
    PROVE  Moved(j, M, r, x, y, MapAt(j, M, x), ValuePoint(j, x.mod, x.at + 1))
<1>1. x.mod \in DOMAIN j.modules
  BY PlaceOK
<1>2. PICK n \in DOMAIN j.modules, i \in Nat \ {0}, S \in Nat, C \in Nat :
         n = x.mod /\ i = x.at /\ S = Size(j, n) /\ C = Len(Comms(j, n))
  BY <1>1, ModuleData, CommsSeq DEF ControlOK
<1>3. 1 + (i + 1) = 2 + i
  BY <1>2
<1>5. ControlOK(j, r, y)
  BY <1>2, ModulesFrom1 DEF ControlOK, Fields, Phases
<1>6. MapAt(j, M, y) = MapAt(j, M, x)
  BY <1>2, <1>3 DEF MapAt, Place, Fields
<1>7. Point(j, y) = ValuePoint(j, x.mod, x.at + 1)
  BY <1>2 DEF Point, Fields
<1>8. \A st : StorageOK(j, r, x, st) => StorageOK(j, r, y, st)
  <2>1. x.mod = y.mod /\ Registering(j, y) = Registering(j, x) /\ Deployed(j, x) <= Deployed(j, y)
    BY <1>2 DEF Fields, Registering, Deployed, ControlOK
  <2> QED
    BY <1>5, <2>1, StorageKept
<1> QED
  BY <1>5, <1>6, <1>7, <1>8 DEF Moved

\* All parameters are deployed.
LEMMA MoveParamsDone ==
    ASSUME NEW j \in Jobs, NEW M, Canon(j, M), NEW r, NEW x, ControlOK(j, r, x), NEW y,
           x.pc = "param",
           x.at > Size(j, x.mod),
           NEW phase \in {"zero", "sync2"},
           Fields(y, phase, x.mod, 1, x.load, x.order)
    PROVE  Moved(j, M, r, x, y, MapAt(j, M, x), Point(j, x))
<1>1. x.mod \in DOMAIN j.modules
  BY PlaceOK
<1>2. PICK n \in DOMAIN j.modules, i \in Nat \ {0}, S \in Nat, C \in Nat :
         n = x.mod /\ i = x.at /\ S = Size(j, n) /\ C = Len(Comms(j, n))
  BY <1>1, ModuleData, CommsSeq DEF ControlOK
<1>3. i = S + 1 /\ 1 + i = 2 + S
  BY <1>2 DEF ControlOK
<1>4. ValuePoint(j, n, i) = <<n, "sync2", 0>>
  BY <1>2, <1>3, ValuePointOK
<1>5. ControlOK(j, r, y)
  BY <1>2, ModulesFrom1 DEF ControlOK, Fields, Phases
<1>6. MapAt(j, M, y) = MapAt(j, M, x)
  BY <1>2, <1>3 DEF MapAt, Place, Fields
<1>7. Point(j, y) = Point(j, x)
  BY <1>2, <1>4 DEF Point, Fields
<1>8. \A st : StorageOK(j, r, x, st) => StorageOK(j, r, y, st)
  <2>1. x.mod = y.mod /\ Registering(j, y) = Registering(j, x) /\ Deployed(j, x) <= Deployed(j, y)
    BY <1>2 DEF Fields, Registering, Deployed, ControlOK
  <2> QED
    BY <1>5, <2>1, StorageKept
<1> QED
  BY <1>5, <1>6, <1>7, <1>8 DEF Moved

\* The next parameter's gradient.
LEMMA MoveGrad ==
    ASSUME NEW j \in Jobs, NEW M, Canon(j, M), NEW r, NEW x, ControlOK(j, r, x), NEW y,
           x.pc = "zero",
           x.at <= Size(j, x.mod),
           Fields(y, "zero", x.mod, x.at + 1, x.load, x.order)
    PROVE  Moved(j, M, r, x, y, MapAt(j, M, x), Point(j, x))
<1>1. x.mod \in DOMAIN j.modules
  BY PlaceOK
<1>2. PICK n \in DOMAIN j.modules, i \in Nat \ {0}, S \in Nat, C \in Nat :
         n = x.mod /\ i = x.at /\ S = Size(j, n) /\ C = Len(Comms(j, n))
  BY <1>1, ModuleData, CommsSeq DEF ControlOK
<1>5. ControlOK(j, r, y)
  BY <1>2, ModulesFrom1 DEF ControlOK, Fields, Phases
<1>6. MapAt(j, M, y) = MapAt(j, M, x)
  BY <1>2 DEF MapAt, Place, Fields
<1>7. Point(j, y) = Point(j, x)
  BY <1>2 DEF Point, Fields
<1>8. \A st : StorageOK(j, r, x, st) => StorageOK(j, r, y, st)
  <2>1. x.mod = y.mod /\ Registering(j, y) = Registering(j, x) /\ Deployed(j, x) <= Deployed(j, y)
    BY <1>2 DEF Fields, Registering, Deployed, ControlOK
  <2> QED
    BY <1>5, <2>1, StorageKept
<1> QED
  BY <1>5, <1>6, <1>7, <1>8 DEF Moved

\* All gradients are registered.
LEMMA MoveGradsDone ==
    ASSUME NEW j \in Jobs, NEW M, Canon(j, M), NEW r, NEW x, ControlOK(j, r, x), NEW y,
           x.pc = "zero",
           Fields(y, "sync2", x.mod, 1, x.load, x.order)
    PROVE  Moved(j, M, r, x, y, MapAt(j, M, x), Point(j, x))
<1>1. x.mod \in DOMAIN j.modules
  BY PlaceOK
<1>2. PICK n \in DOMAIN j.modules, i \in Nat \ {0}, S \in Nat, C \in Nat :
         n = x.mod /\ i = x.at /\ S = Size(j, n) /\ C = Len(Comms(j, n))
  BY <1>1, ModuleData, CommsSeq DEF ControlOK
<1>5. ControlOK(j, r, y)
  BY <1>2, ModulesFrom1 DEF ControlOK, Fields, Phases
<1>6. MapAt(j, M, y) = MapAt(j, M, x)
  BY <1>2 DEF MapAt, Place, Fields
<1>7. Point(j, y) = Point(j, x)
  BY <1>2 DEF Point, Fields
<1>8. \A st : StorageOK(j, r, x, st) => StorageOK(j, r, y, st)
  <2>1. x.mod = y.mod /\ Registering(j, y) = Registering(j, x) /\ Deployed(j, x) <= Deployed(j, y)
    BY <1>2 DEF Fields, Registering, Deployed, ControlOK
  <2> QED
    BY <1>5, <2>1, StorageKept
<1> QED
  BY <1>5, <1>6, <1>7, <1>8 DEF Moved

\* TagMap::sync in GraphLauncher::deployGraph.
LEMMA MoveSyncAgain ==
    ASSUME NEW j \in Jobs, NEW M, Canon(j, M), NEW r, NEW x, ControlOK(j, r, x), NEW y,
           x.pc = "sync2",
           Fields(y, "route", x.mod, 1, x.load, x.order)
    PROVE  Moved(j, M, r, x, y, M[x.mod][2 + Size(j, x.mod)], EndPoint(j, x.mod))
<1>1. x.mod \in DOMAIN j.modules
  BY PlaceOK
<1>2. PICK n \in DOMAIN j.modules, i \in Nat \ {0}, S \in Nat, C \in Nat :
         n = x.mod /\ i = x.at /\ S = Size(j, n) /\ C = Len(Comms(j, n))
  BY <1>1, ModuleData, CommsSeq DEF ControlOK
<1>3. 1 + S + 1 = 2 + S
  BY <1>2
<1>5. ControlOK(j, r, y)
  BY <1>2, ModulesFrom1 DEF ControlOK, Fields, Phases
<1>6. MapAt(j, M, y) = M[x.mod][2 + Size(j, x.mod)]
  BY <1>2, <1>3 DEF MapAt, Place, Fields
<1>7. Point(j, y) = EndPoint(j, x.mod)
  BY <1>2 DEF Point, Fields
<1>8. \A st : StorageOK(j, r, x, st) => StorageOK(j, r, y, st)
  <2>1. x.mod = y.mod /\ Registering(j, y) = Registering(j, x) /\ Deployed(j, x) <= Deployed(j, y)
    BY <1>2 DEF Fields, Registering, Deployed, ControlOK
  <2> QED
    BY <1>5, <2>1, StorageKept
<1> QED
  BY <1>5, <1>6, <1>7, <1>8 DEF Moved

\* The communicator of a route.
LEMMA MoveRoute ==
    ASSUME NEW j \in Jobs, NEW M, Canon(j, M), NEW r, NEW x, ControlOK(j, r, x), NEW y,
           x.pc = "route",
           x.at <= Len(Comms(j, x.mod)),
           Fields(y, "route", x.mod, x.at + 1, x.load, x.order)
    PROVE  Moved(j, M, r, x, y, Ask(j, MapAt(j, M, x), RankKey(Comms(j, x.mod)[x.at])), Point(j, x))
<1>1. x.mod \in DOMAIN j.modules
  BY PlaceOK
<1>2. PICK n \in DOMAIN j.modules, i \in Nat \ {0}, S \in Nat, C \in Nat :
         n = x.mod /\ i = x.at /\ S = Size(j, n) /\ C = Len(Comms(j, n))
  BY <1>1, ModuleData, CommsSeq DEF ControlOK
<1>3. M[n][2 + S + i] = Ask(j, M[n][1 + S + i], RankKey(Comms(j, n)[i])) /\ 1 + S + (i + 1) = 2 + S + i
  <2>1. i \in 1 .. Len(Comms(j, n)) /\ 1 + S + (i + 1) = 2 + S + i
    BY <1>2
  <2>2. \A e \in 1 .. Len(Comms(j, n)) :
            M[n][2 + Size(j, n) + e] = Ask(j, M[n][1 + Size(j, n) + e], RankKey(Comms(j, n)[e]))
    BY PlacesOf
  <2>3. M[n][2 + Size(j, n) + i] = Ask(j, M[n][1 + Size(j, n) + i], RankKey(Comms(j, n)[i]))
    BY <2>1, <2>2
  <2> QED
    BY <1>2, <2>1, <2>3
<1>5. ControlOK(j, r, y)
  BY <1>2, ModulesFrom1 DEF ControlOK, Fields, Phases
<1>6. MapAt(j, M, y) = Ask(j, MapAt(j, M, x), RankKey(Comms(j, x.mod)[x.at]))
  BY <1>2, <1>3 DEF MapAt, Place, Fields
<1>7. Point(j, y) = Point(j, x)
  BY <1>2 DEF Point, Fields
<1>8. \A st : StorageOK(j, r, x, st) => StorageOK(j, r, y, st)
  <2>1. x.mod = y.mod /\ Registering(j, y) = Registering(j, x) /\ Deployed(j, x) <= Deployed(j, y)
    BY <1>2 DEF Fields, Registering, Deployed, ControlOK
  <2> QED
    BY <1>5, <2>1, StorageKept
<1> QED
  BY <1>5, <1>6, <1>7, <1>8 DEF Moved

\* The last module is deployed.
LEMMA MoveDone ==
    ASSUME NEW j \in Jobs, NEW M, Canon(j, M), NEW r, NEW x, ControlOK(j, r, x), NEW y,
           x.pc = "route",
           x.at > Len(Comms(j, x.mod)),
           ~(x.mod < Len(j.modules)),
           Fields(y, "done", x.mod, 1, x.load, x.order)
    PROVE  Moved(j, M, r, x, y, IF j.gather THEN MapAt(j, M, x) ELSE Ask(j, MapAt(j, M, x), RankKey({0})), Point(j, x))
<1>1. x.mod \in DOMAIN j.modules
  BY PlaceOK
<1>2. PICK n \in DOMAIN j.modules, i \in Nat \ {0}, S \in Nat, C \in Nat :
         n = x.mod /\ i = x.at /\ S = Size(j, n) /\ C = Len(Comms(j, n))
  BY <1>1, ModuleData, CommsSeq DEF ControlOK
<1>3. i = C + 1 /\ 1 + S + i = 2 + S + C
  <2>0. x.at <= Len(Comms(j, x.mod)) + 1
    BY DEF ControlOK
  <2>1. i <= C + 1 /\ i > C
    BY <1>2, <2>0
  <2> QED
    BY <1>2, <2>1
<1>4. M[n][EndOf(j, n)] = IF j.gather THEN M[n][2 + S + C] ELSE Ask(j, M[n][2 + S + C], RankKey({0}))
  BY <1>2, PlacesOf
<1>5. ControlOK(j, r, y)
  BY <1>2, ModulesFrom1 DEF ControlOK, Fields, Phases
<1>6. MapAt(j, M, y) = IF j.gather THEN MapAt(j, M, x) ELSE Ask(j, MapAt(j, M, x), RankKey({0}))
  BY <1>2, <1>3, <1>4 DEF MapAt, Place, Fields
<1>7. Point(j, y) = Point(j, x)
  BY <1>2, ModulesFrom1 DEF Point, Fields, EndPoint
<1>8. \A st : StorageOK(j, r, x, st) => StorageOK(j, r, y, st)
  <2>1. x.mod = y.mod /\ Registering(j, y) = Registering(j, x) /\ Deployed(j, x) <= Deployed(j, y)
    BY <1>2 DEF Fields, Registering, Deployed, ControlOK
  <2> QED
    BY <1>5, <2>1, StorageKept
<1> QED
  BY <1>5, <1>6, <1>7, <1>8 DEF Moved

\* A module is deployed, and the next one's init begins.
LEMMA MoveNextModule ==
    ASSUME NEW j \in Jobs, NEW M, Canon(j, M), NEW r, NEW x, ControlOK(j, r, x), NEW y,
           x.pc = "route", x.at > Len(Comms(j, x.mod)), x.mod < Len(j.modules), NEW order,
           Fields(y, "register", x.mod + 1, 1, x.load, order)
    PROVE  Moved(j, M, r, x, y,
                 IF j.gather THEN MapAt(j, M, x) ELSE Ask(j, MapAt(j, M, x), RankKey({0})),
                 Point(j, x))
<1>1. x.mod \in DOMAIN j.modules
  BY PlaceOK
<1>2. PICK n \in DOMAIN j.modules, i \in Nat \ {0}, S \in Nat, C \in Nat :
         n = x.mod /\ i = x.at /\ S = Size(j, n) /\ C = Len(Comms(j, n))
  BY <1>1, ModuleData, CommsSeq DEF ControlOK
<1>3. i = C + 1 /\ 1 + S + i = 2 + S + C
  <2>0. x.at <= Len(Comms(j, x.mod)) + 1
    BY DEF ControlOK
  <2>1. i <= C + 1 /\ i > C
    BY <1>2, <2>0
  <2> QED
    BY <1>2, <2>1
<1>4. n + 1 \in DOMAIN j.modules
  BY <1>2, ModulesFrom1, ModuleData
<1>5. Size(j, n + 1) \in Nat
  BY <1>4, ModuleData
<1>6. M[n + 1][0] = IF j.gather THEN M[n][2 + S + C] ELSE Ask(j, M[n][2 + S + C], RankKey({0}))
  <2>1. M[n + 1][0] = M[n][EndOf(j, n)]
    BY <1>4 DEF Canon
  <2> QED
    BY <1>2, <2>1, PlacesOf
<1>7. ControlOK(j, r, y)
  BY <1>2, <1>4, <1>5, ModulesFrom1 DEF ControlOK, Fields, Phases
<1>8. MapAt(j, M, y) = IF j.gather THEN MapAt(j, M, x) ELSE Ask(j, MapAt(j, M, x), RankKey({0}))
  <2>1. MapAt(j, M, x) = M[n][2 + S + C]
    BY <1>2, <1>3 DEF MapAt, Place
  <2>2. MapAt(j, M, y) = M[n + 1][0]
    BY <1>2 DEF MapAt, Place, Fields
  <2> QED
    BY <1>6, <2>1, <2>2
<1>9. Point(j, y) = Point(j, x)
  BY <1>2 DEF Point, Fields, EndPoint
<1>10. ASSUME NEW st, StorageOK(j, r, x, st) PROVE StorageOK(j, r, y, st)
  <2>1. Deployed(j, y) = 0 /\ Registering(j, y) = 0
    BY DEF Fields, Deployed, Registering
  <2>2. DOMAIN st = {"dist", "value"} /\ st.dist \subseteq ToSet(j.stored)
    BY <1>10 DEF StorageOK
  <2> QED
    BY <2>1, <2>2 DEF StorageOK
<1> QED
  BY <1>7, <1>8, <1>9, <1>10 DEF Moved

\* Asking adds a tag and keeps the others.
LEMMA AskExt ==
    ASSUME NEW j, NEW t, NEW k
    PROVE  Ext(t, Ask(j, t, k)) /\ k \in DOMAIN Ask(j, t, k).tag
<1>1. CASE k \in DOMAIN t.tag
  BY <1>1, AskKnown DEF Ext
<1>2. CASE k \notin DOMAIN t.tag
  <2>1. PICK u, w : Ask(j, t, k) = [tag |-> Put(t.tag, k, u), taken |-> w]
    BY <1>2 DEF Ask
  <2>2. Ask(j, t, k).tag = Put(t.tag, k, u)
    BY <2>1
  <2> QED
    BY <1>2, <2>2 DEF Ext, Put
<1> QED
  BY <1>1, <1>2

\* A rank moves and no tag is made.
LEMMA KeepRank ==
    ASSUME NEW j, NEW M, NEW r, NEW x, NEW y, NEW t, NEW f, NEW c, NEW st, NEW b,
           RankOK(j, M, r, x, t, f, c, st), Moved(j, M, r, x, y, MapAt(j, M, x), b),
           x.pc \in Unsynced => y.pc \in Unsynced
    PROVE  RankOK(j, M, r, y, t, f, c, st)
<1>1. MapAt(j, M, y) = MapAt(j, M, x) /\ ControlOK(j, r, y) /\ StorageOK(j, r, y, st)
  BY DEF Moved, RankOK
<1>2. TagsOK(j, M, r, y, t) /\ RoutesIn(f, MapAt(j, M, y)) /\ CommsOK(t, c)
  BY <1>1 DEF RankOK, TagsOK
<1> QED
  BY <1>1, <1>2 DEF RankOK

\* A rank moves to where rank 0 has at least the tags it had.
LEMMA RoutesKept ==
    ASSUME NEW f, NEW s, NEW t, RoutesIn(f, s), Ext(s, t)
    PROVE  RoutesIn(f, t)
  BY DEF RoutesIn, Ext

\* A rank moves and makes the tag of a rank set, or finds it.
LEMMA AskRank ==
    ASSUME NEW j \in Jobs, NEW M, Canon(j, M), NEW r, NEW x, NEW y, NEW t, NEW f, NEW c, NEW d,
           NEW st, NEW b, NEW S, RankKey(S) \in KeysOf(j),
           RankOK(j, M, r, x, t, f, c, st), x.pc \notin Unsynced,
           Moved(j, M, r, x, y, Ask(j, MapAt(j, M, x), RankKey(S)), b),
           DOMAIN d = {"mpi", "nccl", "sets"},
           d.nccl = c.nccl \/ d.nccl = PutNew(c.nccl, Ask(j, t, RankKey(S)).tag[RankKey(S)], S)
    PROVE  RankOK(j, M, r, y, Ask(j, t, RankKey(S)), f, d, st)
<1>1. PICK m \in TagMaps(j) : m = MapAt(j, M, x)
  BY PlaceOK DEF RankOK
<1>2. PICK k : k = RankKey(S)
  OBVIOUS
<1>3. PICK u : u = Ask(j, t, k)
  OBVIOUS
<1>4. MapAt(j, M, y) = Ask(j, m, k) /\ ControlOK(j, r, y) /\ StorageOK(j, r, y, st)
  BY <1>1, <1>2 DEF Moved, RankOK
<1>5. t = View(r, m)
  BY <1>1 DEF RankOK, TagsOK
<1>6. u = View(r, Ask(j, m, k))
  BY <1>2, <1>3, <1>5, AskView
<1>7. TagsOK(j, M, r, y, u)
  BY <1>4, <1>6 DEF TagsOK
<1>8. RoutesIn(f, MapAt(j, M, y))
  <2>1. Ext(m, Ask(j, m, k)) /\ RoutesIn(f, m)
    BY <1>1, AskExt DEF RankOK
  <2> QED
    BY <1>4, <2>1, RoutesKept
<1>9. CommsOK(u, d)
  <2>1. Ext(t, u) /\ k \in DOMAIN u.tag
    BY <1>3, AskExt
  <2>2. \A v \in DOMAIN c.nccl : RankKey(c.nccl[v]) \in DOMAIN t.tag /\ t.tag[RankKey(c.nccl[v])] = v
    BY DEF RankOK, CommsOK
  <2>3. \A v \in DOMAIN c.nccl : RankKey(c.nccl[v]) \in DOMAIN u.tag /\ u.tag[RankKey(c.nccl[v])] = v
    BY <2>1, <2>2 DEF Ext
  <2>4. ASSUME NEW v \in DOMAIN d.nccl
        PROVE  RankKey(d.nccl[v]) \in DOMAIN u.tag /\ u.tag[RankKey(d.nccl[v])] = v
    <3>1. CASE d.nccl = c.nccl
      BY <2>3, <3>1
    <3>2. CASE d.nccl # c.nccl
      <4>1. d.nccl = Put(c.nccl, u.tag[k], S)
        BY <1>2, <1>3, <3>2 DEF PutNew
      <4>2. CASE v = u.tag[k]
        <5>1. d.nccl[v] = S
          BY <4>1, <4>2 DEF Put
        <5> QED
          BY <1>2, <2>1, <4>2, <5>1
      <4>3. CASE v # u.tag[k]
        <5>1. v \in DOMAIN c.nccl /\ d.nccl[v] = c.nccl[v]
          BY <4>1, <4>3 DEF Put
        <5> QED
          BY <2>3, <5>1
      <4> QED
        BY <4>2, <4>3
    <3> QED
      BY <3>1, <3>2
  <2> QED
    BY <2>4 DEF CommsOK
<1> QED
  BY <1>2, <1>3, <1>4, <1>7, <1>8, <1>9 DEF RankOK

\* The tag of all ranks is known from fetchStart on, and where something is
\* distributed from the start.
LEMMA RanksKnown ==
    ASSUME NEW j \in Jobs, NEW M, Canon(j, M), NEW r, NEW x, ControlOK(j, r, x),
           x.pc \in {"trace_load", "master_load", "fetch_load", "param_load"}
    PROVE  Ask(j, MapAt(j, M, x), RankKey(Ranks)) = MapAt(j, M, x)
<1>1. PICK n \in DOMAIN j.modules : n = x.mod
  BY PlaceOK
<1>2. RankKey(Ranks) \in DOMAIN MapAt(j, M, x).tag
  <2>1. CASE x.pc = "trace_load"
    <3>1. j.stored # << >> /\ MapAt(j, M, x) = M[n][0]
      BY <1>1, <2>1 DEF ControlOK, MapAt, Place
    <3>2. Ext(StartMap(j), M[n][0])
      <4>1. 1 \in DOMAIN j.modules /\ 1 <= n
        BY ModulesFrom1, ModuleData
      <4>2. Ext(M[1][0], M[n][0])
        BY <4>1, CanonExtModules
      <4> QED
        BY <4>2 DEF Canon
    <3> QED
      BY <3>1, <3>2, StartMapOK DEF Ext
  <2>2. CASE x.pc \in {"master_load", "fetch_load", "param_load"}
    <3>1. PICK o \in Nat : o = Place(j, x) /\ MapAt(j, M, x) = M[n][o] /\ 1 <= o
      <4>1. Place(j, x) \in Nat /\ MapAt(j, M, x) = M[n][Place(j, x)]
        BY <1>1, <2>2, PlaceOK DEF MapAt
      <4>2. 1 <= Place(j, x)
        BY <2>2 DEF Place, ControlOK
      <4> QED
        BY <4>1, <4>2
    <3>2. 1 \in Nat /\ Ext(M[n][1], M[n][o])
      BY <3>1, CanonExt
    <3>3. RankKey(Ranks) \in DOMAIN M[n][1].tag
      BY PlacesOf, AskExt
    <3> QED
      BY <3>1, <3>2, <3>3 DEF Ext
  <2> QED
    BY <2>1, <2>2
<1> QED
  BY <1>2, AskKnown

\* The tags of the ranks that use a parameter are known when gradients are registered.
LEMMA UsersKnown ==
    ASSUME NEW j \in Jobs, NEW M, Canon(j, M), NEW r, NEW x, ControlOK(j, r, x),
           x.pc = "zero", x.at <= Size(j, x.mod), UsersOf(j, x.mod, x.at) # {}
    PROVE  Ask(j, MapAt(j, M, x), RankKey(UsersOf(j, x.mod, x.at))) = MapAt(j, M, x)
<1>1. PICK n \in DOMAIN j.modules : n = x.mod
  BY PlaceOK
<1>2. PICK S \in Nat, i \in Nat \ {0} : S = Size(j, n) /\ i = x.at /\ i \in 1 .. S
  <2>1. Size(j, n) \in Nat /\ x.at \in Nat \ {0} /\ x.at <= Size(j, n)
    BY <1>1, ModuleData DEF ControlOK
  <2> QED
    BY <2>1
<1>3. MapAt(j, M, x) = M[n][2 + S]
  BY <1>1, <1>2 DEF MapAt, Place
<1>4. RankKey(UsersOf(j, n, i)) \in DOMAIN M[n][2 + i].tag
  <2>1. M[n][2 + i] = Ask(j, M[n][1 + i], RankKey(UsersOf(j, n, i)))
    BY <1>1, <1>2, PlacesOf
  <2> QED
    BY <2>1, AskExt
<1>5. Ext(M[n][2 + i], M[n][2 + S])
  <2>1. 2 + i \in Nat /\ 2 + S \in Nat /\ 2 + i <= 2 + S
    BY <1>2
  <2> QED
    BY <2>1, CanonExt
<1>6. RankKey(UsersOf(j, n, i)) \in DOMAIN MapAt(j, M, x).tag
  BY <1>3, <1>4, <1>5 DEF Ext
<1> QED
  BY <1>1, <1>2, <1>6, AskKnown
-----------------------------------------------------------------------------
(* Steps of the ranks. *)

\* What a step does not do to a rank, and that a rank is right after it.
Same(q) ==
    /\ proc'[q] = proc[q] /\ tagmap'[q] = tagmap[q] /\ routes'[q] = routes[q]
    /\ comms'[q] = comms[q] /\ storage'[q] = storage[q]

OkAfter(M, q) == RankOK(job, M, q, proc'[q], tagmap'[q], routes'[q], comms'[q], storage'[q])

Tables ==
    /\ job' = job
    /\ DOMAIN proc' = Ranks /\ DOMAIN tagmap' = Ranks /\ DOMAIN routes' = Ranks
    /\ DOMAIN comms' = Ranks /\ DOMAIN storage' = Ranks

\* A rank that does nothing stays right.
LEMMA OthersOK ==
    ASSUME NEW M, Core(M), NEW q \in Ranks, Same(q)
    PROVE  OkAfter(M, q) /\ Point(job, proc'[q]) = Point(job, proc[q])
  BY DEF Core, Same, OkAfter

\* Ranks move, and none takes part in a broadcast.
LEMMA Silent ==
    ASSUME NEW M, Core(M), Tables, inbox' = inbox,
           \A q \in Ranks :
               Same(q) \/ (OkAfter(M, q) /\ Point(job, proc'[q]) = Point(job, proc[q]))
    PROVE  Core(M)'
<1>1. \A q \in Ranks : OkAfter(M, q) /\ Point(job, proc'[q]) = Point(job, proc[q])
  BY OthersOK
<1>2. \A q \in Ranks : RankOK(job', M, q, proc'[q], tagmap'[q], routes'[q], comms'[q], storage'[q])
  BY <1>1 DEF OkAfter, Tables
<1>3. 0 \in Ranks
  BY Constants
<1>4. \A q \in Ranks \ {0} : Path(job', M, inbox'[q], Point(job', proc'[q]), Point(job', proc'[0]))
  <2> SUFFICES ASSUME NEW q \in Ranks \ {0}
               PROVE  Path(job', M, inbox'[q], Point(job', proc'[q]), Point(job', proc'[0]))
    OBVIOUS
  <2>1. Path(job, M, inbox[q], Point(job, proc[q]), Point(job, proc[0]))
    BY DEF Core
  <2> QED
    BY <1>1, <1>3, <2>1 DEF Tables
<1> QED
  BY <1>2, <1>4 DEF Core, Tables

\* The message rank r sees in a broadcast.
Msg(r, kind, val) == IF r = 0 THEN [kind |-> kind, val |-> val] ELSE Head(inbox[r])

\* Rank r gets the message that was meant for where it is.
LEMMA Got ==
    ASSUME NEW M, Core(M), NEW r \in Ranks \ {0}, NEW kind, NEW val, Bcast(r, kind, val)
    PROVE  /\ MsgOK(job, M, Point(job, proc[r]), Msg(r, kind, val))
           /\ Msg(r, kind, val).kind = kind /\ Received(r, val) = Msg(r, kind, val).val
           /\ Path(job, M, Tail(inbox[r]), After(job, Point(job, proc[r]), Msg(r, kind, val)),
                   Point(job, proc[0]))
<1>1. Path(job, M, inbox[r], Point(job, proc[r]), Point(job, proc[0]))
  BY DEF Core
<1>2. inbox[r] # << >> /\ Head(inbox[r]).kind = kind
  BY DEF Bcast
<1>3. Msg(r, kind, val) = Head(inbox[r]) /\ Received(r, val) = Head(inbox[r]).val
  BY DEF Msg, Received
<1> QED
  BY <1>1, <1>2, <1>3, PathTake

\* One rank takes part in a broadcast.
LEMMA Speaks ==
    ASSUME NEW M, Core(M), Tables, NEW r \in Ranks, NEW kind, NEW val, Bcast(r, kind, val),
           \A q \in Ranks \ {r} : Same(q), OkAfter(M, r),
           r = 0 => MsgOK(job, M, Point(job, proc[0]), [kind |-> kind, val |-> val]),
           Point(job, proc'[r]) = After(job, Point(job, proc[r]), Msg(r, kind, val))
    PROVE  Core(M)'
<1>1. \A q \in Ranks \ {r} : OkAfter(M, q) /\ Point(job, proc'[q]) = Point(job, proc[q])
  BY OthersOK
<1>2. \A q \in Ranks : RankOK(job', M, q, proc'[q], tagmap'[q], routes'[q], comms'[q], storage'[q])
  BY <1>1 DEF OkAfter, Tables
<1>3. 0 \in Ranks /\ DOMAIN inbox = Ranks
  BY Constants DEF Core
<1>4. DOMAIN inbox' = Ranks
  BY <1>3 DEF Bcast
<1>5. ASSUME NEW q \in Ranks \ {0}
      PROVE  Path(job', M, inbox'[q], Point(job', proc'[q]), Point(job', proc'[0]))
  <2>1. Path(job, M, inbox[q], Point(job, proc[q]), Point(job, proc[0])) /\ job' = job
    BY DEF Core, Tables
  <2>2. CASE r = 0
    <3>1. inbox'[q] = Append(inbox[q], Msg(r, kind, val))
      BY <2>2, <1>3 DEF Bcast, Msg
    <3>2. MsgOK(job, M, Point(job, proc[0]), Msg(r, kind, val))
      BY <2>2 DEF Msg
    <3>3. Path(job, M, inbox'[q], Point(job, proc[q]), After(job, Point(job, proc[0]), Msg(r, kind, val)))
      BY <2>1, <3>1, <3>2, PathSend
    <3>4. Point(job, proc'[q]) = Point(job, proc[q])
      BY <1>1, <2>2
    <3> QED
      BY <2>1, <2>2, <3>3, <3>4
  <2>3. CASE r # 0 /\ q = r
    <3>1. inbox'[q] = Tail(inbox[r])
      BY <2>3, <1>3 DEF Bcast
    <3>2. Path(job, M, Tail(inbox[r]), After(job, Point(job, proc[r]), Msg(r, kind, val)),
               Point(job, proc[0]))
      BY <2>3, Got
    <3>3. Point(job, proc'[0]) = Point(job, proc[0])
      BY <1>1, <1>3, <2>3
    <3> QED
      BY <2>1, <2>3, <3>1, <3>2, <3>3
  <2>4. CASE r # 0 /\ q # r
    <3>1. inbox'[q] = inbox[q]
      BY <2>4, <1>3 DEF Bcast
    <3>2. Point(job, proc'[0]) = Point(job, proc[0]) /\ Point(job, proc'[q]) = Point(job, proc[q])
      BY <1>1, <1>3, <2>4
    <3> QED
      BY <2>1, <3>1, <3>2
  <2> QED
    BY <2>2, <2>3, <2>4
<1> QED
  BY <1>2, <1>4, <1>5 DEF Core, Tables

\* Rank r goes where the fields say; the others stay.
Goes(r, pc, n, i, load, order) ==
    /\ DOMAIN proc' = Ranks /\ \A q \in Ranks \ {r} : proc'[q] = proc[q]
    /\ Fields(proc'[r], pc, n, i, load, order)

\* Rank r enters a phase.
LEMMA EnterGoes ==
    ASSUME NEW M, Core(M), NEW r \in Ranks, NEW phase, proc' = Enter(r, phase)
    PROVE  Goes(r, phase, proc[r].mod, 1, proc[r].load, proc[r].order)
<1>1. DOMAIN proc = Ranks /\ DOMAIN proc[r] = {"pc", "mod", "at", "load", "order"}
  BY DEF Core, RankOK, ControlOK
<1> QED
  BY <1>1, Zenon DEF Enter, Goes, Fields

\* Rank r goes on to its next element.
LEMMA AdvanceGoes ==
    ASSUME NEW M, Core(M), NEW r \in Ranks, proc' = Advance(r)
    PROVE  Goes(r, proc[r].pc, proc[r].mod, proc[r].at + 1, proc[r].load, proc[r].order)
<1>1. DOMAIN proc = Ranks /\ DOMAIN proc[r] = {"pc", "mod", "at", "load", "order"}
  BY DEF Core, RankOK, ControlOK
<1> QED
  BY <1>1, Zenon DEF Advance, Goes, Fields

\* Rank r moves, and nothing else happens.
LEMMA Walks ==
    ASSUME NEW M, Core(M), NEW r \in Ranks, DOMAIN proc' = Ranks,
           \A q \in Ranks \ {r} : proc'[q] = proc[q],
           Moved(job, M, r, proc[r], proc'[r], MapAt(job, M, proc[r]), Point(job, proc[r])),
           proc[r].pc \notin Unsynced,
           UNCHANGED <<job, inbox, tagmap, comms, routes, storage>>
    PROVE  Core(M)'
<1>1. OkAfter(M, r)
  <2>1. RankOK(job, M, r, proc[r], tagmap[r], routes[r], comms[r], storage[r])
    BY DEF Core
  <2>2. RankOK(job, M, r, proc'[r], tagmap[r], routes[r], comms[r], storage[r])
    BY <2>1, KeepRank
  <2> QED
    BY <2>2 DEF OkAfter
<1>2. Point(job, proc'[r]) = Point(job, proc[r])
  BY DEF Moved
<1>3. \A q \in Ranks \ {r} : Same(q)
  BY DEF Same
<1>4. Tables
  BY DEF Tables, Core
<1> QED
  BY <1>1, <1>2, <1>3, <1>4, Silent
\* The parameters are stored.
LEMMA StoredCore ==
    ASSUME NEW M, job \in Jobs, Canon(job, M), Core(M), NEW r \in Ranks, Stored(r)
    PROVE  Core(M)'
<1>1. ControlOK(job, r, proc[r])
  BY DEF Core, RankOK
<1>2. /\ proc[r].pc = "store"
      /\ proc[r].at > Len(job.stored)
      /\ UNCHANGED <<job, inbox, tagmap, comms, routes, storage>>
  BY DEF Stored, Running
<1>3. Goes(r, "register", proc[r].mod, 1, proc[r].load, proc[r].order)
  BY <1>2, EnterGoes DEF Stored
<1>4. Moved(job, M, r, proc[r], proc'[r], MapAt(job, M, proc[r]), Point(job, proc[r]))
  BY <1>1, <1>2, <1>3, MoveStored DEF Goes
<1> QED
  BY <1>2, <1>3, <1>4, Walks DEF Goes, Unsynced

\* The parameters are registered.
LEMMA RegisteredCore ==
    ASSUME NEW M, job \in Jobs, Canon(job, M), Core(M), NEW r \in Ranks, Registered(r)
    PROVE  Core(M)'
<1>1. ControlOK(job, r, proc[r])
  BY DEF Core, RankOK
<1>2. /\ proc[r].pc = "register"
      /\ proc[r].at > Size(job, proc[r].mod)
      /\ UNCHANGED <<job, inbox, tagmap, comms, routes, storage>>
  BY DEF Registered, Running, Module, Size
<1>3. Goes(r, "trace", proc[r].mod, 1, proc[r].load, proc[r].order)
  BY <1>2, EnterGoes DEF Registered
<1>4. Moved(job, M, r, proc[r], proc'[r], MapAt(job, M, proc[r]), Point(job, proc[r]))
  BY <1>1, <1>2, <1>3, MoveRegistered DEF Goes
<1> QED
  BY <1>2, <1>3, <1>4, Walks DEF Goes, Unsynced

\* A parameter nobody uses.
LEMMA SkipParamCore ==
    ASSUME NEW M, job \in Jobs, Canon(job, M), Core(M), NEW r \in Ranks, SkipParam(r)
    PROVE  Core(M)'
<1>1. ControlOK(job, r, proc[r])
  BY DEF Core, RankOK
<1>2. /\ proc[r].pc = "param"
      /\ proc[r].at <= Size(job, proc[r].mod) /\ UsersOf(job, proc[r].mod, proc[r].at) = {}
      /\ UNCHANGED <<job, inbox, tagmap, comms, routes, storage>>
  BY <1>1 DEF SkipParam, Running, InLoop, SetHere, Here, Module, Size, UsersOf, ControlOK
<1>3. Goes(r, "param", proc[r].mod, proc[r].at + 1, proc[r].load, proc[r].order)
  BY <1>2, AdvanceGoes DEF SkipParam
<1>4. Moved(job, M, r, proc[r], proc'[r], MapAt(job, M, proc[r]), Point(job, proc[r]))
  BY <1>1, <1>2, <1>3, MoveSkip DEF Goes
<1> QED
  BY <1>2, <1>3, <1>4, Walks DEF Goes, Unsynced

\* A gradient of others.
LEMMA SkipGradCore ==
    ASSUME NEW M, job \in Jobs, Canon(job, M), Core(M), NEW r \in Ranks, SkipGrad(r)
    PROVE  Core(M)'
<1>1. ControlOK(job, r, proc[r])
  BY DEF Core, RankOK
<1>2. /\ proc[r].pc = "zero"
      /\ proc[r].at <= Size(job, proc[r].mod)
      /\ UNCHANGED <<job, inbox, tagmap, comms, routes, storage>>
  BY <1>1 DEF SkipGrad, Running, InLoop, SetHere, Here, Module, Size, UsersOf, ControlOK
<1>3. Goes(r, "zero", proc[r].mod, proc[r].at + 1, proc[r].load, proc[r].order)
  BY <1>2, AdvanceGoes DEF SkipGrad
<1>4. Moved(job, M, r, proc[r], proc'[r], MapAt(job, M, proc[r]), Point(job, proc[r]))
  BY <1>1, <1>2, <1>3, MoveGrad DEF Goes
<1> QED
  BY <1>2, <1>3, <1>4, Walks DEF Goes, Unsynced

\* All gradients are registered.
LEMMA GradsDoneCore ==
    ASSUME NEW M, job \in Jobs, Canon(job, M), Core(M), NEW r \in Ranks, GradsDone(r)
    PROVE  Core(M)'
<1>1. ControlOK(job, r, proc[r])
  BY DEF Core, RankOK
<1>2. /\ proc[r].pc = "zero"
      /\ UNCHANGED <<job, inbox, tagmap, comms, routes, storage>>
  BY DEF GradsDone, Running
<1>3. Goes(r, "sync2", proc[r].mod, 1, proc[r].load, proc[r].order)
  BY <1>2, EnterGoes DEF GradsDone
<1>4. Moved(job, M, r, proc[r], proc'[r], MapAt(job, M, proc[r]), Point(job, proc[r]))
  BY <1>1, <1>2, <1>3, MoveGradsDone DEF Goes
<1> QED
  BY <1>2, <1>3, <1>4, Walks DEF Goes, Unsynced

\* All parameters are deployed.
LEMMA ParamsDoneCore ==
    ASSUME NEW M, job \in Jobs, Canon(job, M), Core(M), NEW r \in Ranks, ParamsDone(r)
    PROVE  Core(M)'
<1>1. ControlOK(job, r, proc[r])
  BY DEF Core, RankOK
<1>2. /\ proc[r].pc = "param" /\ proc[r].at > Size(job, proc[r].mod)
      /\ UNCHANGED <<job, inbox, tagmap, comms, routes, storage>>
  BY <1>1 DEF ParamsDone, Running, Size, ControlOK
<1>3. PICK phase \in {"zero", "sync2"} : proc' = Enter(r, phase)
  <2>1. CASE job.zero
    BY <2>1 DEF ParamsDone
  <2>2. CASE ~job.zero
    BY <2>2 DEF ParamsDone
  <2> QED
    BY <2>1, <2>2
<1>4. Goes(r, phase, proc[r].mod, 1, proc[r].load, proc[r].order)
  BY <1>3, EnterGoes
<1>5. Moved(job, M, r, proc[r], proc'[r], MapAt(job, M, proc[r]), Point(job, proc[r]))
  BY <1>1, <1>2, <1>4, MoveParamsDone DEF Goes
<1> QED
  BY <1>2, <1>4, <1>5, Walks DEF Goes, Unsynced

\* A parameter is traced, or has to be loaded for that.
LEMMA TraceCore ==
    ASSUME NEW M, job \in Jobs, Canon(job, M), Core(M), NEW r \in Ranks, Trace(r)
    PROVE  Core(M)'
<1>1. ControlOK(job, r, proc[r]) /\ storage[r].dist \subseteq ToSet(job.stored)
  BY DEF Core, RankOK, StorageOK
<1>2. /\ proc[r].pc = "trace" /\ proc[r].at <= Size(job, proc[r].mod)
      /\ UNCHANGED <<job, inbox, tagmap, comms, routes, storage>>
  BY DEF Trace, Running, Module, Size
<1>3. CASE Module(r).params[proc[r].at] \in storage[r].dist
  <2>1. PICK p : p = Module(r).params[proc[r].at]
    OBVIOUS
  <2>2. proc' = [proc EXCEPT ![r].pc = "trace_load", ![r].load = p]
    BY <1>3, <2>1 DEF Trace
  <2>3. job.stored # << >>
    BY <1>1, <1>3 DEF ToSet
  <2>4. DOMAIN proc = Ranks /\ DOMAIN proc[r] = {"pc", "mod", "at", "load", "order"}
    BY <1>1 DEF Core, ControlOK
  <2>5. Goes(r, "trace_load", proc[r].mod, proc[r].at, p, proc[r].order)
    BY <2>2, <2>4, Zenon DEF Goes, Fields
  <2>6. Moved(job, M, r, proc[r], proc'[r], MapAt(job, M, proc[r]), Point(job, proc[r]))
    BY <1>1, <1>2, <2>3, <2>5, MoveTraceLoad DEF Goes
  <2> QED
    BY <1>2, <2>5, <2>6, Walks DEF Goes, Unsynced
<1>4. CASE Module(r).params[proc[r].at] \notin storage[r].dist
  <2>1. Goes(r, "trace", proc[r].mod, proc[r].at + 1, proc[r].load, proc[r].order)
    BY <1>2, <1>4, AdvanceGoes DEF Trace
  <2>2. Moved(job, M, r, proc[r], proc'[r], MapAt(job, M, proc[r]), Point(job, proc[r]))
    BY <1>1, <1>2, <2>1, MoveTrace DEF Goes
  <2> QED
    BY <1>2, <2>1, <2>2, Walks DEF Goes, Unsynced
<1> QED
  BY <1>3, <1>4
-----------------------------------------------------------------------------
(* Steps in which a rank takes part in a broadcast. *)

\* A rank registers a parameter.
LEMMA MoveRegister ==
    ASSUME NEW j \in Jobs, NEW M, Canon(j, M), NEW r, NEW x, ControlOK(j, r, x), NEW y,
           x.pc = "register", x.at <= Size(j, x.mod),
           Fields(y, "register", x.mod, x.at + 1, x.load, x.order)
    PROVE  /\ ControlOK(j, r, y) /\ MapAt(j, M, y) = MapAt(j, M, x)
           /\ Point(j, x) = <<x.mod, "id", x.at>>
           /\ Point(j, y) = RegisterPoint(j, x.mod, x.at + 1)
<1>1. x.mod \in DOMAIN j.modules
  BY PlaceOK
<1>2. PICK n \in DOMAIN j.modules, i \in Nat \ {0}, S \in Nat :
         n = x.mod /\ i = x.at /\ S = Size(j, n)
  BY <1>1, ModuleData DEF ControlOK
<1>3. ControlOK(j, r, y)
  BY <1>2, ModulesFrom1 DEF ControlOK, Fields, Phases
<1>4. MapAt(j, M, y) = MapAt(j, M, x)
  BY DEF MapAt, Place, Fields
<1>5. Point(j, x) = <<x.mod, "id", x.at>> /\ Point(j, y) = RegisterPoint(j, x.mod, x.at + 1)
  BY DEF Point, Fields, RegisterPoint
<1> QED
  BY <1>3, <1>4, <1>5

\* What it has then.
Adds(j, r, p, st, su) ==
    /\ DOMAIN su = {"dist", "value"}
    /\ su.dist = IF p \in ToSet(j.stored) THEN st.dist \union {p} ELSE st.dist
    /\ su.value = Put(st.value, p, Tensor(p, r))

\* Storage is right for the parameters registered so far.
LEMMA StorageRegister ==
    ASSUME NEW j \in Jobs, NEW r, NEW x, ControlOK(j, r, x), NEW y, NEW st, NEW su, NEW p,
           x.pc = "register", x.at <= Size(j, x.mod), p = j.modules[x.mod].params[x.at],
           Fields(y, "register", x.mod, x.at + 1, x.load, x.order),
           StorageOK(j, r, x, st), Adds(j, r, p, st, su)
    PROVE  StorageOK(j, r, y, su)
<1>0. /\ DOMAIN su = {"dist", "value"} /\ su.value = Put(st.value, p, Tensor(p, r))
      /\ su.dist = IF p \in ToSet(j.stored) THEN st.dist \union {p} ELSE st.dist
  BY DEF Adds
<1>1. x.mod \in DOMAIN j.modules
  BY ModulesFrom1 DEF ControlOK
<1>2. PICK i \in Nat \ {0} : i = x.at
  BY DEF ControlOK
<1>3. /\ Deployed(j, x) = 0 /\ Registering(j, x) = i - 1 /\ Deployed(j, y) = 0
      /\ Registering(j, y) = i
  BY <1>2 DEF Deployed, Registering, Fields
<1>4. su.dist \subseteq ToSet(j.stored)
  BY <1>0 DEF StorageOK
<1>5. ASSUME NEW l \in 0 + 1 .. i, NEW q, q = j.modules[x.mod].params[l]
      PROVE  /\ q \in DOMAIN su.value /\ su.value[q] = Tensor(q, r)
             /\ q \in ToSet(j.stored) => q \in su.dist
  <2>1. CASE q = p
    BY <1>0, <2>1 DEF Put
  <2>2. CASE q # p
    <3>1. l \in 0 + 1 .. i - 1
      BY <1>2, <1>5, <2>2
    <3>2. /\ q \in DOMAIN st.value /\ st.value[q] = Tensor(q, r)
          /\ q \in ToSet(j.stored) => q \in st.dist
      BY <1>3, <1>5, <3>1 DEF StorageOK
    <3> QED
      BY <1>0, <2>2, <3>2 DEF Put
  <2> QED
    BY <2>1, <2>2
<1>6. y.mod = x.mod
  BY DEF Fields
<1> QED
  BY <1>0, <1>3, <1>4, <1>5, <1>6 DEF StorageOK

\* doRegisterParams on rank r.
LEMMA RegisterParamCore ==
    ASSUME NEW M, job \in Jobs, Canon(job, M), Core(M), NEW r \in Ranks, RegisterParam(r)
    PROVE  Core(M)'
<1>1. /\ RankOK(job, M, r, proc[r], tagmap[r], routes[r], comms[r], storage[r])
      /\ ControlOK(job, r, proc[r]) /\ StorageOK(job, r, proc[r], storage[r])
      /\ DOMAIN storage = Ranks
  BY DEF Core, RankOK
<1>2. /\ proc[r].pc = "register" /\ proc[r].at <= Size(job, proc[r].mod) /\ proc' = Advance(r)
      /\ UNCHANGED <<job, tagmap, comms, routes>>
  BY DEF RegisterParam, Running, Module, Size
<1>3. PICK p : p = job.modules[proc[r].mod].params[proc[r].at]
  OBVIOUS
<1>4. /\ Bcast(r, "id", job.id[0][p])
      /\ storage' = [storage EXCEPT
             ![r].dist = IF p \in ToSet(job.stored) THEN @ \union {p} ELSE @,
             ![r].value = Put(@, p, Tensor(p, r))]
  BY <1>3 DEF RegisterParam, Module
<1>5. Goes(r, "register", proc[r].mod, proc[r].at + 1, proc[r].load, proc[r].order)
  BY <1>2, AdvanceGoes
<1>6. /\ ControlOK(job, r, proc'[r]) /\ MapAt(job, M, proc'[r]) = MapAt(job, M, proc[r])
      /\ Point(job, proc[r]) = <<proc[r].mod, "id", proc[r].at>>
      /\ Point(job, proc'[r]) = RegisterPoint(job, proc[r].mod, proc[r].at + 1)
  BY <1>1, <1>2, <1>5, MoveRegister DEF Goes
<1>7. /\ DOMAIN storage' = Ranks /\ \A q \in Ranks \ {r} : storage'[q] = storage[q]
      /\ DOMAIN storage'[r] = {"dist", "value"}
      /\ storage'[r].dist = IF p \in ToSet(job.stored) THEN storage[r].dist \union {p} ELSE storage[r].dist
      /\ storage'[r].value = Put(storage[r].value, p, Tensor(p, r))
  <2>1. DOMAIN storage[r] = {"dist", "value"}
    BY <1>1 DEF StorageOK
  <2>2. PICK D : D = IF p \in ToSet(job.stored) THEN storage[r].dist \union {p} ELSE storage[r].dist
    OBVIOUS
  <2>3. PICK V : V = Put(storage[r].value, p, Tensor(p, r))
    OBVIOUS
  <2>4. storage' = [storage EXCEPT ![r].dist = D, ![r].value = V]
    BY <1>4, <2>2, <2>3
  <2>5. /\ DOMAIN storage' = Ranks /\ \A q \in Ranks \ {r} : storage'[q] = storage[q]
        /\ DOMAIN storage'[r] = {"dist", "value"}
        /\ storage'[r].dist = D /\ storage'[r].value = V
    BY <1>1, <2>1, <2>4, Zenon
  <2> QED
    BY <2>2, <2>3, <2>5
<1>8. StorageOK(job, r, proc'[r], storage'[r])
  <2>1. Adds(job, r, p, storage[r], storage'[r])
    BY <1>7 DEF Adds
  <2>2. Fields(proc'[r], "register", proc[r].mod, proc[r].at + 1, proc[r].load, proc[r].order)
    BY <1>5 DEF Goes
  <2> QED
    BY <1>1, <1>2, <1>3, <2>1, <2>2, StorageRegister
<1>9. OkAfter(M, r)
  <2>1. TagsOK(job, M, r, proc'[r], tagmap[r])
    <3>1. TagsOK(job, M, r, proc[r], tagmap[r]) /\ proc[r].pc \notin Unsynced
      BY <1>1, <1>2 DEF RankOK, Unsynced
    <3> QED
      BY <1>6, <3>1 DEF TagsOK
  <2> QED
    BY <1>1, <1>2, <1>6, <1>8, <2>1 DEF OkAfter, RankOK
<1>10. \A q \in Ranks \ {r} : Same(q)
  BY <1>2, <1>5, <1>7 DEF Same, Goes
<1>11. Tables
  BY <1>2, <1>5, <1>7 DEF Tables, Goes, Core
<1>12. MsgOK(job, M, Point(job, proc[r]), [kind |-> "id", val |-> job.id[0][p]])
  BY <1>6 DEF MsgOK
<1>13. Point(job, proc'[r]) = After(job, Point(job, proc[r]), Msg(r, "id", job.id[0][p]))
  BY <1>6 DEF After
<1> QED
  BY <1>4, <1>9, <1>10, <1>11, <1>12, <1>13, Speaks

\* The messages, by where they are sent.
LEMMA MsgAt ==
    ASSUME NEW j, NEW M, NEW b, NEW msg, MsgOK(j, M, b, msg)
    PROVE  /\ b[2] = "names" => msg.val = j.modules[b[1]].params
           /\ b[2] = "deployment" => RoutesIn(msg.val, M[b[1]][2])
           /\ b[2] = "sync" => msg.val = M[b[1]][2].taken
           /\ b[2] = "sync2" => msg.val = M[b[1]][2 + Size(j, b[1])].taken
           /\ b[2] = "value" => msg.val = Tensor(j.modules[b[1]].params[b[3]], 0)
  BY DEF MsgOK

\* The names of rank 0's trace.
LEMMA SyncDebugNameCore ==
    ASSUME NEW M, job \in Jobs, Canon(job, M), Core(M), NEW r \in Ranks, SyncDebugName(r)
    PROVE  Core(M)'
<1>1. /\ RankOK(job, M, r, proc[r], tagmap[r], routes[r], comms[r], storage[r])
      /\ ControlOK(job, r, proc[r]) /\ DOMAIN proc = Ranks
  BY DEF Core, RankOK
<1>2. PICK n, ps : n = proc[r].mod /\ ps = job.modules[n].params
  OBVIOUS
<1>3. /\ proc[r].pc = "trace" /\ Bcast(r, "names", ps)
      /\ proc' = [Enter(r, "fetchStart") EXCEPT ![r].order = Received(r, ps)]
      /\ UNCHANGED <<job, tagmap, comms, routes, storage>>
  BY <1>2 DEF SyncDebugName, Running, Module, OrderHere
<1>4. Point(job, proc[r]) = <<n, "names", 0>>
  BY <1>2, <1>3 DEF Point
<1>5. Received(r, ps) = ps
  <2>1. CASE r = 0
    BY <2>1 DEF Received
  <2>2. CASE r # 0
    <3>1. PICK msg, b : msg = Msg(r, "names", ps) /\ b = Point(job, proc[r])
      OBVIOUS
    <3>2. MsgOK(job, M, b, msg) /\ Received(r, ps) = msg.val /\ b[1] = n /\ b[2] = "names"
      BY <1>3, <1>4, <2>2, <3>1, Got
    <3>3. msg.val = job.modules[n].params
      BY <3>2, MsgAt
    <3> QED
      BY <1>2, <3>2, <3>3
  <2> QED
    BY <2>1, <2>2
<1>6. Goes(r, "fetchStart", proc[r].mod, 1, proc[r].load, ps)
  <2>1. DOMAIN proc[r] = {"pc", "mod", "at", "load", "order"}
    BY <1>1 DEF ControlOK
  <2>2. proc' = [Enter(r, "fetchStart") EXCEPT ![r].order = ps]
    BY <1>3, <1>5
  <2> QED
    BY <1>1, <2>1, <2>2, Zenon DEF Goes, Fields, Enter
<1>7. Moved(job, M, r, proc[r], proc'[r], MapAt(job, M, proc[r]), <<n, "fetch", 0>>)
  BY <1>1, <1>2, <1>3, <1>6, MoveNames DEF Goes
<1>8. OkAfter(M, r)
  <2>1. proc[r].pc \notin Unsynced
    BY <1>3 DEF Unsynced
  <2>2. RankOK(job, M, r, proc'[r], tagmap[r], routes[r], comms[r], storage[r])
    BY <1>1, <1>7, <2>1, KeepRank
  <2> QED
    BY <1>3, <2>2 DEF OkAfter
<1>9. (\A q \in Ranks \ {r} : Same(q)) /\ Tables
  BY <1>3, <1>6 DEF Same, Tables, Goes, Core
<1>10. MsgOK(job, M, Point(job, proc[r]), [kind |-> "names", val |-> ps])
  BY <1>2, <1>4 DEF MsgOK
<1>11. Point(job, proc'[r]) = After(job, Point(job, proc[r]), Msg(r, "names", ps))
  BY <1>4, <1>7 DEF After, Moved
<1> QED
  BY <1>3, <1>8, <1>9, <1>10, <1>11, Speaks
\* The tags of routes are no tags of rank sets.
LEMMA RoutesApart ==
    ASSUME NEW j \in Jobs, NEW M, Canon(j, M), NEW n \in DOMAIN j.modules
    PROVE  /\ RankPart(M[n][2].tag) = RankPart(M[n][1].tag)
           /\ Ext(M[n][1], M[n][2])
           /\ M[n][2] = AskAll(j, M[n][1], RouteKeys(j.modules[n]))
           /\ ToSet(RouteKeys(j.modules[n])) \subseteq DOMAIN M[n][2].tag
<1>1. PICK ks : ks = RouteKeys(j.modules[n])
  OBVIOUS
<1>2. PICK s \in TagMaps(j) : s = M[n][1]
  <2>1. 1 \in Nat
    OBVIOUS
  <2> QED
    BY <2>1 DEF Canon
<1>3. PICK t : t = M[n][2]
  OBVIOUS
<1>4. t = AskAll(j, s, ks)
  BY <1>1, <1>2, <1>3, PlacesOf
<1>5. Len(ks) \in Nat /\ \A i \in 1 .. Len(ks) : ks[i] \in KeysOf(j) /\ ks[i].kind # "ranks"
  BY <1>1, RouteKeysOK
<1>5a. ToSet(ks) = {ks[i] : i \in 1 .. Len(ks)}
  <2>1. ToSet(RouteKeys(j.modules[n])) =
            {RouteKeys(j.modules[n])[i] : i \in 1 .. Len(RouteKeys(j.modules[n]))}
    BY RouteKeysOK
  <2> QED
    BY <1>1, <2>1
<1>5b. \A k \in ToSet(ks) : k.kind # "ranks"
  BY <1>5, <1>5a
<1>6. Ext(s, t) /\ DOMAIN t.tag = DOMAIN s.tag \union ToSet(ks)
  BY <1>4, <1>5, <1>5a, AskAllOK
<1>7. {l \in DOMAIN t.tag : l.kind = "ranks"} = {l \in DOMAIN s.tag : l.kind = "ranks"}
  BY <1>5b, <1>6
<1>8. RankPart(t.tag) = RankPart(s.tag)
  BY <1>6, <1>7 DEF RankPart, Ext
<1> QED
  BY <1>1, <1>2, <1>3, <1>4, <1>6, <1>8

\* A rank leaves the loop of fetchStart.
LEMMA FetchEndRank ==
    ASSUME NEW j \in Jobs, NEW M, Canon(j, M), NEW r, r # 0, NEW x, NEW y, NEW t, NEW f, NEW c,
           NEW st, NEW b, RankOK(j, M, r, x, t, f, c, st), x.pc = "fetching", y.pc \in Unsynced,
           Moved(j, M, r, x, y, M[x.mod][2], b)
    PROVE  RankOK(j, M, r, y, t, f, c, st)
<1>1. PICK n \in DOMAIN j.modules : n = x.mod
  BY PlaceOK DEF RankOK
<1>2. MapAt(j, M, x) = M[n][1] /\ MapAt(j, M, y) = M[n][2]
  BY <1>1 DEF MapAt, Place, Moved
<1>3. TagsOK(j, M, r, y, t)
  <2>1. t = View(r, M[n][1])
    BY <1>2 DEF RankOK, TagsOK, Unsynced
  <2>2. View(r, M[n][2]).tag = View(r, M[n][1]).tag
    BY <1>1, RoutesApart DEF View
  <2>3. t = [tag |-> View(r, M[n][2]).tag, taken |-> M[n][1].taken]
    BY <2>1, <2>2 DEF View
  <2> QED
    BY <1>2, <2>3 DEF TagsOK
<1>4. RoutesIn(f, MapAt(j, M, y))
  <2>1. RoutesIn(f, M[n][1]) /\ Ext(M[n][1], M[n][2])
    BY <1>1, <1>2, RoutesApart DEF RankOK
  <2> QED
    BY <1>2, <2>1, RoutesKept
<1> QED
  BY <1>3, <1>4 DEF RankOK, Moved

\* The loop of fetchStart on a rank that goes on.
LEMMA FetchLoopCore ==
    ASSUME NEW M, job \in Jobs, Canon(job, M), Core(M), NEW r \in Ranks, FetchLoop(r),
           status' = "running"
    PROVE  Core(M)'
<1>1. /\ RankOK(job, M, r, proc[r], tagmap[r], routes[r], comms[r], storage[r])
      /\ ControlOK(job, r, proc[r]) /\ DOMAIN proc = Ranks
      /\ DOMAIN proc[r] = {"pc", "mod", "at", "load", "order"}
  BY DEF Core, RankOK, ControlOK
<1>2. PICK n : n = proc[r].mod
  OBVIOUS
<1>3. /\ r # 0 /\ proc[r].pc = "fetching" /\ Bcast(r, "fetch", 0)
      /\ UNCHANGED <<job, tagmap, comms, routes, storage>>
  BY DEF FetchLoop, Running
<1>4. Point(job, proc[r]) = <<n, "fetch", 0>>
  BY <1>2, <1>3 DEF Point
<1>5. PICK msg : msg = Msg(r, "fetch", 0)
  OBVIOUS
<1>6. Received(r, 0) = msg.val
  BY <1>3, <1>5, Got
<1>7. CASE msg.val = 0
  <2>1. Goes(r, "barrier", proc[r].mod, 1, proc[r].load, proc[r].order)
    BY <1>6, <1>7, EnterGoes DEF FetchLoop
  <2>2. Moved(job, M, r, proc[r], proc'[r], M[proc[r].mod][2], <<n, "deployment", 0>>)
    BY <1>1, <1>2, <1>3, <2>1, MoveFetchEnd DEF Goes
  <2>3. OkAfter(M, r)
    <3>1. proc'[r].pc \in Unsynced
      BY <2>1 DEF Goes, Fields, Unsynced
    <3>2. RankOK(job, M, r, proc'[r], tagmap[r], routes[r], comms[r], storage[r])
      BY <1>1, <1>3, <2>2, <3>1, FetchEndRank
    <3> QED
      BY <1>3, <3>2 DEF OkAfter
  <2>4. (\A q \in Ranks \ {r} : Same(q)) /\ Tables
    BY <1>3, <2>1 DEF Same, Tables, Goes, Core
  <2>5. Point(job, proc'[r]) = After(job, Point(job, proc[r]), Msg(r, "fetch", 0))
    BY <1>4, <1>5, <1>7, <2>2 DEF After, Moved
  <2> QED
    BY <1>3, <2>3, <2>4, <2>5, Speaks
<1>8. CASE msg.val # 0
  <2>1. PICK p : proc' = [proc EXCEPT ![r].pc = "fetch_load", ![r].load = p]
    BY <1>6, <1>8 DEF FetchLoop
  <2>2. Goes(r, "fetch_load", proc[r].mod, proc[r].at, p, proc[r].order)
    BY <1>1, <2>1, Zenon DEF Goes, Fields
  <2>3. Moved(job, M, r, proc[r], proc'[r], MapAt(job, M, proc[r]), <<n, "fetch", 0>>)
    BY <1>1, <1>2, <1>3, <2>2, MoveFetchLoad DEF Goes
  <2>4. OkAfter(M, r)
    <3>1. proc[r].pc \notin Unsynced
      BY <1>3 DEF Unsynced
    <3>2. RankOK(job, M, r, proc'[r], tagmap[r], routes[r], comms[r], storage[r])
      BY <1>1, <2>3, <3>1, KeepRank
    <3> QED
      BY <1>3, <3>2 DEF OkAfter
  <2>5. (\A q \in Ranks \ {r} : Same(q)) /\ Tables
    BY <1>3, <2>2 DEF Same, Tables, Goes, Core
  <2>6. Point(job, proc'[r]) = After(job, Point(job, proc[r]), Msg(r, "fetch", 0))
    BY <1>4, <1>5, <1>8, <2>3 DEF After, Moved
  <2> QED
    BY <1>3, <2>4, <2>5, <2>6, Speaks
<1> QED
  BY <1>7, <1>8

\* Rank 0 fetches a parameter.
LEMMA FetchCore ==
    ASSUME NEW M, job \in Jobs, Canon(job, M), Core(M), NEW p \in Params, Fetch(p)
    PROVE  Core(M)'
<1>0. 0 \in Ranks
  BY Constants
<1>1. /\ RankOK(job, M, 0, proc[0], tagmap[0], routes[0], comms[0], storage[0])
      /\ ControlOK(job, 0, proc[0]) /\ DOMAIN proc = Ranks
      /\ DOMAIN proc[0] = {"pc", "mod", "at", "load", "order"}
      /\ storage[0].dist \subseteq ToSet(job.stored)
  BY <1>0 DEF Core, RankOK, ControlOK, StorageOK
<1>2. PICK n, g : n = proc[0].mod /\ g = job.id[0][p]
  OBVIOUS
<1>3. /\ proc[0].pc = "master" /\ Bcast(0, "fetch", g)
      /\ p \in ToSet(job.modules[n].params) \cap ToSet(job.stored)
      /\ proc' = [proc EXCEPT ![0].pc = "master_load", ![0].load = p]
      /\ UNCHANGED <<job, tagmap, comms, routes, storage>>
  BY <1>1, <1>2 DEF Fetch, Running, Module
<1>4. Point(job, proc[0]) = <<n, "fetch", 0>>
  BY <1>2, <1>3 DEF Point
<1>5. g # 0
  <2>1. job.id[0] \in [Params -> Nat \ {0}]
    BY <1>0, DeployAssumption
  <2> QED
    BY <1>2, <2>1
<1>6. Goes(0, "master_load", proc[0].mod, proc[0].at, p, proc[0].order)
  BY <1>0, <1>1, <1>3, Zenon DEF Goes, Fields
<1>7. Moved(job, M, 0, proc[0], proc'[0], MapAt(job, M, proc[0]), <<n, "fetch", 0>>)
  BY <1>1, <1>2, <1>3, <1>6, MoveFetch DEF Goes
<1>8. OkAfter(M, 0)
  <2>1. proc[0].pc \notin Unsynced
    BY <1>3 DEF Unsynced
  <2>2. RankOK(job, M, 0, proc'[0], tagmap[0], routes[0], comms[0], storage[0])
    BY <1>1, <1>7, <2>1, KeepRank
  <2> QED
    BY <1>3, <2>2 DEF OkAfter
<1>9. (\A q \in Ranks \ {0} : Same(q)) /\ Tables
  BY <1>3, <1>6 DEF Same, Tables, Goes, Core
<1>11. MsgOK(job, M, Point(job, proc[0]), [kind |-> "fetch", val |-> g])
  BY <1>2, <1>3, <1>4 DEF MsgOK
<1>12. Point(job, proc'[0]) = After(job, Point(job, proc[0]), Msg(0, "fetch", g))
  <2>1. Msg(0, "fetch", g).val = g
    BY DEF Msg
  <2> QED
    BY <1>4, <1>5, <1>7, <2>1 DEF After, Moved
<1> QED
  BY <1>0, <1>3, <1>8, <1>9, <1>11, <1>12, Speaks

\* Rank 0 makes the tags of the routes and ends the loop.
LEMMA DecomposeCore ==
    ASSUME NEW M, job \in Jobs, Canon(job, M), Core(M), Decompose
    PROVE  Core(M)'
<1>0. 0 \in Ranks
  BY Constants
<1>1. /\ RankOK(job, M, 0, proc[0], tagmap[0], routes[0], comms[0], storage[0])
      /\ ControlOK(job, 0, proc[0]) /\ DOMAIN tagmap = Ranks /\ DOMAIN routes = Ranks
  BY <1>0 DEF Core, RankOK
<1>2. PICK n \in DOMAIN job.modules : n = proc[0].mod
  BY <1>1, PlaceOK
<1>3. PICK ks, m : ks = RouteKeys(job.modules[n]) /\ m = AskAll(job, tagmap[0], ks)
  OBVIOUS
<1>4. /\ proc[0].pc = "master" /\ Bcast(0, "fetch", 0) /\ proc' = Enter(0, "barrier")
      /\ tagmap' = [tagmap EXCEPT ![0] = m]
      /\ routes' = [routes EXCEPT ![0] = [k \in ToSet(ks) |-> m.tag[k]]]
      /\ UNCHANGED <<job, comms, storage>>
  BY <1>2, <1>3 DEF Decompose, Running, Module, fetchEnd
<1>5. Point(job, proc[0]) = <<n, "fetch", 0>> /\ MapAt(job, M, proc[0]) = M[n][1]
  BY <1>2, <1>4 DEF Point, MapAt, Place
<1>6. tagmap[0] = M[n][1] /\ m = M[n][2]
  <2>1. tagmap[0] = M[n][1]
    BY <1>1, <1>5 DEF RankOK, TagsOK, View
  <2> QED
    BY <1>2, <1>3, <2>1, RoutesApart
<1>7. Goes(0, "barrier", n, 1, proc[0].load, proc[0].order)
  BY <1>0, <1>2, <1>4, EnterGoes
<1>8. Moved(job, M, 0, proc[0], proc'[0], M[n][2], <<n, "deployment", 0>>)
  BY <1>1, <1>2, <1>4, <1>7, MoveFetchEnd DEF Goes
<1>9. tagmap'[0] = m /\ routes'[0] = [k \in ToSet(ks) |-> m.tag[k]]
  BY <1>0, <1>1, <1>4
<1>10. OkAfter(M, 0)
  <2>1. ControlOK(job, 0, proc'[0]) /\ MapAt(job, M, proc'[0]) = m
    BY <1>6, <1>8 DEF Moved
  <2>2. TagsOK(job, M, 0, proc'[0], m)
    BY <2>1 DEF TagsOK, View
  <2>3. RoutesIn(routes'[0], m)
    <3>1. ToSet(ks) \subseteq DOMAIN m.tag
      BY <1>2, <1>3, <1>6, RoutesApart
    <3> QED
      BY <1>9, <3>1 DEF RoutesIn
  <2>4. CommsOK(m, comms[0])
    <3>1. Ext(tagmap[0], m) /\ CommsOK(tagmap[0], comms[0])
      BY <1>1, <1>2, <1>6, RoutesApart DEF RankOK
    <3> QED
      BY <3>1 DEF CommsOK, Ext
  <2>5. StorageOK(job, 0, proc'[0], storage[0])
    BY <1>1, <1>8 DEF Moved, RankOK
  <2> QED
    BY <1>4, <1>9, <2>1, <2>2, <2>3, <2>4, <2>5 DEF OkAfter, RankOK
<1>11. (\A q \in Ranks \ {0} : Same(q)) /\ Tables
  BY <1>1, <1>4, <1>7 DEF Same, Tables, Goes, Core
<1>12. MsgOK(job, M, Point(job, proc[0]), [kind |-> "fetch", val |-> 0])
  BY <1>5 DEF MsgOK
<1>13. Point(job, proc'[0]) = After(job, Point(job, proc[0]), Msg(0, "fetch", 0))
  <2>1. Msg(0, "fetch", 0).val = 0
    BY DEF Msg
  <2> QED
    BY <1>5, <1>8, <2>1 DEF After, Moved
<1> QED
  BY <1>0, <1>4, <1>10, <1>11, <1>12, <1>13, Speaks
\* The deployment of rank 0.
LEMMA BcastDeploymentCore ==
    ASSUME NEW M, job \in Jobs, Canon(job, M), Core(M), NEW r \in Ranks, BcastDeployment(r)
    PROVE  Core(M)'
<1>0. 0 \in Ranks
  BY Constants
<1>1. /\ RankOK(job, M, r, proc[r], tagmap[r], routes[r], comms[r], storage[r])
      /\ ControlOK(job, r, proc[r]) /\ DOMAIN routes = Ranks
  BY DEF Core, RankOK
<1>2. PICK n, f : n = proc[r].mod /\ f = Received(r, routes[0])
  OBVIOUS
<1>3. /\ proc[r].pc = "deployment" /\ Bcast(r, "deployment", routes[0])
      /\ routes' = [routes EXCEPT ![r] = f] /\ proc' = Enter(r, "sync")
      /\ UNCHANGED <<job, tagmap, comms, storage>>
  BY <1>2 DEF BcastDeployment, Running
<1>4. Point(job, proc[r]) = <<n, "deployment", 0>> /\ MapAt(job, M, proc[r]) = M[n][2]
  BY <1>2, <1>3 DEF Point, MapAt, Place
<1>5. RoutesIn(f, M[n][2])
  <2>1. CASE r = 0
    <3>1. f = routes[r] /\ RoutesIn(routes[r], M[n][2])
      BY <1>1, <1>2, <1>4, <2>1 DEF Received, RankOK
    <3> QED
      BY <3>1
  <2>2. CASE r # 0
    <3>1. PICK msg, b : msg = Msg(r, "deployment", routes[0]) /\ b = Point(job, proc[r])
      OBVIOUS
    <3>2. MsgOK(job, M, b, msg) /\ f = msg.val /\ b[1] = n /\ b[2] = "deployment"
      BY <1>2, <1>3, <1>4, <2>2, <3>1, Got
    <3> QED
      BY <3>2, MsgAt
  <2> QED
    BY <2>1, <2>2
<1>6. Goes(r, "sync", n, 1, proc[r].load, proc[r].order)
  BY <1>2, <1>3, EnterGoes
<1>7. Moved(job, M, r, proc[r], proc'[r], MapAt(job, M, proc[r]), <<n, "sync", 0>>)
  BY <1>1, <1>2, <1>3, <1>6, MoveDeployment DEF Goes
<1>8. OkAfter(M, r)
  <2>1. proc'[r].pc \in Unsynced
    BY <1>6 DEF Goes, Fields, Unsynced
  <2>2. RankOK(job, M, r, proc'[r], tagmap[r], routes[r], comms[r], storage[r])
    BY <1>1, <1>7, <2>1, KeepRank
  <2>3. RoutesIn(f, MapAt(job, M, proc'[r])) /\ routes'[r] = f
    BY <1>1, <1>3, <1>4, <1>5, <1>7 DEF Moved
  <2> QED
    BY <1>3, <2>2, <2>3 DEF OkAfter, RankOK
<1>9. (\A q \in Ranks \ {r} : Same(q)) /\ Tables
  BY <1>1, <1>3, <1>6 DEF Same, Tables, Goes, Core
<1>10. r = 0 => MsgOK(job, M, Point(job, proc[0]), [kind |-> "deployment", val |-> routes[0]])
  <2>1. r = 0 => f = routes[0]
    BY <1>2 DEF Received
  <2> QED
    BY <1>4, <1>5, <2>1 DEF MsgOK
<1>11. Point(job, proc'[r]) = After(job, Point(job, proc[r]), Msg(r, "deployment", routes[0]))
  BY <1>4, <1>7 DEF After, Moved
<1> QED
  BY <1>3, <1>8, <1>9, <1>10, <1>11, Speaks

\* TagMap after its tags_ were replaced.
LEMMA Synced ==
    ASSUME NEW f, NEW r \in DOMAIN f, NEW a, NEW s, NEW u, f[r] = [tag |-> a, taken |-> s]
    PROVE  [f EXCEPT ![r].taken = u][r] = [tag |-> a, taken |-> u]
  OBVIOUS

\* Rank r has the tags of the run on paper, with rank 0's tags_.
LEMMA SyncedRank ==
    ASSUME NEW M, job \in Jobs, Canon(job, M), Core(M), NEW r \in Ranks, NEW m \in TagMaps(job),
           m = MapAt(job, M, proc[r]),
           tagmap' = [tagmap EXCEPT ![r].taken = m.taken]
    PROVE  tagmap'[r] = View(r, m)
<1>1. TagsOK(job, M, r, proc[r], tagmap[r]) /\ DOMAIN tagmap = Ranks
  BY DEF Core, RankOK
<1>2. m = [tag |-> m.tag, taken |-> m.taken]
  BY DEF TagMaps
<1>3. \E s : tagmap[r] = [tag |-> View(r, m).tag, taken |-> s]
  <2>1. CASE r = 0
    BY <1>1, <1>2, <2>1 DEF TagsOK, View
  <2>2. CASE r # 0
    <3>1. View(r, m) = [tag |-> RankPart(m.tag), taken |-> m.taken]
      BY <2>2 DEF View
    <3>2. View(r, m).tag = RankPart(m.tag)
      BY <3>1
    <3> QED
      BY <1>1, <3>1, <3>2 DEF TagsOK
  <2> QED
    BY <2>1, <2>2
<1>4. tagmap'[r] = [tag |-> View(r, m).tag, taken |-> m.taken]
  BY <1>1, <1>3, Synced
<1> QED
  BY <1>2, <1>4 DEF View

\* Rank 0's tags, as rank r sees them.
LEMMA TagsSent ==
    ASSUME NEW M, job \in Jobs, Canon(job, M), Core(M), NEW r \in Ranks, NEW phase, NEW n, NEW o,
           phase \in {"sync", "sync2"}, Point(job, proc[r]) = <<n, phase, 0>>,
           MapAt(job, M, proc[r]) = M[n][o], o = IF phase = "sync" THEN 2 ELSE 2 + Size(job, n),
           Bcast(r, "tags", tagmap[0].taken)
    PROVE  /\ TagsAfterSync(r) = M[n][o].taken
           /\ r = 0 => MsgOK(job, M, Point(job, proc[0]), [kind |-> "tags", val |-> tagmap[0].taken])
<1>1. CASE r = 0
  <2>1. tagmap[0].taken = M[n][o].taken
    BY <1>1 DEF Core, RankOK, TagsOK, View
  <2>2. TagsAfterSync(r) = M[n][o].taken
    BY <1>1, <2>1 DEF TagsAfterSync, Received
  <2>3. MsgOK(job, M, Point(job, proc[0]), [kind |-> "tags", val |-> tagmap[0].taken])
    <3>1. PICK b, u : b = <<n, phase, 0>> /\ u = tagmap[0].taken
      OBVIOUS
    <3>2. b[1] = n /\ b[2] = phase
      BY <3>1
    <3>3. MsgOK(job, M, b, [kind |-> "tags", val |-> u])
      BY <2>1, <3>1, <3>2 DEF MsgOK
    <3> QED
      BY <1>1, <3>1, <3>3
  <2> QED
    BY <2>2, <2>3
<1>2. CASE r # 0
  <2>1. PICK msg, b : msg = Msg(r, "tags", tagmap[0].taken) /\ b = Point(job, proc[r])
    OBVIOUS
  <2>2. MsgOK(job, M, b, msg) /\ TagsAfterSync(r) = msg.val /\ b[1] = n /\ b[2] = phase
    BY <1>2, <2>1, Got DEF TagsAfterSync
  <2>3. msg.val = M[n][o].taken
    BY <2>2, MsgAt
  <2> QED
    BY <1>2, <2>2, <2>3
<1> QED
  BY <1>1, <1>2

\* Rank r replaces its tags_ at broadcast phase of module n, place o, and goes on to b.
Syncs(M, r, phase, n, o, b) ==
    /\ phase \in {"sync", "sync2"} /\ Point(job, proc[r]) = <<n, phase, 0>>
    /\ MapAt(job, M, proc[r]) = M[n][o] /\ o = IF phase = "sync" THEN 2 ELSE 2 + Size(job, n)
    /\ Bcast(r, "tags", tagmap[0].taken)
    /\ tagmap' = [tagmap EXCEPT ![r].taken = TagsAfterSync(r)]
    /\ DOMAIN proc' = Ranks /\ \A q \in Ranks \ {r} : proc'[q] = proc[q]
    /\ Moved(job, M, r, proc[r], proc'[r], M[n][o], b)
    /\ b = After(job, <<n, phase, 0>>, Msg(r, "tags", tagmap[0].taken))
    /\ UNCHANGED <<job, comms, routes, storage>>

\* A rank that takes over rank 0's tags_ stays on the run on paper.
LEMMA SyncStep ==
    ASSUME NEW M, job \in Jobs, Canon(job, M), Core(M), NEW r \in Ranks, NEW phase, NEW n, NEW o,
           NEW b, Syncs(M, r, phase, n, o, b)
    PROVE  Core(M)'
<1>0. /\ phase \in {"sync", "sync2"} /\ Point(job, proc[r]) = <<n, phase, 0>>
      /\ MapAt(job, M, proc[r]) = M[n][o] /\ o = IF phase = "sync" THEN 2 ELSE 2 + Size(job, n)
      /\ Bcast(r, "tags", tagmap[0].taken)
      /\ tagmap' = [tagmap EXCEPT ![r].taken = TagsAfterSync(r)]
      /\ DOMAIN proc' = Ranks /\ \A q \in Ranks \ {r} : proc'[q] = proc[q]
      /\ Moved(job, M, r, proc[r], proc'[r], M[n][o], b)
      /\ b = After(job, <<n, phase, 0>>, Msg(r, "tags", tagmap[0].taken))
      /\ UNCHANGED <<job, comms, routes, storage>>
  BY DEF Syncs
<1>1. /\ RankOK(job, M, r, proc[r], tagmap[r], routes[r], comms[r], storage[r])
      /\ ControlOK(job, r, proc[r]) /\ DOMAIN tagmap = Ranks
  BY DEF Core, RankOK
<1>2. PICK m \in TagMaps(job) : m = M[n][o] /\ m = MapAt(job, M, proc[r])
  BY <1>0, <1>1, PlaceOK
<1>3. TagsAfterSync(r) = m.taken
  BY <1>0, <1>2, TagsSent
<1>4. tagmap'[r] = View(r, m)
  BY <1>0, <1>2, <1>3, SyncedRank
<1>5. /\ ControlOK(job, r, proc'[r]) /\ MapAt(job, M, proc'[r]) = m /\ Point(job, proc'[r]) = b
      /\ StorageOK(job, r, proc'[r], storage[r])
  BY <1>0, <1>1, <1>2 DEF Moved, RankOK
<1>6. OkAfter(M, r)
  <2>1. TagsOK(job, M, r, proc'[r], tagmap'[r])
    BY <1>4, <1>5 DEF TagsOK
  <2>2. RoutesIn(routes[r], m)
    BY <1>1, <1>2 DEF RankOK
  <2>3. CommsOK(tagmap'[r], comms[r])
    <3>1. tagmap'[r].tag = tagmap[r].tag
      <4>1. TagsOK(job, M, r, proc[r], tagmap[r])
        BY <1>1 DEF RankOK
      <4> QED
        <5>1. CASE tagmap[r] = View(r, m)
          BY <1>4, <5>1
        <5>2. CASE \E s : tagmap[r] = [tag |-> View(r, m).tag, taken |-> s]
          <6>1. PICK a, s : a = View(r, m).tag /\ tagmap[r] = [tag |-> a, taken |-> s]
            BY <5>2
          <6>2. tagmap[r].tag = a
            BY <6>1
          <6> QED
            BY <1>4, <6>1, <6>2
        <5> QED
          BY <1>2, <4>1, <5>1, <5>2 DEF TagsOK
    <3> QED
      BY <1>1, <3>1 DEF RankOK, CommsOK
  <2> QED
    BY <1>0, <1>5, <2>1, <2>2, <2>3 DEF OkAfter, RankOK
<1>7. (\A q \in Ranks \ {r} : Same(q)) /\ Tables
  BY <1>0, <1>1 DEF Same, Tables, Core
<1>8. r = 0 => MsgOK(job, M, Point(job, proc[0]), [kind |-> "tags", val |-> tagmap[0].taken])
  BY <1>0, TagsSent
<1>9. Point(job, proc'[r]) = After(job, Point(job, proc[r]), Msg(r, "tags", tagmap[0].taken))
  BY <1>0, <1>5
<1> QED
  BY <1>0, <1>6, <1>7, <1>8, <1>9, Speaks

\* TagMap::sync at the start of ParamStorage::deploy.
LEMMA SyncCore ==
    ASSUME NEW M, job \in Jobs, Canon(job, M), Core(M), NEW r \in Ranks, Sync(r), status' = "running"
    PROVE  Core(M)'
<1>1. ControlOK(job, r, proc[r])
  BY DEF Core, RankOK
<1>2. PICK n, msg : n = proc[r].mod /\ msg = Msg(r, "tags", tagmap[0].taken)
  OBVIOUS
<1>3. /\ proc[r].pc = "sync" /\ Bcast(r, "tags", tagmap[0].taken)
      /\ tagmap' = [tagmap EXCEPT ![r].taken = TagsAfterSync(r)] /\ proc' = Enter(r, "param")
      /\ UNCHANGED <<job, comms, routes, storage>>
  BY DEF Sync, Running
<1>4. Point(job, proc[r]) = <<n, "sync", 0>> /\ MapAt(job, M, proc[r]) = M[n][2]
  BY <1>2, <1>3 DEF Point, MapAt, Place
<1>5. Goes(r, "param", n, 1, proc[r].load, proc[r].order)
  BY <1>2, <1>3, EnterGoes
<1>6. Moved(job, M, r, proc[r], proc'[r], M[n][2], ValuePoint(job, n, 1))
  BY <1>1, <1>2, <1>3, <1>5, MoveSync DEF Goes
<1>7. ValuePoint(job, n, 1) = After(job, <<n, "sync", 0>>, msg)
  BY DEF After
<1> QED
  <2>1. PICK phase, b, e : /\ phase = "sync" /\ b = ValuePoint(job, n, 1) /\ e = 2
    OBVIOUS
  <2>2. phase \in {"sync", "sync2"} /\ e = IF phase = "sync" THEN 2 ELSE 2 + Size(job, n)
    BY <1>2, <2>1
  <2>3. /\ Point(job, proc[r]) = <<n, phase, 0>> /\ MapAt(job, M, proc[r]) = M[n][e]
        /\ Moved(job, M, r, proc[r], proc'[r], M[n][e], b)
        /\ b = After(job, <<n, phase, 0>>, Msg(r, "tags", tagmap[0].taken))
    BY <1>2, <1>4, <1>6, <1>7, <2>1
  <2>4. DOMAIN proc' = Ranks /\ \A q \in Ranks \ {r} : proc'[q] = proc[q]
    BY <1>5 DEF Goes
  <2> QED
    <3>1. Syncs(M, r, phase, n, e, b)
      BY <1>3, <2>2, <2>3, <2>4 DEF Syncs
    <3> QED
      BY <3>1, SyncStep

\* TagMap::sync in deployGraph.
LEMMA SyncAgainCore ==
    ASSUME NEW M, job \in Jobs, Canon(job, M), Core(M), NEW r \in Ranks, SyncAgain(r)
    PROVE  Core(M)'
<1>1. ControlOK(job, r, proc[r])
  BY DEF Core, RankOK
<1>2. PICK n, msg, o : /\ n = proc[r].mod /\ msg = Msg(r, "tags", tagmap[0].taken)
                       /\ o = 2 + Size(job, n)
  OBVIOUS
<1>3. /\ proc[r].pc = "sync2" /\ Bcast(r, "tags", tagmap[0].taken)
      /\ tagmap' = [tagmap EXCEPT ![r].taken = TagsAfterSync(r)] /\ proc' = Enter(r, "route")
      /\ UNCHANGED <<job, comms, routes, storage>>
  BY DEF SyncAgain, Running
<1>4. Point(job, proc[r]) = <<n, "sync2", 0>> /\ MapAt(job, M, proc[r]) = M[n][o]
  BY <1>2, <1>3 DEF Point, MapAt, Place
<1>5. Goes(r, "route", n, 1, proc[r].load, proc[r].order)
  BY <1>2, <1>3, EnterGoes
<1>6. Moved(job, M, r, proc[r], proc'[r], M[n][o], EndPoint(job, n))
  BY <1>1, <1>2, <1>3, <1>5, MoveSyncAgain DEF Goes
<1>7. EndPoint(job, n) = After(job, <<n, "sync2", 0>>, msg)
  BY DEF After
<1> QED
  <2>1. PICK phase, b, e : /\ phase = "sync2" /\ b = EndPoint(job, n) /\ e = o
    OBVIOUS
  <2>2. phase \in {"sync", "sync2"} /\ e = IF phase = "sync" THEN 2 ELSE 2 + Size(job, n)
    BY <1>2, <2>1
  <2>3. /\ Point(job, proc[r]) = <<n, phase, 0>> /\ MapAt(job, M, proc[r]) = M[n][e]
        /\ Moved(job, M, r, proc[r], proc'[r], M[n][e], b)
        /\ b = After(job, <<n, phase, 0>>, Msg(r, "tags", tagmap[0].taken))
    BY <1>2, <1>4, <1>6, <1>7, <2>1
  <2>4. DOMAIN proc' = Ranks /\ \A q \in Ranks \ {r} : proc'[q] = proc[q]
    BY <1>5 DEF Goes
  <2> QED
    <3>1. Syncs(M, r, phase, n, e, b)
      BY <1>3, <2>2, <2>3, <2>4 DEF Syncs
    <3> QED
      BY <3>1, SyncStep
\* Storage su has what st has, but for parameter p.
Touched(p, st, su) ==
    /\ DOMAIN su = {"dist", "value"}
    /\ su.dist \subseteq st.dist /\ \A q \in st.dist : q = p \/ q \in su.dist
    /\ \A q \in DOMAIN st.value : q = p \/ (q \in DOMAIN su.value /\ su.value[q] = st.value[q])

\* A parameter is deployed: the next ones are as they were.
LEMMA StorageTaken ==
    ASSUME NEW j \in Jobs, NEW r, NEW x, ControlOK(j, r, x), NEW y, ControlOK(j, r, y), NEW st, NEW su,
           x.at <= Size(j, x.mod), y.pc = "param", y.mod = x.mod, y.at = x.at + 1,
           StorageOK(j, r, y, st), Touched(j.modules[x.mod].params[x.at], st, su)
    PROVE  StorageOK(j, r, y, su)
<1>1. PICK n \in DOMAIN j.modules : n = x.mod
  BY ModulesFrom1 DEF ControlOK
<1>2. PICK i \in Nat \ {0}, S \in Nat : i = x.at /\ S = Size(j, n) /\ i <= S
  BY <1>1, ModuleData DEF ControlOK
<1>3. Deployed(j, y) = i /\ Registering(j, y) = S /\ y.mod = n
  BY <1>1, <1>2 DEF Deployed, Registering
<1>4. PICK p : p = j.modules[n].params[i]
  OBVIOUS
<1>5. Touched(p, st, su)
  BY <1>1, <1>2, <1>4
<1>6. ASSUME NEW l \in i + 1 .. S, NEW q, q = j.modules[n].params[l]
      PROVE  /\ q \in DOMAIN su.value /\ su.value[q] = Tensor(q, r)
             /\ q \in ToSet(j.stored) => q \in su.dist
  <2>1. /\ q \in DOMAIN st.value /\ st.value[q] = Tensor(q, r)
        /\ q \in ToSet(j.stored) => q \in st.dist
    BY <1>3, <1>6 DEF StorageOK
  <2>2. q # p
    <3>1. i \in 1 .. S /\ l \in 1 .. S /\ i # l
      BY <1>2
    <3> QED
      BY <1>2, <1>4, <1>6, <3>1, ModuleData
  <2> QED
    BY <1>5, <2>1, <2>2 DEF Touched
<1>7. su.dist \subseteq ToSet(j.stored) /\ DOMAIN su = {"dist", "value"}
  BY <1>5 DEF Touched, StorageOK
<1> QED
  BY <1>3, <1>6, <1>7 DEF StorageOK

\* Rank r deploys a parameter: nothing else of the rank changes.
LEMMA TakenRank ==
    ASSUME NEW j \in Jobs, NEW M, Canon(j, M), NEW r, NEW x, NEW y, NEW t, NEW f, NEW c, NEW st,
           NEW su, NEW b, RankOK(j, M, r, x, t, f, c, st), x.pc \in {"value", "param_load"},
           Moved(j, M, r, x, y, MapAt(j, M, x), b), y.pc = "param", y.mod = x.mod, y.at = x.at + 1,
           Touched(j.modules[x.mod].params[x.at], st, su)
    PROVE  RankOK(j, M, r, y, t, f, c, su)
<1>1. x.pc \notin Unsynced
  BY DEF Unsynced
<1>2. RankOK(j, M, r, y, t, f, c, st)
  BY <1>1, KeepRank
<1>3. x.at <= Size(j, x.mod) /\ ControlOK(j, r, x) /\ ControlOK(j, r, y) /\ StorageOK(j, r, y, st)
  BY <1>2 DEF RankOK, ControlOK
<1>4. StorageOK(j, r, y, su)
  BY <1>3, StorageTaken
<1> QED
  BY <1>2, <1>4 DEF RankOK

\* The parameter a rank has come to.
LEMMA AtParam ==
    ASSUME NEW M, job \in Jobs, Canon(job, M), Core(M), NEW r \in Ranks,
           proc[r].pc \in {"value", "param_load"}
    PROVE  LET p == job.modules[proc[r].mod].params[proc[r].at]
           IN  /\ Here(r) = p /\ SetHere(r) = UsersOf(job, proc[r].mod, proc[r].at)
               /\ p \in DOMAIN storage[r].value /\ storage[r].value[p] = Tensor(p, r)
               /\ p \in ToSet(job.stored) <=> p \in storage[r].dist
<1>1. ControlOK(job, r, proc[r]) /\ StorageOK(job, r, proc[r], storage[r])
  BY DEF Core, RankOK
<1>2. PICK n \in DOMAIN job.modules : n = proc[r].mod
  BY <1>1, PlaceOK
<1>3. PICK i \in Nat \ {0}, S \in Nat : i = proc[r].at /\ S = Size(job, n) /\ i <= S
  BY <1>1, <1>2, ModuleData DEF ControlOK
<1>4. PICK p : p = job.modules[n].params[i]
  OBVIOUS
<1>5. Here(r) = p
  BY <1>1, <1>2, <1>3, <1>4 DEF Here, ControlOK
<1>6. SetHere(r) = UsersOf(job, n, i)
  BY <1>2, <1>4, <1>5 DEF SetHere, UsersOf, Module
<1>7. Deployed(job, proc[r]) = i - 1 /\ Registering(job, proc[r]) = S
  BY <1>2, <1>3 DEF Deployed, Registering
<1>8. i \in i - 1 + 1 .. S
  BY <1>3
<1>9. /\ p \in DOMAIN storage[r].value /\ storage[r].value[p] = Tensor(p, r)
      /\ p \in ToSet(job.stored) => p \in storage[r].dist
      /\ storage[r].dist \subseteq ToSet(job.stored)
  BY <1>1, <1>2, <1>4, <1>7, <1>8 DEF StorageOK
<1> QED
  BY <1>2, <1>3, <1>4, <1>5, <1>6, <1>9

\* A rank goes on to the next parameter.
LEMMA NextParamGoes ==
    ASSUME NEW M, Core(M), NEW r \in Ranks, proc' = [Advance(r) EXCEPT ![r].pc = "param"]
    PROVE  Goes(r, "param", proc[r].mod, proc[r].at + 1, proc[r].load, proc[r].order)
<1>1. DOMAIN proc = Ranks /\ DOMAIN proc[r] = {"pc", "mod", "at", "load", "order"}
  BY DEF Core, RankOK, ControlOK
<1> QED
  BY <1>1, Zenon DEF Advance, Goes, Fields

\* Rank 0's tensor of a parameter that is not distributed.
LEMMA SyncParamOnInitCore ==
    ASSUME NEW M, job \in Jobs, Canon(job, M), Core(M), NEW r \in Ranks, SyncParamOnInit(r)
    PROVE  Core(M)'
<1>1. /\ RankOK(job, M, r, proc[r], tagmap[r], routes[r], comms[r], storage[r])
      /\ ControlOK(job, r, proc[r]) /\ DOMAIN storage = Ranks
      /\ DOMAIN storage[r] = {"dist", "value"} /\ proc[r].pc = "value"
  BY DEF Core, RankOK, StorageOK, SyncParamOnInit, InLoop, Running
<1>2. PICK n \in DOMAIN job.modules : n = proc[r].mod
  BY <1>1, PlaceOK
<1>3. PICK i, p, v, w :
         /\ i \in Nat \ {0}
         /\ i = proc[r].at /\ p = job.modules[n].params[i]
         /\ v = storage[0].value[p] /\ w = Received(r, v)
  <2>1. proc[r].at \in Nat \ {0}
    BY <1>1 DEF ControlOK
  <2> QED
    BY <2>1
<1>4. /\ Here(r) = p /\ p \in DOMAIN storage[r].value /\ storage[r].value[p] = Tensor(p, r)
      /\ p \in ToSet(job.stored) <=> p \in storage[r].dist
  BY <1>1, <1>2, <1>3, AtParam
<1>5. /\ Bcast(r, "value", v) /\ p \notin storage[r].dist
      /\ storage' = [storage EXCEPT ![r].value = Put(@, p, w)]
      /\ proc' = [Advance(r) EXCEPT ![r].pc = "param"]
      /\ UNCHANGED <<job, tagmap, comms, routes>>
  BY <1>3, <1>4 DEF SyncParamOnInit
<1>6. Goes(r, "param", n, i + 1, proc[r].load, proc[r].order)
  BY <1>2, <1>3, <1>5, NextParamGoes
<1>7. Moved(job, M, r, proc[r], proc'[r], MapAt(job, M, proc[r]), ValuePoint(job, n, i + 1))
  BY <1>1, <1>2, <1>3, <1>6, MoveValue DEF Goes
<1>8. Point(job, proc[r]) = <<n, "value", i>>
  <2>1. Sends(job, n, i) /\ i <= Size(job, n)
    BY <1>1, <1>2, <1>3, <1>4, <1>5 DEF Sends, ControlOK
  <2> QED
    BY <1>1, <1>2, <1>3, <2>1, ValuePointOK DEF Point
<1>9. /\ DOMAIN storage' = Ranks /\ \A q \in Ranks \ {r} : storage'[q] = storage[q]
      /\ DOMAIN storage'[r] = {"dist", "value"} /\ storage'[r].dist = storage[r].dist
      /\ storage'[r].value = Put(storage[r].value, p, w)
  BY <1>1, <1>5, Zenon
<1>10. Touched(p, storage[r], storage'[r])
  BY <1>9 DEF Touched, Put
<1>11. OkAfter(M, r)
  <2>1. proc'[r].pc = "param" /\ proc'[r].mod = proc[r].mod /\ proc'[r].at = proc[r].at + 1
    BY <1>2, <1>3, <1>6 DEF Goes, Fields
  <2>2. RankOK(job, M, r, proc'[r], tagmap[r], routes[r], comms[r], storage'[r])
    BY <1>1, <1>2, <1>3, <1>7, <1>10, <2>1, TakenRank
  <2> QED
    BY <1>5, <2>2 DEF OkAfter
<1>12. (\A q \in Ranks \ {r} : Same(q)) /\ Tables
  BY <1>5, <1>6, <1>9 DEF Same, Tables, Goes, Core
<1>13. r = 0 => MsgOK(job, M, Point(job, proc[0]), [kind |-> "value", val |-> v])
  <2>1. r = 0 => v = Tensor(p, 0)
    BY <1>3, <1>4
  <2> QED
    <3>1. PICK b : b = <<n, "value", i>>
      OBVIOUS
    <3>2. b[1] = n /\ b[2] = "value" /\ b[3] = i
      BY <3>1
    <3>3. r = 0 => MsgOK(job, M, b, [kind |-> "value", val |-> v])
      BY <1>3, <2>1, <3>2 DEF MsgOK
    <3> QED
      BY <1>8, <3>1, <3>3
<1>14. Point(job, proc'[r]) = After(job, Point(job, proc[r]), Msg(r, "value", v))
  BY <1>7, <1>8 DEF After, Moved
<1> QED
  BY <1>5, <1>11, <1>12, <1>13, <1>14, Speaks

\* A distributed parameter, on a rank that is to load or to forget it.
LEMMA TakeDistributedCore ==
    ASSUME NEW M, job \in Jobs, Canon(job, M), Core(M), NEW r \in Ranks, TakeDistributed(r)
    PROVE  Core(M)'
<1>1. /\ RankOK(job, M, r, proc[r], tagmap[r], routes[r], comms[r], storage[r])
      /\ ControlOK(job, r, proc[r]) /\ DOMAIN storage = Ranks /\ DOMAIN proc = Ranks
      /\ DOMAIN proc[r] = {"pc", "mod", "at", "load", "order"}
      /\ DOMAIN storage[r] = {"dist", "value"} /\ proc[r].pc = "value"
  BY DEF Core, RankOK, ControlOK, StorageOK, TakeDistributed, InLoop, Running
<1>2. PICK n, i, p : n = proc[r].mod /\ i = proc[r].at /\ p = job.modules[n].params[i]
  OBVIOUS
<1>3. /\ Here(r) = p /\ SetHere(r) = UsersOf(job, n, i)
      /\ p \in ToSet(job.stored) <=> p \in storage[r].dist
  BY <1>1, <1>2, AtParam
<1>4. p \in ToSet(job.stored) /\ UNCHANGED <<job, inbox, tagmap, comms, routes>>
  BY <1>3 DEF TakeDistributed
<1>5. proc[r].pc \notin Unsynced
  BY <1>1 DEF Unsynced
<1>6. CASE r \in SetHere(r)
  <2>1. /\ proc' = [proc EXCEPT ![r].pc = "param_load", ![r].load = p]
        /\ UNCHANGED <<job, inbox, tagmap, comms, routes, storage>>
    BY <1>3, <1>6 DEF TakeDistributed
  <2>2. Goes(r, "param_load", proc[r].mod, proc[r].at, p, proc[r].order)
    BY <1>1, <2>1, Zenon DEF Goes, Fields
  <2>3. Moved(job, M, r, proc[r], proc'[r], MapAt(job, M, proc[r]), Point(job, proc[r]))
    BY <1>1, <1>2, <1>3, <1>4, <1>6, <2>2, MoveParamLoad DEF Goes
  <2> QED
    BY <1>5, <2>1, <2>2, <2>3, Walks DEF Goes
<1>7. CASE r \notin SetHere(r)
  <2>1. /\ proc' = [Advance(r) EXCEPT ![r].pc = "param"]
        /\ storage' = [storage EXCEPT ![r].dist = @ \ {p}, ![r].value = Put(@, p, Zero)]
    BY <1>3, <1>7 DEF TakeDistributed
  <2>2. Goes(r, "param", n, i + 1, proc[r].load, proc[r].order)
    BY <1>2, <2>1, NextParamGoes
  <2>3. Moved(job, M, r, proc[r], proc'[r], MapAt(job, M, proc[r]), Point(job, proc[r]))
    BY <1>1, <1>2, <1>4, <2>2, MoveTaken DEF Goes
  <2>4. /\ DOMAIN storage' = Ranks /\ \A q \in Ranks \ {r} : storage'[q] = storage[q]
        /\ DOMAIN storage'[r] = {"dist", "value"} /\ storage'[r].dist = storage[r].dist \ {p}
        /\ storage'[r].value = Put(storage[r].value, p, Zero)
    BY <1>1, <2>1, Zenon
  <2>5. Touched(p, storage[r], storage'[r])
    BY <2>4 DEF Touched, Put
  <2>6. OkAfter(M, r)
    <3>1. proc'[r].pc = "param" /\ proc'[r].mod = proc[r].mod /\ proc'[r].at = proc[r].at + 1
      BY <1>2, <2>2 DEF Goes, Fields
    <3>2. RankOK(job, M, r, proc'[r], tagmap[r], routes[r], comms[r], storage'[r])
      BY <1>1, <1>2, <2>3, <2>5, <3>1, TakenRank
    <3> QED
      BY <1>4, <3>2 DEF OkAfter
  <2>7. (\A q \in Ranks \ {r} : Same(q)) /\ Tables
    BY <1>4, <2>2, <2>4 DEF Same, Tables, Goes, Core
  <2>8. Point(job, proc'[r]) = Point(job, proc[r])
    BY <2>3 DEF Moved
  <2> QED
    BY <1>4, <2>6, <2>7, <2>8, Silent
<1> QED
  BY <1>6, <1>7
-----------------------------------------------------------------------------
(* Steps in which ranks ask TagMap, alone or together. *)

\* A rank asked for the tag of S.
LEMMA AskedRank ==
    ASSUME NEW M, job \in Jobs, Canon(job, M), Core(M), NEW q \in Ranks, NEW S,
           RankKey(S) \in KeysOf(job), proc[q].pc \notin Unsynced,
           Moved(job, M, q, proc[q], proc'[q], Ask(job, MapAt(job, M, proc[q]), RankKey(S)),
                 Point(job, proc[q])),
           tagmap'[q] = Asked(q, S), DOMAIN comms'[q] = {"mpi", "nccl", "sets"},
           \/ comms'[q].nccl = comms[q].nccl
           \/ comms'[q].nccl = PutNew(comms[q].nccl, TagOf(q, S), S)
    PROVE  /\ RankOK(job, M, q, proc'[q], tagmap'[q], routes[q], comms'[q], storage[q])
           /\ Point(job, proc'[q]) = Point(job, proc[q])
<1>1. RankOK(job, M, q, proc[q], tagmap[q], routes[q], comms[q], storage[q])
  BY DEF Core
<1>2. tagmap'[q] = Ask(job, tagmap[q], RankKey(S))
  BY DEF Asked
<1>3. \/ comms'[q].nccl = comms[q].nccl
      \/ comms'[q].nccl = PutNew(comms[q].nccl, Ask(job, tagmap[q], RankKey(S)).tag[RankKey(S)], S)
  BY DEF Asked, TagOf
<1>4. RankOK(job, M, q, proc'[q], Ask(job, tagmap[q], RankKey(S)), routes[q], comms'[q], storage[q])
  BY <1>1, <1>3, AskRank
<1> QED
  BY <1>2, <1>4 DEF Moved

\* What the creation of communicators does to a rank's tables.
LEMMA CommsMade ==
    ASSUME NEW M, Core(M), NEW S, NEW q \in Ranks
    PROVE  /\ DOMAIN WithMPI(S, comms)[q] = {"mpi", "nccl", "sets"}
           /\ WithMPI(S, comms)[q].nccl = comms[q].nccl
           /\ DOMAIN WithNCCL(S, comms)[q] = {"mpi", "nccl", "sets"}
           /\ \/ WithNCCL(S, comms)[q].nccl = comms[q].nccl
              \/ WithNCCL(S, comms)[q].nccl = PutNew(comms[q].nccl, TagOf(q, S), S)
           /\ q \notin S => /\ WithMPI(S, comms)[q] = comms[q] /\ WithNCCL(S, comms)[q] = comms[q]
           /\ DOMAIN WithMPI(S, comms) = Ranks /\ DOMAIN WithNCCL(S, comms) = Ranks
<1>1. DOMAIN comms[q] = {"mpi", "nccl", "sets"}
  BY DEF Core, RankOK, CommsOK
<1>2. PICK a, b : a = PutNew(comms[q].mpi, TagOf(q, S), S) /\ b = PutNew(comms[q].nccl, TagOf(q, S), S)
  OBVIOUS
<1>3. WithMPI(S, comms)[q] = IF q \in S THEN [comms[q] EXCEPT !.mpi = a] ELSE comms[q]
  BY <1>2 DEF WithMPI
<1>4. WithNCCL(S, comms)[q] = IF q \in S THEN [comms[q] EXCEPT !.nccl = b] ELSE comms[q]
  BY <1>2 DEF WithNCCL
<1>5. DOMAIN WithMPI(S, comms) = Ranks /\ DOMAIN WithNCCL(S, comms) = Ranks
  BY DEF WithMPI, WithNCCL
<1>6. CASE q \in S
  <2>1. WithMPI(S, comms)[q] = [comms[q] EXCEPT !.mpi = a]
    BY <1>3, <1>6
  <2>2. WithNCCL(S, comms)[q] = [comms[q] EXCEPT !.nccl = b]
    BY <1>4, <1>6
  <2>3. /\ DOMAIN [comms[q] EXCEPT !.mpi = a] = {"mpi", "nccl", "sets"}
        /\ [comms[q] EXCEPT !.mpi = a].nccl = comms[q].nccl
    BY <1>1, Zenon
  <2>4. /\ DOMAIN [comms[q] EXCEPT !.nccl = b] = {"mpi", "nccl", "sets"}
        /\ [comms[q] EXCEPT !.nccl = b].nccl = b
    BY <1>1, Zenon
  <2> QED
    BY <1>2, <1>5, <1>6, <2>1, <2>2, <2>3, <2>4
<1>7. CASE q \notin S
  <2>1. WithMPI(S, comms)[q] = comms[q] /\ WithNCCL(S, comms)[q] = comms[q]
    BY <1>3, <1>4, <1>7
  <2> QED
    BY <1>1, <1>5, <1>7, <2>1
<1> QED
  BY <1>6, <1>7

\* A record of control state that was replaced, field by field.
LEMMA FieldsOf ==
    ASSUME NEW x, DOMAIN x = {"pc", "mod", "at", "load", "order"}, NEW phase, NEW i, NEW y
    PROVE  /\ y = [x EXCEPT !.at = i] => Fields(y, x.pc, x.mod, i, x.load, x.order)
           /\ y = [x EXCEPT !.pc = phase] => Fields(y, phase, x.mod, x.at, x.load, x.order)
           /\ y = [x EXCEPT !.pc = phase, !.at = i] => Fields(y, phase, x.mod, i, x.load, x.order)
<1>1. y = [x EXCEPT !.at = i] => Fields(y, x.pc, x.mod, i, x.load, x.order)
  BY Zenon DEF Fields
<1>2. y = [x EXCEPT !.pc = phase] => Fields(y, phase, x.mod, x.at, x.load, x.order)
  BY Zenon DEF Fields
<1>3. y = [x EXCEPT !.pc = phase, !.at = i] => Fields(y, phase, x.mod, i, x.load, x.order)
  BY Zenon DEF Fields
<1> QED
  BY <1>1, <1>2, <1>3

\* All ranks store a parameter.
LEMMA StoreCore ==
    ASSUME NEW M, job \in Jobs, Canon(job, M), Core(M), Store
    PROVE  Core(M)'
<1>1. /\ tagmap' = TagSet(Ranks) /\ comms' = WithMPI(Ranks, comms)
      /\ proc' = [r \in Ranks |-> [proc[r] EXCEPT !.at = @ + 1]]
      /\ UNCHANGED <<job, inbox, routes, storage>>
  BY DEF Store
<1>2. ASSUME NEW q \in Ranks
      PROVE  OkAfter(M, q) /\ Point(job, proc'[q]) = Point(job, proc[q])
  <2>1. /\ ControlOK(job, q, proc[q]) /\ proc[q].pc = "store" /\ proc[q].at <= Len(job.stored)
        /\ DOMAIN proc[q] = {"pc", "mod", "at", "load", "order"}
    BY DEF Core, RankOK, ControlOK, Store, Running
  <2>2. proc'[q] = [proc[q] EXCEPT !.at = proc[q].at + 1] /\ tagmap'[q] = Asked(q, Ranks)
    BY <1>1 DEF TagSet
  <2>3. Fields(proc'[q], "store", proc[q].mod, proc[q].at + 1, proc[q].load, proc[q].order)
    BY <2>1, <2>2, FieldsOf
  <2>4. Moved(job, M, q, proc[q], proc'[q], Ask(job, MapAt(job, M, proc[q]), RankKey(Ranks)),
              Point(job, proc[q]))
    BY <2>1, <2>3, MoveStore
  <2>5. RankKey(Ranks) \in KeysOf(job) /\ proc[q].pc \notin Unsynced
    BY <2>1 DEF KeysOf, Unsynced
  <2>6. DOMAIN comms'[q] = {"mpi", "nccl", "sets"} /\ comms'[q].nccl = comms[q].nccl
    BY <1>1, CommsMade
  <2>7. /\ RankOK(job, M, q, proc'[q], tagmap'[q], routes[q], comms'[q], storage[q])
        /\ Point(job, proc'[q]) = Point(job, proc[q])
    BY <2>2, <2>4, <2>5, <2>6, AskedRank
  <2> QED
    BY <1>1, <2>7 DEF OkAfter
<1>3. Tables
  BY <1>1 DEF Tables, TagSet, WithMPI, Core
<1> QED
  BY <1>1, <1>2, <1>3, Silent

\* Where a rank wants a communicator, and where it goes with it.
LEMMA WantedOK ==
    ASSUME NEW M, job \in Jobs, Canon(job, M), Core(M), NEW r \in Ranks, NEW S, S = Wanted(r),
           S # {}, proc'[r] = AfterCreation(r)
    PROVE  /\ RankKey(S) \in KeysOf(job) /\ proc[r].pc \notin Unsynced
           /\ Moved(job, M, r, proc[r], proc'[r], Ask(job, MapAt(job, M, proc[r]), RankKey(S)),
                    Point(job, proc[r]))
<1>1. /\ ControlOK(job, r, proc[r]) /\ DOMAIN proc[r] = {"pc", "mod", "at", "load", "order"}
  BY DEF Core, RankOK, ControlOK
<1>2. PICK n \in DOMAIN job.modules : n = proc[r].mod
  BY <1>1, PlaceOK
<1>3. CASE proc[r].pc = "fetchStart"
  <2>1. S = Ranks
    BY <1>3 DEF Wanted
  <2>2. PICK phase : phase = IF r = 0 THEN "master" ELSE "fetching"
    OBVIOUS
  <2>3. proc'[r] = [proc[r] EXCEPT !.pc = phase]
    BY <1>3, <2>2 DEF AfterCreation
  <2>4. Fields(proc'[r], phase, proc[r].mod, proc[r].at, proc[r].load, proc[r].order)
    BY <1>1, <2>3, FieldsOf
  <2>5. Moved(job, M, r, proc[r], proc'[r], Ask(job, MapAt(job, M, proc[r]), RankKey(Ranks)),
              Point(job, proc[r]))
    BY <1>1, <1>3, <2>2, <2>4, MoveFetchStart
  <2> QED
    BY <1>3, <2>1, <2>5 DEF KeysOf, Unsynced
<1>4. CASE proc[r].pc # "fetchStart"
  <2>1. /\ proc[r].pc = "route" /\ proc[r].at <= Len(Comms(job, n)) /\ S = Comms(job, n)[proc[r].at]
    BY <1>2, <1>4 DEF Wanted, Comms, Module
  <2>2. proc'[r] = [proc[r] EXCEPT !.at = proc[r].at + 1]
    BY <1>4 DEF AfterCreation
  <2>3. Fields(proc'[r], "route", proc[r].mod, proc[r].at + 1, proc[r].load, proc[r].order)
    BY <1>1, <2>1, <2>2, FieldsOf
  <2>4. Moved(job, M, r, proc[r], proc'[r], Ask(job, MapAt(job, M, proc[r]), RankKey(S)),
              Point(job, proc[r]))
    BY <1>1, <1>2, <2>1, <2>3, MoveRoute
  <2>5. RankKey(S) \in KeysOf(job)
    <3>1. proc[r].at \in 1 .. Len(Comms(job, n))
      BY <1>1, <1>2, <2>1, CommsSeq DEF ControlOK
    <3> QED
      BY <1>2, <2>1, <3>1, KeysAsked
  <2> QED
    BY <2>1, <2>4, <2>5 DEF Unsynced
<1> QED
  BY <1>3, <1>4

\* The members of S create an NCCL communicator.
LEMMA CreateCommunicatorCore ==
    ASSUME NEW M, job \in Jobs, Canon(job, M), Core(M), NEW S \in (SUBSET Ranks) \ {{}},
           CreateCommunicator(S)
    PROVE  Core(M)'
<1>1. /\ tagmap' = TagSet(S) /\ comms' = WithNCCL(S, comms)
      /\ proc' = [r \in Ranks |-> IF r \in S THEN AfterCreation(r) ELSE proc[r]]
      /\ UNCHANGED <<job, inbox, routes, storage>>
      /\ \A r \in S : Wanted(r) = S
  BY DEF CreateCommunicator
<1>2. ASSUME NEW q \in S
      PROVE  OkAfter(M, q) /\ Point(job, proc'[q]) = Point(job, proc[q])
  <2>1. q \in Ranks /\ proc'[q] = AfterCreation(q) /\ tagmap'[q] = Asked(q, S)
    BY <1>1 DEF TagSet
  <2>2. /\ RankKey(S) \in KeysOf(job) /\ proc[q].pc \notin Unsynced
        /\ Moved(job, M, q, proc[q], proc'[q], Ask(job, MapAt(job, M, proc[q]), RankKey(S)),
                 Point(job, proc[q]))
    BY <1>1, <2>1, WantedOK
  <2>3. /\ DOMAIN comms'[q] = {"mpi", "nccl", "sets"}
        /\ \/ comms'[q].nccl = comms[q].nccl
           \/ comms'[q].nccl = PutNew(comms[q].nccl, TagOf(q, S), S)
    BY <1>1, <2>1, CommsMade
  <2>4. /\ RankOK(job, M, q, proc'[q], tagmap'[q], routes[q], comms'[q], storage[q])
        /\ Point(job, proc'[q]) = Point(job, proc[q])
    BY <2>1, <2>2, <2>3, AskedRank
  <2> QED
    BY <1>1, <2>4 DEF OkAfter
<1>3. ASSUME NEW q \in Ranks \ S
      PROVE  Same(q)
  <2>1. comms'[q] = comms[q]
    BY <1>1, CommsMade
  <2> QED
    BY <1>1, <2>1 DEF Same, TagSet
<1>4. Tables
  BY <1>1 DEF Tables, TagSet, WithNCCL, Core
<1> QED
  BY <1>1, <1>2, <1>3, <1>4, Silent

\* A rank finds a communicator, or is no member of it.
LEMMA FindCommunicatorCore ==
    ASSUME NEW M, job \in Jobs, Canon(job, M), Core(M), NEW r \in Ranks, FindCommunicator(r)
    PROVE  Core(M)'
<1>1. PICK S : S = Wanted(r) /\ S # {}
  BY DEF FindCommunicator
<1>2. /\ tagmap' = [tagmap EXCEPT ![r] = Asked(r, S)] /\ proc' = [proc EXCEPT ![r] = AfterCreation(r)]
      /\ UNCHANGED <<job, inbox, comms, routes, storage>>
      /\ DOMAIN tagmap = Ranks /\ DOMAIN proc = Ranks
      /\ DOMAIN comms[r] = {"mpi", "nccl", "sets"}
  BY <1>1 DEF FindCommunicator, Core, RankOK, CommsOK
<1>3. tagmap'[r] = Asked(r, S) /\ proc'[r] = AfterCreation(r)
  BY <1>2
<1>4. /\ RankKey(S) \in KeysOf(job) /\ proc[r].pc \notin Unsynced
      /\ Moved(job, M, r, proc[r], proc'[r], Ask(job, MapAt(job, M, proc[r]), RankKey(S)),
               Point(job, proc[r]))
  BY <1>1, <1>3, WantedOK
<1>5. /\ RankOK(job, M, r, proc'[r], tagmap'[r], routes[r], comms'[r], storage[r])
      /\ Point(job, proc'[r]) = Point(job, proc[r])
  BY <1>2, <1>3, <1>4, AskedRank
<1>6. OkAfter(M, r)
  BY <1>2, <1>5 DEF OkAfter
<1>7. (\A q \in Ranks \ {r} : Same(q)) /\ Tables
  BY <1>2 DEF Same, Tables, Core
<1> QED
  BY <1>2, <1>5, <1>6, <1>7, Silent
\* The parameter a rank has come to in one of the loops of deploy.
LEMMA LoopAt ==
    ASSUME NEW M, job \in Jobs, Canon(job, M), Core(M), NEW r \in Ranks, NEW phase,
           phase \in {"param", "value", "zero"}, InLoop(r, phase)
    PROVE  /\ proc[r].pc = phase /\ proc[r].mod \in DOMAIN job.modules
           /\ proc[r].at \in 1 .. Size(job, proc[r].mod)
           /\ SetHere(r) = UsersOf(job, proc[r].mod, proc[r].at)
           /\ RankKey(SetHere(r)) \in KeysOf(job)
<1>1. ControlOK(job, r, proc[r]) /\ proc[r].pc = phase /\ proc[r].at <= Len(proc[r].order)
  BY DEF Core, RankOK, InLoop, Running
<1>2. PICK n \in DOMAIN job.modules : n = proc[r].mod
  BY <1>1, PlaceOK
<1>3. proc[r].order = job.modules[n].params /\ proc[r].at \in Nat \ {0} /\ Size(job, n) \in Nat
  BY <1>1, <1>2, ModuleData DEF ControlOK
<1>4. proc[r].at \in 1 .. Size(job, n)
  BY <1>1, <1>3 DEF Size
<1>5. SetHere(r) = UsersOf(job, n, proc[r].at)
  BY <1>2, <1>3 DEF SetHere, UsersOf, Here, Module
<1> QED
  BY <1>1, <1>2, <1>4, <1>5, KeysAsked

\* A rank takes the tag of the users of a parameter.
LEMMA UsedMove ==
    ASSUME NEW M, job \in Jobs, Canon(job, M), Core(M), NEW r \in Ranks, InLoop(r, "param"),
           NEW S, S = SetHere(r), S # {}, proc'[r] = [proc[r] EXCEPT !.pc = "value"]
    PROVE  /\ RankKey(S) \in KeysOf(job) /\ proc[r].pc \notin Unsynced
           /\ Moved(job, M, r, proc[r], proc'[r], Ask(job, MapAt(job, M, proc[r]), RankKey(S)),
                    Point(job, proc[r]))
<1>1. /\ ControlOK(job, r, proc[r]) /\ DOMAIN proc[r] = {"pc", "mod", "at", "load", "order"}
  BY DEF Core, RankOK, ControlOK
<1>2. /\ proc[r].pc = "param" /\ proc[r].mod \in DOMAIN job.modules
      /\ proc[r].at \in 1 .. Size(job, proc[r].mod)
      /\ S = UsersOf(job, proc[r].mod, proc[r].at) /\ RankKey(S) \in KeysOf(job)
  BY LoopAt
<1>3. proc[r].at <= Size(job, proc[r].mod)
  BY <1>2, ModuleData
<1>4. Fields(proc'[r], "value", proc[r].mod, proc[r].at, proc[r].load, proc[r].order)
  BY <1>1, FieldsOf
<1>5. Moved(job, M, r, proc[r], proc'[r], Ask(job, MapAt(job, M, proc[r]), RankKey(S)),
            Point(job, proc[r]))
  BY <1>1, <1>2, <1>3, <1>4, MoveUsed
<1> QED
  BY <1>2, <1>5 DEF Unsynced

\* The users of a parameter create their communicators.
LEMMA ParamCommunicatorCore ==
    ASSUME NEW M, job \in Jobs, Canon(job, M), Core(M), NEW S \in (SUBSET Ranks) \ {{}},
           ParamCommunicator(S)
    PROVE  Core(M)'
<1>1. /\ tagmap' = TagSet(S)
      /\ comms' = [r \in Ranks |->
             IF r \in S THEN AddSet(r, WithNCCL(S, WithMPI(S, comms)))[r] ELSE comms[r]]
      /\ proc' = [r \in Ranks |-> IF r \in S THEN [proc[r] EXCEPT !.pc = "value"] ELSE proc[r]]
      /\ UNCHANGED <<job, inbox, routes, storage>>
      /\ \A r \in S : InLoop(r, "param") /\ SetHere(r) = S
  BY DEF ParamCommunicator
<1>2. ASSUME NEW q \in S
      PROVE  OkAfter(M, q) /\ Point(job, proc'[q]) = Point(job, proc[q])
  <2>1. q \in Ranks /\ proc'[q] = [proc[q] EXCEPT !.pc = "value"] /\ tagmap'[q] = Asked(q, S)
    BY <1>1 DEF TagSet
  <2>2. /\ RankKey(S) \in KeysOf(job) /\ proc[q].pc \notin Unsynced
        /\ Moved(job, M, q, proc[q], proc'[q], Ask(job, MapAt(job, M, proc[q]), RankKey(S)),
                 Point(job, proc[q]))
    BY <1>1, <2>1, UsedMove
  <2>3. DOMAIN comms'[q] = {"mpi", "nccl", "sets"}
        /\ comms'[q].nccl = PutNew(comms[q].nccl, TagOf(q, S), S)
    <3>1. PICK c : c = WithMPI(S, comms)
      OBVIOUS
    <3>2. DOMAIN c[q] = {"mpi", "nccl", "sets"} /\ c[q].nccl = comms[q].nccl
      BY <2>1, <3>1, CommsMade
    <3>3. PICK b, d : b = PutNew(comms[q].nccl, TagOf(q, S), S) /\ d = WithNCCL(S, c)
      OBVIOUS
    <3>4. d[q] = [c[q] EXCEPT !.nccl = b] /\ DOMAIN d = Ranks
      BY <2>1, <3>2, <3>3 DEF WithNCCL
    <3>5. DOMAIN d[q] = {"mpi", "nccl", "sets"} /\ d[q].nccl = b
      BY <3>2, <3>4, Zenon
    <3>6. PICK e : e = PutNew(d[q].sets, TagOf(q, SetHere(q)), SetHere(q))
      OBVIOUS
    <3>7. comms'[q] = [d EXCEPT ![q].sets = e][q]
      BY <1>1, <2>1, <3>1, <3>3, <3>6 DEF AddSet
    <3>8. DOMAIN comms'[q] = {"mpi", "nccl", "sets"} /\ comms'[q].nccl = b
      BY <2>1, <3>4, <3>5, <3>7, Zenon
    <3> QED
      BY <3>3, <3>8
  <2>4. /\ RankOK(job, M, q, proc'[q], tagmap'[q], routes[q], comms'[q], storage[q])
        /\ Point(job, proc'[q]) = Point(job, proc[q])
    BY <2>1, <2>2, <2>3, AskedRank
  <2> QED
    BY <1>1, <2>4 DEF OkAfter
<1>3. \A q \in Ranks \ S : Same(q)
  BY <1>1 DEF Same, TagSet
<1>4. Tables
  BY <1>1 DEF Tables, TagSet, Core
<1> QED
  BY <1>1, <1>2, <1>3, <1>4, Silent

\* A rank makes the tag of a parameter's users.
LEMMA ParamTagCore ==
    ASSUME NEW M, job \in Jobs, Canon(job, M), Core(M), NEW r \in Ranks, ParamTag(r)
    PROVE  Core(M)'
<1>1. PICK S : S = SetHere(r) /\ S # {}
  BY DEF ParamTag
<1>2. PICK e : e = PutNew(comms[r].sets, TagOf(r, S), S)
  OBVIOUS
<1>3. /\ tagmap' = [tagmap EXCEPT ![r] = Asked(r, S)] /\ proc' = [proc EXCEPT ![r].pc = "value"]
      /\ comms' = [comms EXCEPT ![r].sets = e]
      /\ UNCHANGED <<job, inbox, routes, storage>> /\ InLoop(r, "param")
  BY <1>1, <1>2 DEF ParamTag, AddSet
<1>4. /\ DOMAIN tagmap = Ranks /\ DOMAIN proc = Ranks /\ DOMAIN comms = Ranks
      /\ DOMAIN comms[r] = {"mpi", "nccl", "sets"}
  BY DEF Core, RankOK, CommsOK
<1>5. /\ DOMAIN comms' = Ranks /\ DOMAIN comms'[r] = {"mpi", "nccl", "sets"}
      /\ comms'[r].nccl = comms[r].nccl /\ \A q \in Ranks \ {r} : comms'[q] = comms[q]
  BY <1>3, <1>4, Zenon
<1>6. tagmap'[r] = Asked(r, S) /\ proc'[r] = [proc[r] EXCEPT !.pc = "value"]
  BY <1>3, <1>4
<1>7. /\ RankKey(S) \in KeysOf(job) /\ proc[r].pc \notin Unsynced
      /\ Moved(job, M, r, proc[r], proc'[r], Ask(job, MapAt(job, M, proc[r]), RankKey(S)),
               Point(job, proc[r]))
  BY <1>1, <1>3, <1>6, UsedMove
<1>8. /\ RankOK(job, M, r, proc'[r], tagmap'[r], routes[r], comms'[r], storage[r])
      /\ Point(job, proc'[r]) = Point(job, proc[r])
  BY <1>5, <1>6, <1>7, AskedRank
<1>9. OkAfter(M, r)
  BY <1>3, <1>8 DEF OkAfter
<1>10. (\A q \in Ranks \ {r} : Same(q)) /\ Tables
  BY <1>3, <1>4, <1>5 DEF Same, Tables, Core
<1> QED
  BY <1>3, <1>8, <1>9, <1>10, Silent

\* The users of a parameter register its gradient.
LEMMA RegisterGradCore ==
    ASSUME NEW M, job \in Jobs, Canon(job, M), Core(M), NEW S \in (SUBSET Ranks) \ {{}},
           RegisterGrad(S)
    PROVE  Core(M)'
<1>1. /\ tagmap' = TagSet(S) /\ comms' = WithMPI(S, comms)
      /\ proc' = [r \in Ranks |-> IF r \in S THEN [proc[r] EXCEPT !.at = @ + 1] ELSE proc[r]]
      /\ UNCHANGED <<job, inbox, routes, storage>>
      /\ \A r \in S : InLoop(r, "zero") /\ SetHere(r) = S
  BY DEF RegisterGrad
<1>2. ASSUME NEW q \in S
      PROVE  OkAfter(M, q) /\ Point(job, proc'[q]) = Point(job, proc[q])
  <2>1. q \in Ranks /\ proc'[q] = [proc[q] EXCEPT !.at = proc[q].at + 1] /\ tagmap'[q] = Asked(q, S)
    BY <1>1 DEF TagSet
  <2>2. /\ ControlOK(job, q, proc[q]) /\ DOMAIN proc[q] = {"pc", "mod", "at", "load", "order"}
    BY <2>1 DEF Core, RankOK, ControlOK
  <2>3. /\ proc[q].pc = "zero" /\ proc[q].mod \in DOMAIN job.modules
        /\ proc[q].at \in 1 .. Size(job, proc[q].mod)
        /\ S = UsersOf(job, proc[q].mod, proc[q].at) /\ RankKey(S) \in KeysOf(job)
    BY <1>1, <2>1, LoopAt
  <2>4. proc[q].at <= Size(job, proc[q].mod)
    BY <2>3, ModuleData
  <2>5. Fields(proc'[q], "zero", proc[q].mod, proc[q].at + 1, proc[q].load, proc[q].order)
    BY <2>1, <2>2, <2>3, FieldsOf
  <2>6. Ask(job, MapAt(job, M, proc[q]), RankKey(S)) = MapAt(job, M, proc[q])
    BY <2>2, <2>3, <2>4, UsersKnown
  <2>7. Moved(job, M, q, proc[q], proc'[q], Ask(job, MapAt(job, M, proc[q]), RankKey(S)),
              Point(job, proc[q]))
    BY <2>2, <2>3, <2>4, <2>5, <2>6, MoveGrad
  <2>8. DOMAIN comms'[q] = {"mpi", "nccl", "sets"} /\ comms'[q].nccl = comms[q].nccl
    BY <1>1, <2>1, CommsMade
  <2>9. proc[q].pc \notin Unsynced
    BY <2>3 DEF Unsynced
  <2>10. /\ RankOK(job, M, q, proc'[q], tagmap'[q], routes[q], comms'[q], storage[q])
         /\ Point(job, proc'[q]) = Point(job, proc[q])
    BY <2>1, <2>3, <2>7, <2>8, <2>9, AskedRank
  <2> QED
    BY <1>1, <2>10 DEF OkAfter
<1>3. ASSUME NEW q \in Ranks \ S
      PROVE  Same(q)
  <2>1. comms'[q] = comms[q]
    BY <1>1, CommsMade
  <2> QED
    BY <1>1, <2>1 DEF Same, TagSet
<1>4. Tables
  BY <1>1 DEF Tables, TagSet, WithMPI, Core
<1> QED
  BY <1>1, <1>2, <1>3, <1>4, Silent

\* All ranks pass the barrier.
LEMMA BarrierCore ==
    ASSUME NEW M, job \in Jobs, Canon(job, M), Core(M), Barrier
    PROVE  Core(M)'
<1>1. /\ proc' = [r \in Ranks |-> [proc[r] EXCEPT !.pc = "deployment"]]
      /\ UNCHANGED <<job, inbox, tagmap, comms, routes, storage>>
  BY DEF Barrier
<1>2. ASSUME NEW q \in Ranks
      PROVE  OkAfter(M, q) /\ Point(job, proc'[q]) = Point(job, proc[q])
  <2>1. /\ RankOK(job, M, q, proc[q], tagmap[q], routes[q], comms[q], storage[q])
        /\ ControlOK(job, q, proc[q]) /\ DOMAIN proc[q] = {"pc", "mod", "at", "load", "order"}
        /\ proc[q].pc = "barrier" /\ proc'[q] = [proc[q] EXCEPT !.pc = "deployment"]
    BY <1>1 DEF Core, RankOK, ControlOK, Barrier, Running
  <2>2. Fields(proc'[q], "deployment", proc[q].mod, proc[q].at, proc[q].load, proc[q].order)
    BY <2>1, FieldsOf
  <2>3. Moved(job, M, q, proc[q], proc'[q], MapAt(job, M, proc[q]), Point(job, proc[q]))
    BY <2>1, <2>2, MoveBarrier
  <2>4. proc'[q].pc \in Unsynced
    BY <2>2 DEF Fields, Unsynced
  <2>5. RankOK(job, M, q, proc'[q], tagmap[q], routes[q], comms[q], storage[q])
    BY <2>1, <2>3, <2>4, KeepRank
  <2> QED
    BY <1>1, <2>3, <2>5 DEF OkAfter, Moved
<1>3. Tables
  BY <1>1 DEF Tables, Core
<1> QED
  BY <1>1, <1>2, <1>3, Silent
\* A rank goes on after load.
LEMMA LoadedMove ==
    ASSUME NEW M, job \in Jobs, Canon(job, M), Core(M), NEW q \in Ranks,
           proc[q].pc \in {"trace_load", "master_load", "fetch_load", "param_load"},
           proc'[q] = AfterLoad(q)
    PROVE  /\ Moved(job, M, q, proc[q], proc'[q], MapAt(job, M, proc[q]), Point(job, proc[q]))
           /\ proc[q].pc = "param_load" => /\ proc'[q].pc = "param" /\ proc'[q].mod = proc[q].mod
                                           /\ proc'[q].at = proc[q].at + 1
<1>1. /\ ControlOK(job, q, proc[q]) /\ DOMAIN proc[q] = {"pc", "mod", "at", "load", "order"}
  BY DEF Core, RankOK, ControlOK
<1>2. CASE proc[q].pc = "trace_load"
  <2>1. proc'[q] = [proc[q] EXCEPT !.pc = "trace", !.at = proc[q].at + 1]
    BY <1>2 DEF AfterLoad
  <2>2. Fields(proc'[q], "trace", proc[q].mod, proc[q].at + 1, proc[q].load, proc[q].order)
    BY <1>1, <2>1, FieldsOf
  <2>3. proc[q].at <= Size(job, proc[q].mod)
    BY <1>1, <1>2 DEF ControlOK
  <2>4. Moved(job, M, q, proc[q], proc'[q], MapAt(job, M, proc[q]), Point(job, proc[q]))
    BY <1>1, <1>2, <2>2, <2>3, MoveTrace
  <2> QED
    BY <1>2, <2>4
<1>3. CASE proc[q].pc \in {"master_load", "fetch_load"}
  <2>1. PICK phase : phase = IF proc[q].pc = "master_load" THEN "master" ELSE "fetching"
    OBVIOUS
  <2>2. proc'[q] = [proc[q] EXCEPT !.pc = phase]
    BY <1>3, <2>1 DEF AfterLoad
  <2>3. Fields(proc'[q], phase, proc[q].mod, proc[q].at, proc[q].load, proc[q].order)
    BY <1>1, <2>2, FieldsOf
  <2>4. Moved(job, M, q, proc[q], proc'[q], MapAt(job, M, proc[q]), Point(job, proc[q]))
    BY <1>1, <1>3, <2>1, <2>3, MoveLoaded
  <2> QED
    BY <1>3, <2>4
<1>4. CASE proc[q].pc = "param_load"
  <2>1. proc'[q] = [proc[q] EXCEPT !.pc = "param", !.at = proc[q].at + 1]
    BY <1>4 DEF AfterLoad
  <2>2. Fields(proc'[q], "param", proc[q].mod, proc[q].at + 1, proc[q].load, proc[q].order)
    BY <1>1, <2>1, FieldsOf
  <2>3. job.modules[proc[q].mod].params[proc[q].at] \in ToSet(job.stored)
    BY <1>1, <1>4 DEF ControlOK
  <2>4. Moved(job, M, q, proc[q], proc'[q], MapAt(job, M, proc[q]), Point(job, proc[q]))
    BY <1>1, <1>4, <2>2, <2>3, MoveTaken
  <2> QED
    BY <2>2, <2>4 DEF Fields
<1> QED
  BY <1>2, <1>3, <1>4

\* All ranks load.
LEMMA LoadCore ==
    ASSUME NEW M, job \in Jobs, Canon(job, M), Core(M), Load
    PROVE  Core(M)'
<1>1. /\ tagmap' = TagSet(Ranks) /\ comms' = WithNCCL(Ranks, comms)
      /\ proc' = [r \in Ranks |-> AfterLoad(r)] /\ UNCHANGED <<job, inbox, routes>>
      /\ DOMAIN storage' = Ranks
      /\ \A r \in Ranks : proc[r].pc \in {"trace_load", "master_load", "fetch_load", "param_load"}
  BY DEF Load
<1>2. ASSUME NEW q \in Ranks
      PROVE  OkAfter(M, q) /\ Point(job, proc'[q]) = Point(job, proc[q])
  <2>1. proc'[q] = AfterLoad(q) /\ tagmap'[q] = Asked(q, Ranks)
    BY <1>1 DEF TagSet
  <2>2. /\ Moved(job, M, q, proc[q], proc'[q], MapAt(job, M, proc[q]), Point(job, proc[q]))
        /\ proc[q].pc = "param_load" => /\ proc'[q].pc = "param" /\ proc'[q].mod = proc[q].mod
                                        /\ proc'[q].at = proc[q].at + 1
    BY <1>1, <2>1, LoadedMove
  <2>3. ControlOK(job, q, proc[q])
    BY DEF Core, RankOK
  <2>4. Ask(job, MapAt(job, M, proc[q]), RankKey(Ranks)) = MapAt(job, M, proc[q])
    BY <1>1, <2>3, RanksKnown
  <2>5. /\ DOMAIN comms'[q] = {"mpi", "nccl", "sets"}
        /\ \/ comms'[q].nccl = comms[q].nccl
           \/ comms'[q].nccl = PutNew(comms[q].nccl, TagOf(q, Ranks), Ranks)
    BY <1>1, CommsMade
  <2>6. RankKey(Ranks) \in KeysOf(job) /\ proc[q].pc \notin Unsynced
    BY <1>1 DEF KeysOf, Unsynced
  <2>7. Moved(job, M, q, proc[q], proc'[q], Ask(job, MapAt(job, M, proc[q]), RankKey(Ranks)),
              Point(job, proc[q]))
    BY <2>2, <2>4
  <2>8. /\ RankOK(job, M, q, proc'[q], tagmap'[q], routes[q], comms'[q], storage[q])
        /\ Point(job, proc'[q]) = Point(job, proc[q])
    BY <2>1, <2>5, <2>6, <2>7, AskedRank
  <2>9. StorageOK(job, q, proc'[q], storage'[q])
    <3>1. ControlOK(job, q, proc'[q]) /\ StorageOK(job, q, proc'[q], storage[q])
      BY <2>8 DEF RankOK
    <3>2. CASE proc[q].pc # "param_load"
      <4>1. storage'[q] = storage[q]
        BY <3>2 DEF Load
      <4> QED
        BY <3>1, <4>1
    <3>3. CASE proc[q].pc = "param_load"
      <4>1. PICK p, v : p = proc[q].load /\ v = Gathered(q)
        OBVIOUS
      <4>2. storage'[q] = [dist |-> storage[q].dist \ {p}, value |-> Put(storage[q].value, p, v)]
        BY <3>3, <4>1 DEF Load
      <4>3. Touched(p, storage[q], storage'[q])
        BY <4>2 DEF Touched, Put
      <4>4. p = job.modules[proc[q].mod].params[proc[q].at] /\ proc[q].at <= Size(job, proc[q].mod)
        BY <2>3, <3>3, <4>1 DEF ControlOK
      <4> QED
        BY <2>2, <2>3, <3>1, <3>3, <4>3, <4>4, StorageTaken
    <3> QED
      BY <3>2, <3>3
  <2> QED
    BY <1>1, <2>8, <2>9 DEF OkAfter, RankOK
<1>3. Tables
  BY <1>1 DEF Tables, TagSet, WithNCCL, Core
<1> QED
  BY <1>1, <1>2, <1>3, Silent

\* A module is ready.
LEMMA ReadyMove ==
    ASSUME NEW M, job \in Jobs, Canon(job, M), Core(M), NEW r \in Ranks, Ready(r)
    PROVE  /\ DOMAIN proc' = Ranks /\ \A q \in Ranks \ {r} : proc'[q] = proc[q]
           /\ Moved(job, M, r, proc[r], proc'[r],
                    IF job.gather THEN MapAt(job, M, proc[r])
                    ELSE Ask(job, MapAt(job, M, proc[r]), RankKey({0})), Point(job, proc[r]))
<1>1. /\ ControlOK(job, r, proc[r]) /\ DOMAIN proc[r] = {"pc", "mod", "at", "load", "order"}
      /\ DOMAIN proc = Ranks
  BY DEF Core, RankOK, ControlOK
<1>2. proc[r].pc = "route" /\ proc[r].at > Len(Comms(job, proc[r].mod))
  BY DEF Ready, Running, Comms, Module
<1>3. CASE proc[r].mod < Len(job.modules)
  <2>1. PICK order : order = Reverse(job.modules[proc[r].mod + 1].params)
    OBVIOUS
  <2>2. proc' = [Enter(r, "register") EXCEPT ![r].mod = @ + 1, ![r].order = order]
    BY <1>3, <2>1 DEF Ready
  <2>3. Goes(r, "register", proc[r].mod + 1, 1, proc[r].load, order)
    BY <1>1, <2>2, Zenon DEF Enter, Goes, Fields
  <2> QED
    BY <1>1, <1>2, <1>3, <2>3, MoveNextModule DEF Goes
<1>4. CASE ~(proc[r].mod < Len(job.modules))
  <2>1. Goes(r, "done", proc[r].mod, 1, proc[r].load, proc[r].order)
    BY <1>4, EnterGoes DEF Ready
  <2> QED
    BY <1>1, <1>2, <1>4, <2>1, MoveDone DEF Goes
<1> QED
  BY <1>3, <1>4

\* A rank goes on to the next module, or is done.
LEMMA ReadyCore ==
    ASSUME NEW M, job \in Jobs, Canon(job, M), Core(M), NEW r \in Ranks, Ready(r)
    PROVE  Core(M)'
<1>1. /\ proc[r].pc \notin Unsynced /\ DOMAIN tagmap = Ranks
      /\ DOMAIN comms[r] = {"mpi", "nccl", "sets"}
      /\ UNCHANGED <<job, inbox, comms, routes, storage>>
  BY DEF Ready, Running, Unsynced, Core, RankOK, CommsOK
<1>2. DOMAIN proc' = Ranks /\ \A q \in Ranks \ {r} : proc'[q] = proc[q]
  BY ReadyMove
<1>3. CASE job.gather
  <2>1. Moved(job, M, r, proc[r], proc'[r], MapAt(job, M, proc[r]), Point(job, proc[r]))
    BY <1>3, ReadyMove
  <2>2. tagmap' = [tagmap EXCEPT ![r] = tagmap[r]]
    BY <1>3 DEF Ready
  <2>3. tagmap'[r] = tagmap[r]
    BY <1>1, <2>2
  <2>4. RankOK(job, M, r, proc[r], tagmap[r], routes[r], comms[r], storage[r])
    BY DEF Core
  <2>5. RankOK(job, M, r, proc'[r], tagmap[r], routes[r], comms[r], storage[r])
    BY <1>1, <2>1, <2>4, KeepRank
  <2>6. OkAfter(M, r) /\ Point(job, proc'[r]) = Point(job, proc[r])
    BY <1>1, <2>1, <2>3, <2>5 DEF OkAfter, Moved
  <2>7. (\A q \in Ranks \ {r} : Same(q)) /\ Tables
    BY <1>1, <1>2, <2>2 DEF Same, Tables, Core
  <2> QED
    BY <1>1, <2>6, <2>7, Silent
<1>4. CASE ~job.gather
  <2>1. Moved(job, M, r, proc[r], proc'[r], Ask(job, MapAt(job, M, proc[r]), RankKey({0})),
              Point(job, proc[r]))
    BY <1>4, ReadyMove
  <2>2. tagmap' = [tagmap EXCEPT ![r] = Asked(r, {0})]
    BY <1>4 DEF Ready
  <2>3. tagmap'[r] = Asked(r, {0}) /\ RankKey({0}) \in KeysOf(job)
    BY <1>1, <2>2 DEF KeysOf
  <2>4. /\ RankOK(job, M, r, proc'[r], tagmap'[r], routes[r], comms'[r], storage[r])
        /\ Point(job, proc'[r]) = Point(job, proc[r])
    BY <1>1, <2>1, <2>3, AskedRank
  <2>5. OkAfter(M, r)
    BY <1>1, <2>4 DEF OkAfter
  <2>6. (\A q \in Ranks \ {r} : Same(q)) /\ Tables
    BY <1>1, <1>2, <2>2 DEF Same, Tables, Core
  <2> QED
    BY <1>1, <2>4, <2>5, <2>6, Silent
<1> QED
  BY <1>3, <1>4
-----------------------------------------------------------------------------
(* The ranks make the same tags. *)

Inv ==
    /\ job \in Jobs
    /\ IF status = "running" THEN \E M : Canon(job, M) /\ Core(M) ELSE TagsAgree

\* At the start no rank has done anything.
LEMMA InitCore ==
    ASSUME Init, NEW M, Canon(job, M)
    PROVE  Core(M)
<1>1. /\ job \in Jobs /\ 0 \in Ranks
      /\ proc = [r \in Ranks |-> [pc |-> "store", mod |-> 1, at |-> 1, load |-> << >>,
                     order |-> IF r = 0 THEN job.modules[1].params
                                        ELSE Reverse(job.modules[1].params)]]
      /\ inbox = [r \in Ranks |-> << >>]
      /\ tagmap = [r \in Ranks |-> [tag |-> << >>, taken |-> {}]]
      /\ comms = [r \in Ranks |-> [mpi |-> << >>, nccl |-> << >>, sets |-> << >>]]
      /\ routes = [r \in Ranks |-> << >>]
      /\ storage = [r \in Ranks |-> [dist |-> {}, value |-> << >>]]
  BY Constants DEF Init
<1>2. 1 \in 1 .. Len(job.modules) /\ Len(job.stored) \in Nat
  BY <1>1, ModulesFrom1
<1>3. ASSUME NEW r \in Ranks
      PROVE  /\ RankOK(job, M, r, proc[r], tagmap[r], routes[r], comms[r], storage[r])
             /\ Point(job, proc[r]) = RegisterPoint(job, 1, 1)
  <2>1. PICK order : proc[r] = [pc |-> "store", mod |-> 1, at |-> 1, load |-> << >>, order |-> order]
    BY <1>1
  <2>2. Fields(proc[r], "store", 1, 1, << >>, order)
    BY <2>1 DEF Fields
  <2>3. ControlOK(job, r, proc[r])
    BY <1>2, <2>2 DEF Fields, ControlOK, Phases
  <2>4. MapAt(job, M, proc[r]) = NoTags /\ Point(job, proc[r]) = RegisterPoint(job, 1, 1)
    BY <2>2 DEF Fields, MapAt, Point
  <2>5. TagsOK(job, M, r, proc[r], tagmap[r])
    <3>1. tagmap[r] = NoTags
      BY <1>1 DEF NoTags
    <3>2. View(r, NoTags) = NoTags
      <4>1. DOMAIN NoTags.tag = {} /\ NoTags = [tag |-> << >>, taken |-> {}]
        BY <1>1, StartMapOK DEF NoTags
      <4>2. RankPart(NoTags.tag) = << >>
        BY <4>1 DEF RankPart
      <4> QED
        BY <4>1, <4>2 DEF View
    <3> QED
      BY <2>4, <3>1, <3>2 DEF TagsOK
  <2>6. RoutesIn(routes[r], MapAt(job, M, proc[r]))
    BY <1>1 DEF RoutesIn
  <2>7. CommsOK(tagmap[r], comms[r])
    BY <1>1 DEF CommsOK
  <2>8. StorageOK(job, r, proc[r], storage[r])
    <3>1. storage[r] = [dist |-> {}, value |-> << >>]
      BY <1>1
    <3>2. DOMAIN storage[r] = {"dist", "value"} /\ storage[r].dist = {}
      BY <3>1
    <3>3. Deployed(job, proc[r]) = 0 /\ Registering(job, proc[r]) = 0
      BY <2>2 DEF Fields, Deployed, Registering
    <3>4. 0 + 1 .. 0 = {}
      OBVIOUS
    <3> QED
      BY <3>2, <3>3, <3>4 DEF StorageOK
  <2> QED
    BY <2>3, <2>4, <2>5, <2>6, <2>7, <2>8 DEF RankOK
<1>4. ASSUME NEW r \in Ranks \ {0}
      PROVE  Path(job, M, inbox[r], Point(job, proc[r]), Point(job, proc[0]))
  BY <1>1, <1>3, PathEmpty
<1> QED
  BY <1>1, <1>3, <1>4 DEF Core

\* A step that leaves the job running keeps every rank on the run on paper.
LEMMA StepCore ==
    ASSUME NEW M, job \in Jobs, Canon(job, M), Core(M), Step, status' = "running"
    PROVE  Core(M)'
<1>1. ASSUME NEW r \in Ranks, Local(r)
      PROVE  Core(M)'
  BY <1>1, StoredCore, RegisterParamCore, RegisteredCore, TraceCore, SyncDebugNameCore,
     FindCommunicatorCore, FetchLoopCore, BcastDeploymentCore, SyncCore, SkipParamCore,
     ParamTagCore, TakeDistributedCore, SyncParamOnInitCore, ParamsDoneCore, SkipGradCore,
     GradsDoneCore, SyncAgainCore, ReadyCore DEF Local
<1>2. CASE Joint
  BY <1>2, StoreCore, LoadCore, BarrierCore, CreateCommunicatorCore, ParamCommunicatorCore,
     RegisterGradCore DEF Joint
<1>3. CASE Master
  <2>1. CASE MasterFails
    BY <2>1 DEF MasterFails, Threw
  <2> QED
    BY <1>3, <2>1, FetchCore, DecomposeCore DEF Master
<1> QED
  BY <1>1, <1>2, <1>3 DEF Step

\* Only a running job goes on.
LEMMA StepRuns ==
    ASSUME Step
    PROVE  status = "running" /\ job' = job
<1>1. 0 \in Ranks
  BY Constants
<1>2. CASE \E r \in Ranks : Local(r)
  BY <1>2 DEF Local, Stored, RegisterParam, Registered, Trace, SyncDebugName, FindCommunicator,
     FetchLoop, BcastDeployment, Sync, SkipParam, ParamTag, TakeDistributed, SyncParamOnInit,
     ParamsDone, SkipGrad, GradsDone, SyncAgain, Ready, Running, InLoop
<1>3. CASE Joint
  BY <1>1, <1>3 DEF Joint, Store, Load, Barrier, CreateCommunicator, ParamCommunicator,
     RegisterGrad, Running, InLoop
<1>4. CASE Master
  BY <1>4 DEF Master, Fetch, MasterFails, Decompose, Running
<1> QED
  BY <1>2, <1>3, <1>4 DEF Step

\* A step that ends the job makes no tag.
LEMMA AbortKeepsTags ==
    ASSUME NEW M, job \in Jobs, Canon(job, M), Core(M), Step, status' # "running"
    PROVE  /\ job' = job /\ routes' = routes /\ comms' = comms
           /\ \A r \in Ranks : tagmap'[r].tag = tagmap[r].tag
<1>1. status = "running"
  BY StepRuns
<1>2. (\E r \in Ranks : FetchLoop(r) \/ Sync(r)) \/ MasterFails
  <2>1. CASE \E r \in Ranks : Local(r)
    <3>1. PICK r \in Ranks : Local(r)
      BY <2>1
    <3>2. FetchLoop(r) \/ Sync(r)
      BY <1>1, <3>1 DEF Local, Stored, RegisterParam, Registered, Trace, SyncDebugName,
         FindCommunicator, BcastDeployment, SkipParam, ParamTag, TakeDistributed,
         SyncParamOnInit, ParamsDone, SkipGrad, GradsDone, SyncAgain, Ready
    <3> QED
      BY <3>2
  <2>2. CASE Joint
    BY <1>1, <2>2 DEF Joint, Store, Load, Barrier, CreateCommunicator, ParamCommunicator,
       RegisterGrad
  <2>3. CASE Master
    BY <1>1, <2>3 DEF Master, Fetch, Decompose
  <2> QED
    BY <2>1, <2>2, <2>3 DEF Step
<1>3. CASE MasterFails \/ \E r \in Ranks : FetchLoop(r)
  BY <1>3 DEF MasterFails, FetchLoop
<1>4. ASSUME NEW r \in Ranks, Sync(r)
      PROVE  /\ job' = job /\ routes' = routes /\ comms' = comms
             /\ \A q \in Ranks : tagmap'[q].tag = tagmap[q].tag
  <2>1. /\ job' = job /\ routes' = routes /\ comms' = comms
        /\ tagmap' = [tagmap EXCEPT ![r].taken = TagsAfterSync(r)]
    BY <1>4 DEF Sync
  <2>2. DOMAIN tagmap = Ranks
    BY DEF Core
  <2>3. DOMAIN tagmap[r] = {"tag", "taken"}
    <3>1. ControlOK(job, r, proc[r]) /\ TagsOK(job, M, r, proc[r], tagmap[r])
      BY DEF Core, RankOK
    <3>2. PICK m \in TagMaps(job) : m = MapAt(job, M, proc[r])
      BY <3>1, PlaceOK
    <3>3. DOMAIN m = {"tag", "taken"}
      BY DEF TagMaps
    <3> QED
      BY <3>1, <3>2, <3>3 DEF TagsOK, View
  <2>4. \A q \in Ranks : tagmap'[q].tag = tagmap[q].tag
    BY <2>1, <2>2, <2>3, Zenon
  <2> QED
    BY <2>1, <2>4
<1> QED
  BY <1>2, <1>3, <1>4

\* What TagsAgree is about stays as it is.
LEMMA TagsAgreeKept ==
    ASSUME TagsAgree, routes' = routes, comms' = comms,
           \A r \in Ranks : tagmap'[r].tag = tagmap[r].tag
    PROVE  TagsAgree'
  BY DEF TagsAgree

\* The invariant holds at the start.
LEMMA InvInit ==
    ASSUME Init
    PROVE  Inv
<1>1. job \in Jobs
  BY DEF Init
<1>2. PICK M : Canon(job, M)
  BY <1>1, CanonExists
<1>3. Core(M)
  BY <1>2, InitCore
<1> QED
  BY <1>1, <1>2, <1>3 DEF Inv, Init

\* Every step keeps the invariant.
LEMMA InvNext ==
    ASSUME Inv, [Next]_vars
    PROVE  Inv'
<1>1. CASE Step
  <2>1. status = "running" /\ job' = job
    BY <1>1, StepRuns
  <2>2. PICK M : Canon(job, M) /\ Core(M) /\ job \in Jobs
    BY <2>1 DEF Inv
  <2>3. CASE status' = "running"
    <3>1. Core(M)'
      BY <1>1, <2>2, <2>3, StepCore
    <3> QED
      BY <2>1, <2>2, <2>3, <3>1 DEF Inv
  <2>4. CASE status' # "running"
    <3>1. TagsAgree
      BY <2>2, CoreTagsAgree
    <3>2. /\ routes' = routes /\ comms' = comms
          /\ \A r \in Ranks : tagmap'[r].tag = tagmap[r].tag
      BY <1>1, <2>2, <2>4, AbortKeepsTags
    <3>3. TagsAgree'
      BY <3>1, <3>2, TagsAgreeKept
    <3> QED
      BY <2>1, <2>2, <2>4, <3>3 DEF Inv
  <2> QED
    BY <2>3, <2>4
<1>2. CASE UNCHANGED vars
  BY <1>2 DEF vars, Inv, Core, TagsAgree
<1> QED
  BY <1>1, <1>2 DEF Next, Terminated

\* The invariant is strong enough.
LEMMA InvTagsAgree ==
    ASSUME Inv
    PROVE  TagsAgree
<1>1. CASE status = "running"
  <2>1. PICK M : Canon(job, M) /\ Core(M) /\ job \in Jobs
    BY <1>1 DEF Inv
  <2> QED
    BY <2>1, CoreTagsAgree
<1> QED
  BY <1>1 DEF Inv

\* The ranks make the same tags: whatever the hash, and however the ranks
\* interleave, two ranks that have a tag for one set of ranks have the same, no
\* tag stands for two sets or for a set and a route, and every NCCL communicator
\* is kept under the tag of its ranks (TagMap, its sync in deploy and deployGraph).
THEOREM TagsAlwaysAgree == Spec => []TagsAgree
<1>1. Init => Inv
  BY InvInit
<1>2. Inv /\ [Next]_vars => Inv'
  BY InvNext
<1>3. Inv => TagsAgree
  BY InvTagsAgree
<1> QED
  BY <1>1, <1>2, <1>3, PTL DEF Spec
-----------------------------------------------------------------------------
(* The ranks' parameters, in jobs that keep to JobsSeparate. *)

\* How many parameters a rank has stored.
Count(j, x) == IF x.pc = "store" THEN x.at - 1 ELSE Len(j.stored)

\* The rank has deployed parameter i of module n.
Done(j, x, n, i) == n < x.mod \/ (n = x.mod /\ i <= Deployed(j, x))

\* The rank may yet be asked for parameters of module n by their ids.
Asking(x, n) ==
    n > x.mod \/ (n = x.mod /\ x.pc \notin {"param", "value", "param_load", "zero", "sync2", "route", "done"})

\* A parameter after its deployment: rank 0's tensor, or each rank's own segment.
Whole(p) ==
    [k \in 1 .. Numel[p] |-> <<p, k, (k - 1) \div ((Numel[p] + NumRanks - 1) \div NumRanks)>>]
Holds(st, p, v) == p \in DOMAIN st.value /\ st.value[p] = v
Final(j, p) == IF p \in ToSet(j.stored) THEN Whole(p) ELSE Tensor(p, 0)

\* A rank holds its segments of what is not deployed and finds them by rank 0's
\* ids; what it has deployed is whole.
ParamsOK(j, r, x, loc, st) ==
    /\ DOMAIN loc = {"known", "part"}
    /\ \A p \in DOMAIN loc.part : loc.part[p] = Segment(p, r)
    /\ \A n \in DOMAIN j.modules : \A i \in 1 .. Size(j, n) :
           LET p == j.modules[n].params[i]
           IN  Done(j, x, n, i) => /\ p \in ToSet(j.stored) => p \notin DOMAIN loc.part
                                   /\ r \in UsersOf(j, n, i) => Holds(st, p, Final(j, p))
    /\ \A n \in DOMAIN j.modules : \A c \in 1 .. Count(j, x) :
           LET p == j.stored[c]
           IN  Asking(x, n) /\ p \in ToSet(j.modules[n].params) =>
                   j.id[0][p] \in DOMAIN loc.known

\* All ranks have passed the same barriers and stored the same parameters, and
\* hold segments of the same.
Together(q, r) ==
    /\ Barriers(proc[q]) = Barriers(proc[r]) /\ Count(job, proc[q]) = Count(job, proc[r])
    /\ DOMAIN locator[q].part = DOMAIN locator[r].part

Deep ==
    /\ DOMAIN locator = Ranks
    /\ \A r \in Ranks : ParamsOK(job, r, proc[r], locator[r], storage[r])
    /\ \A q, r \in Ranks : Together(q, r)

\* A rank goes from x to y, and deploys at most what it does not use.
Quiet(j, r, x, y) ==
    /\ Barriers(y) = Barriers(x) /\ Count(j, y) = Count(j, x)
    /\ \A n \in DOMAIN j.modules : Asking(y, n) => Asking(x, n)
    /\ \A n \in DOMAIN j.modules : \A i \in 1 .. Size(j, n) :
           Done(j, y, n, i) => \/ Done(j, x, n, i)
                               \/ /\ j.modules[n].params[i] \notin ToSet(j.stored)
                                  /\ r \notin UsersOf(j, n, i)

\* A quiet move of one rank leaves its parameters right.
LEMMA QuietRank ==
    ASSUME NEW j, NEW r, NEW x, NEW y, NEW loc, NEW st, ParamsOK(j, r, x, loc, st), Quiet(j, r, x, y)
    PROVE  ParamsOK(j, r, y, loc, st)
<1>1. Count(j, y) = Count(j, x) /\ \A n \in DOMAIN j.modules : Asking(y, n) => Asking(x, n)
  BY DEF Quiet
<1>2. \A n \in DOMAIN j.modules : \A c \in 1 .. Count(j, y) :
          Asking(y, n) /\ j.stored[c] \in ToSet(j.modules[n].params) =>
              j.id[0][j.stored[c]] \in DOMAIN loc.known
  BY <1>1 DEF ParamsOK
<1>3. ASSUME NEW n \in DOMAIN j.modules, NEW i \in 1 .. Size(j, n), NEW p,
             p = j.modules[n].params[i], Done(j, y, n, i)
      PROVE  /\ p \in ToSet(j.stored) => p \notin DOMAIN loc.part
             /\ r \in UsersOf(j, n, i) => Holds(st, p, Final(j, p))
  BY <1>3 DEF ParamsOK, Quiet
<1> QED
  BY <1>2, <1>3 DEF ParamsOK

\* A step in which every rank is quiet.
LEMMA QuietStep ==
    ASSUME Deep, UNCHANGED <<job, locator, storage>>,
           \A q \in Ranks : Quiet(job, q, proc[q], proc'[q])
    PROVE  Deep'
<1>1. ASSUME NEW r \in Ranks
      PROVE  ParamsOK(job', r, proc'[r], locator'[r], storage'[r])
  BY QuietRank DEF Deep
<1>2. ASSUME NEW q \in Ranks, NEW r \in Ranks
      PROVE  Together(q, r)'
  <2>1. /\ Barriers(proc[q]) = Barriers(proc[r]) /\ Count(job, proc[q]) = Count(job, proc[r])
        /\ DOMAIN locator[q].part = DOMAIN locator[r].part
    BY DEF Deep, Together
  <2>2. /\ Barriers(proc'[q]) = Barriers(proc[q]) /\ Count(job, proc'[q]) = Count(job, proc[q])
        /\ Barriers(proc'[r]) = Barriers(proc[r]) /\ Count(job, proc'[r]) = Count(job, proc[r])
    BY DEF Quiet
  <2> QED
    BY <2>1, <2>2 DEF Together
<1> QED
  BY <1>1, <1>2 DEF Deep

\* A rank that stays is quiet.
LEMMA QuietStays ==
    ASSUME NEW j, NEW r, NEW x
    PROVE  Quiet(j, r, x, x)
  BY DEF Quiet

\* A quiet step of one rank.
LEMMA QuietLocal ==
    ASSUME Deep, UNCHANGED <<job, locator, storage>>, NEW r \in Ranks,
           \A q \in Ranks \ {r} : proc'[q] = proc[q], Quiet(job, r, proc[r], proc'[r])
    PROVE  Deep'
<1>1. \A q \in Ranks : Quiet(job, q, proc[q], proc'[q])
  BY QuietStays
<1> QED
  BY <1>1, QuietStep

\* The moves within a module that pass no barrier and deploy nothing.
Plain(j, x, y) ==
    LET Early == {"register", "trace", "trace_load", "fetchStart", "master", "master_load",
                  "fetching", "fetch_load", "barrier"}
        Loop  == {"param", "value", "param_load"}
        Late  == {"zero", "sync2", "route", "done"}
    IN  \/ x.pc \in Early /\ y.pc \in Early
        \/ x.pc = "store" /\ y.pc = "register" /\ x.at > Len(j.stored)
        \/ x.pc \in {"deployment", "sync"} /\ y.pc \in {"deployment", "sync"}
        \/ x.pc = "sync" /\ y.pc = "param" /\ y.at = 1
        \/ x.pc \in Loop /\ y.pc \in Loop /\ y.at = x.at
        \/ x.pc = "param" /\ x.at > Size(j, x.mod) /\ y.pc \in {"zero", "sync2"}
        \/ x.pc \in Late /\ y.pc \in Late

\* A plain move is quiet.
LEMMA PlainQuiet ==
    ASSUME NEW j \in Jobs, NEW r, NEW x, ControlOK(j, r, x), NEW y, y.mod = x.mod, Plain(j, x, y)
    PROVE  Quiet(j, r, x, y)
<1>1. PICK n \in DOMAIN j.modules : n = x.mod
  BY ModulesFrom1 DEF ControlOK
<1>2. PICK i \in Nat \ {0}, S \in Nat, L \in Nat : i = x.at /\ S = Size(j, n) /\ L = Len(j.stored)
  BY <1>1, ModuleData, ModulesFrom1 DEF ControlOK
<1>3. x.pc = "store" => i <= L + 1
  BY <1>2 DEF ControlOK
<1>4. x.pc = "param" => i <= S + 1
  BY <1>1, <1>2 DEF ControlOK
<1>5. Barriers(y) = Barriers(x)
  BY DEF Barriers, Plain
<1>6. Count(j, y) = Count(j, x)
  BY <1>2, <1>3 DEF Count, Plain
<1>7. Deployed(j, y) = Deployed(j, x)
  BY <1>1, <1>2, <1>4 DEF Deployed, Plain
<1>8. \A l \in DOMAIN j.modules : Asking(y, l) => Asking(x, l)
  BY DEF Asking, Plain
<1>9. \A l \in DOMAIN j.modules : \A e \in 1 .. Size(j, l) : Done(j, y, l, e) => Done(j, x, l, e)
  BY <1>7 DEF Done
<1> QED
  BY <1>5, <1>6, <1>8, <1>9 DEF Quiet
\* The end of the stores.
LEMMA StoredDeep ==
    ASSUME NEW M, job \in Jobs, Canon(job, M), Core(M), Deep, NEW r \in Ranks, Stored(r)
    PROVE  Deep'
<1>1. ControlOK(job, r, proc[r])
  BY DEF Core, RankOK
<1>2. proc[r].pc = "store" /\ proc[r].at > Len(job.stored) /\ UNCHANGED <<job, locator, storage>>
  BY DEF Stored, Running, InLoop, Module, Size, ControlOK
<1>3. Goes(r, "register", proc[r].mod, 1, proc[r].load, proc[r].order)
  BY <1>2, EnterGoes DEF Stored
<1>4. proc'[r].mod = proc[r].mod /\ Plain(job, proc[r], proc'[r])
  BY <1>2, <1>3 DEF Goes, Fields, Plain
<1>5. Quiet(job, r, proc[r], proc'[r])
  BY <1>1, <1>4, PlainQuiet
<1> QED
  BY <1>2, <1>3, <1>5, QuietLocal DEF Goes

\* The end of doRegisterParams.
LEMMA RegisteredDeep ==
    ASSUME NEW M, job \in Jobs, Canon(job, M), Core(M), Deep, NEW r \in Ranks, Registered(r)
    PROVE  Deep'
<1>1. ControlOK(job, r, proc[r])
  BY DEF Core, RankOK
<1>2. proc[r].pc = "register" /\ UNCHANGED <<job, locator, storage>>
  BY DEF Registered, Running, InLoop, Module, Size, ControlOK
<1>3. Goes(r, "trace", proc[r].mod, 1, proc[r].load, proc[r].order)
  BY <1>2, EnterGoes DEF Registered
<1>4. proc'[r].mod = proc[r].mod /\ Plain(job, proc[r], proc'[r])
  BY <1>2, <1>3 DEF Goes, Fields, Plain
<1>5. Quiet(job, r, proc[r], proc'[r])
  BY <1>1, <1>4, PlainQuiet
<1> QED
  BY <1>2, <1>3, <1>5, QuietLocal DEF Goes

\* The deployment is sent or received.
LEMMA BcastDeploymentDeep ==
    ASSUME NEW M, job \in Jobs, Canon(job, M), Core(M), Deep, NEW r \in Ranks, BcastDeployment(r)
    PROVE  Deep'
<1>1. ControlOK(job, r, proc[r])
  BY DEF Core, RankOK
<1>2. proc[r].pc = "deployment" /\ UNCHANGED <<job, locator, storage>>
  BY DEF BcastDeployment, Running, InLoop, Module, Size, ControlOK
<1>3. Goes(r, "sync", proc[r].mod, 1, proc[r].load, proc[r].order)
  BY <1>2, EnterGoes DEF BcastDeployment
<1>4. proc'[r].mod = proc[r].mod /\ Plain(job, proc[r], proc'[r])
  BY <1>2, <1>3 DEF Goes, Fields, Plain
<1>5. Quiet(job, r, proc[r], proc'[r])
  BY <1>1, <1>4, PlainQuiet
<1> QED
  BY <1>2, <1>3, <1>5, QuietLocal DEF Goes

\* TagMap::sync at the start of ParamStorage::deploy.
LEMMA SyncDeep ==
    ASSUME NEW M, job \in Jobs, Canon(job, M), Core(M), Deep, NEW r \in Ranks, Sync(r), status' = "running"
    PROVE  Deep'
<1>1. ControlOK(job, r, proc[r])
  BY DEF Core, RankOK
<1>2. proc[r].pc = "sync" /\ UNCHANGED <<job, locator, storage>>
  BY DEF Sync, Running, InLoop, Module, Size, ControlOK
<1>3. Goes(r, "param", proc[r].mod, 1, proc[r].load, proc[r].order)
  BY <1>2, EnterGoes DEF Sync
<1>4. proc'[r].mod = proc[r].mod /\ Plain(job, proc[r], proc'[r])
  BY <1>2, <1>3 DEF Goes, Fields, Plain
<1>5. Quiet(job, r, proc[r], proc'[r])
  BY <1>1, <1>4, PlainQuiet
<1> QED
  BY <1>2, <1>3, <1>5, QuietLocal DEF Goes

\* The end of enable_zero's loop.
LEMMA GradsDoneDeep ==
    ASSUME NEW M, job \in Jobs, Canon(job, M), Core(M), Deep, NEW r \in Ranks, GradsDone(r)
    PROVE  Deep'
<1>1. ControlOK(job, r, proc[r])
  BY DEF Core, RankOK
<1>2. proc[r].pc = "zero" /\ UNCHANGED <<job, locator, storage>>
  BY DEF GradsDone, Running, InLoop, Module, Size, ControlOK
<1>3. Goes(r, "sync2", proc[r].mod, 1, proc[r].load, proc[r].order)
  BY <1>2, EnterGoes DEF GradsDone
<1>4. proc'[r].mod = proc[r].mod /\ Plain(job, proc[r], proc'[r])
  BY <1>2, <1>3 DEF Goes, Fields, Plain
<1>5. Quiet(job, r, proc[r], proc'[r])
  BY <1>1, <1>4, PlainQuiet
<1> QED
  BY <1>2, <1>3, <1>5, QuietLocal DEF Goes

\* TagMap::sync in deployGraph.
LEMMA SyncAgainDeep ==
    ASSUME NEW M, job \in Jobs, Canon(job, M), Core(M), Deep, NEW r \in Ranks, SyncAgain(r)
    PROVE  Deep'
<1>1. ControlOK(job, r, proc[r])
  BY DEF Core, RankOK
<1>2. proc[r].pc = "sync2" /\ UNCHANGED <<job, locator, storage>>
  BY DEF SyncAgain, Running, InLoop, Module, Size, ControlOK
<1>3. Goes(r, "route", proc[r].mod, 1, proc[r].load, proc[r].order)
  BY <1>2, EnterGoes DEF SyncAgain
<1>4. proc'[r].mod = proc[r].mod /\ Plain(job, proc[r], proc'[r])
  BY <1>2, <1>3 DEF Goes, Fields, Plain
<1>5. Quiet(job, r, proc[r], proc'[r])
  BY <1>1, <1>4, PlainQuiet
<1> QED
  BY <1>2, <1>3, <1>5, QuietLocal DEF Goes

\* A gradient other ranks register.
LEMMA SkipGradDeep ==
    ASSUME NEW M, job \in Jobs, Canon(job, M), Core(M), Deep, NEW r \in Ranks, SkipGrad(r)
    PROVE  Deep'
<1>1. ControlOK(job, r, proc[r])
  BY DEF Core, RankOK
<1>2. proc[r].pc = "zero" /\ UNCHANGED <<job, locator, storage>>
  BY DEF SkipGrad, Running, InLoop, Module, Size, ControlOK
<1>3. Goes(r, "zero", proc[r].mod, proc[r].at + 1, proc[r].load, proc[r].order)
  BY <1>2, AdvanceGoes DEF SkipGrad
<1>4. proc'[r].mod = proc[r].mod /\ Plain(job, proc[r], proc'[r])
  BY <1>2, <1>3 DEF Goes, Fields, Plain
<1>5. Quiet(job, r, proc[r], proc'[r])
  BY <1>1, <1>4, PlainQuiet
<1> QED
  BY <1>2, <1>3, <1>5, QuietLocal DEF Goes

\* The end of ParamStorage::deploy's loop.
LEMMA ParamsDoneDeep ==
    ASSUME NEW M, job \in Jobs, Canon(job, M), Core(M), Deep, NEW r \in Ranks, ParamsDone(r)
    PROVE  Deep'
<1>1. ControlOK(job, r, proc[r])
  BY DEF Core, RankOK
<1>2. /\ proc[r].pc = "param" /\ proc[r].at > Size(job, proc[r].mod)
      /\ UNCHANGED <<job, locator, storage>>
  BY <1>1 DEF ParamsDone, Running, Size, ControlOK
<1>3. PICK phase \in {"zero", "sync2"} : proc' = Enter(r, phase)
  <2>1. CASE job.zero
    BY <2>1 DEF ParamsDone
  <2>2. CASE ~job.zero
    BY <2>2 DEF ParamsDone
  <2> QED
    BY <2>1, <2>2
<1>4. Goes(r, phase, proc[r].mod, 1, proc[r].load, proc[r].order)
  BY <1>3, EnterGoes
<1>5. proc'[r].mod = proc[r].mod /\ Plain(job, proc[r], proc'[r])
  BY <1>2, <1>3, <1>4 DEF Goes, Fields, Plain
<1>6. Quiet(job, r, proc[r], proc'[r])
  BY <1>1, <1>5, PlainQuiet
<1> QED
  BY <1>2, <1>4, <1>6, QuietLocal DEF Goes

\* The hook of the trace, at one parameter.
LEMMA TraceDeep ==
    ASSUME NEW M, job \in Jobs, Canon(job, M), Core(M), Deep, NEW r \in Ranks, Trace(r)
    PROVE  Deep'
<1>1. /\ ControlOK(job, r, proc[r]) /\ DOMAIN proc = Ranks
      /\ DOMAIN proc[r] = {"pc", "mod", "at", "load", "order"}
  BY DEF Core, RankOK, ControlOK
<1>2. proc[r].pc = "trace" /\ UNCHANGED <<job, locator, storage>>
  BY DEF Trace, Running
<1>3. PICK phase, i, p : phase \in {"trace", "trace_load"} /\ Goes(r, phase, proc[r].mod, i, p, proc[r].order)
  <2>1. PICK p : p = Module(r).params[proc[r].at]
    OBVIOUS
  <2>2. CASE p \in storage[r].dist
    <3>1. proc' = [proc EXCEPT ![r].pc = "trace_load", ![r].load = p]
      BY <2>1, <2>2 DEF Trace
    <3>2. Goes(r, "trace_load", proc[r].mod, proc[r].at, p, proc[r].order)
      BY <1>1, <3>1, Zenon DEF Goes, Fields
    <3> QED
      BY <3>2
  <2>3. CASE p \notin storage[r].dist
    <3>1. Goes(r, "trace", proc[r].mod, proc[r].at + 1, proc[r].load, proc[r].order)
      BY <1>2, <2>1, <2>3, AdvanceGoes DEF Trace
    <3> QED
      BY <3>1
  <2> QED
    BY <2>2, <2>3
<1>4. proc'[r].mod = proc[r].mod /\ Plain(job, proc[r], proc'[r])
  BY <1>2, <1>3 DEF Goes, Fields, Plain
<1>5. Quiet(job, r, proc[r], proc'[r])
  BY <1>1, <1>4, PlainQuiet
<1> QED
  BY <1>2, <1>3, <1>5, QuietLocal DEF Goes

\* syncDebugName on rank r.
LEMMA SyncDebugNameDeep ==
    ASSUME NEW M, job \in Jobs, Canon(job, M), Core(M), Deep, NEW r \in Ranks, SyncDebugName(r)
    PROVE  Deep'
<1>1. /\ ControlOK(job, r, proc[r]) /\ DOMAIN proc = Ranks
      /\ DOMAIN proc[r] = {"pc", "mod", "at", "load", "order"}
  BY DEF Core, RankOK, ControlOK
<1>2. PICK order : order = OrderHere(r)
  OBVIOUS
<1>3. /\ proc[r].pc = "trace" /\ UNCHANGED <<job, locator, storage>>
      /\ proc' = [Enter(r, "fetchStart") EXCEPT ![r].order = order]
  BY <1>2 DEF SyncDebugName, Running
<1>4. Goes(r, "fetchStart", proc[r].mod, 1, proc[r].load, order)
  BY <1>1, <1>3, Zenon DEF Goes, Fields, Enter
<1>5. proc'[r].mod = proc[r].mod /\ Plain(job, proc[r], proc'[r])
  BY <1>3, <1>4 DEF Goes, Fields, Plain
<1>6. Quiet(job, r, proc[r], proc'[r])
  BY <1>1, <1>5, PlainQuiet
<1> QED
  BY <1>3, <1>4, <1>6, QuietLocal DEF Goes

\* The loop of fetchStart.
LEMMA FetchLoopDeep ==
    ASSUME NEW M, job \in Jobs, Canon(job, M), Core(M), Deep, NEW r \in Ranks, FetchLoop(r),
           status' = "running"
    PROVE  Deep'
<1>1. /\ ControlOK(job, r, proc[r]) /\ DOMAIN proc = Ranks
      /\ DOMAIN proc[r] = {"pc", "mod", "at", "load", "order"}
  BY DEF Core, RankOK, ControlOK
<1>2. proc[r].pc = "fetching" /\ UNCHANGED <<job, locator, storage>>
  BY DEF FetchLoop, Running
<1>3. PICK phase, i, p : phase \in {"barrier", "fetch_load"} /\ Goes(r, phase, proc[r].mod, i, p, proc[r].order)
  <2>1. CASE Received(r, 0) = 0
    <3>1. Goes(r, "barrier", proc[r].mod, 1, proc[r].load, proc[r].order)
      BY <2>1, EnterGoes DEF FetchLoop
    <3> QED
      BY <3>1
  <2>2. CASE Received(r, 0) # 0
    <3>1. PICK p : proc' = [proc EXCEPT ![r].pc = "fetch_load", ![r].load = p]
      BY <2>2 DEF FetchLoop
    <3>2. Goes(r, "fetch_load", proc[r].mod, proc[r].at, p, proc[r].order)
      BY <1>1, <3>1, Zenon DEF Goes, Fields
    <3> QED
      BY <3>2
  <2> QED
    BY <2>1, <2>2
<1>4. proc'[r].mod = proc[r].mod /\ Plain(job, proc[r], proc'[r])
  BY <1>2, <1>3 DEF Goes, Fields, Plain
<1>5. Quiet(job, r, proc[r], proc'[r])
  BY <1>1, <1>4, PlainQuiet
<1> QED
  BY <1>2, <1>3, <1>5, QuietLocal DEF Goes

\* Rank 0 fetches a parameter.
LEMMA FetchDeep ==
    ASSUME NEW M, job \in Jobs, Canon(job, M), Core(M), Deep, NEW p \in Params, Fetch(p)
    PROVE  Deep'
<1>0. 0 \in Ranks
  BY Constants
<1>1. /\ ControlOK(job, 0, proc[0]) /\ DOMAIN proc = Ranks
      /\ DOMAIN proc[0] = {"pc", "mod", "at", "load", "order"}
  BY <1>0 DEF Core, RankOK, ControlOK
<1>2. /\ proc[0].pc = "master" /\ UNCHANGED <<job, locator, storage>>
      /\ proc' = [proc EXCEPT ![0].pc = "master_load", ![0].load = p]
  BY DEF Fetch, Running
<1>3. Goes(0, "master_load", proc[0].mod, proc[0].at, p, proc[0].order)
  BY <1>0, <1>1, <1>2, Zenon DEF Goes, Fields
<1>4. proc'[0].mod = proc[0].mod /\ Plain(job, proc[0], proc'[0])
  BY <1>2, <1>3 DEF Goes, Fields, Plain
<1>5. Quiet(job, 0, proc[0], proc'[0])
  BY <1>1, <1>4, PlainQuiet
<1> QED
  BY <1>0, <1>2, <1>3, <1>5, QuietLocal DEF Goes

\* Decomposition and fetchEnd on rank 0.
LEMMA DecomposeDeep ==
    ASSUME NEW M, job \in Jobs, Canon(job, M), Core(M), Deep, Decompose
    PROVE  Deep'
<1>0. 0 \in Ranks
  BY Constants
<1>1. ControlOK(job, 0, proc[0])
  BY <1>0 DEF Core, RankOK
<1>2. proc[0].pc = "master" /\ UNCHANGED <<job, locator, storage>> /\ proc' = Enter(0, "barrier")
  BY DEF Decompose, Running
<1>3. Goes(0, "barrier", proc[0].mod, 1, proc[0].load, proc[0].order)
  BY <1>0, <1>2, EnterGoes
<1>4. proc'[0].mod = proc[0].mod /\ Plain(job, proc[0], proc'[0])
  BY <1>2, <1>3 DEF Goes, Fields, Plain
<1>5. Quiet(job, 0, proc[0], proc'[0])
  BY <1>1, <1>4, PlainQuiet
<1> QED
  BY <1>0, <1>2, <1>3, <1>5, QuietLocal DEF Goes
\* The ranks in S move, and the others stay.
LEMMA QuietJoint ==
    ASSUME NEW M, job \in Jobs, Core(M), Deep, UNCHANGED <<job, locator, storage>>,
           NEW S, S \subseteq Ranks, \A q \in Ranks \ S : proc'[q] = proc[q],
           \A q \in S : proc'[q].mod = proc[q].mod /\ Plain(job, proc[q], proc'[q])
    PROVE  Deep'
<1>1. ASSUME NEW q \in Ranks
      PROVE  Quiet(job, q, proc[q], proc'[q])
  <2>1. ControlOK(job, q, proc[q])
    BY DEF Core, RankOK
  <2>2. CASE q \in S
    BY <2>1, <2>2, PlainQuiet
  <2>3. CASE q \notin S
    BY <2>3, QuietStays
  <2> QED
    BY <2>2, <2>3
<1> QED
  BY <1>1, QuietStep

\* What a rank does after it has its communicator is a plain move.
LEMMA WantedPlain ==
    ASSUME NEW M, job \in Jobs, Core(M), NEW q \in Ranks, Wanted(q) # {}, proc'[q] = AfterCreation(q)
    PROVE  proc'[q].mod = proc[q].mod /\ Plain(job, proc[q], proc'[q])
<1>1. DOMAIN proc[q] = {"pc", "mod", "at", "load", "order"}
  BY DEF Core, RankOK, ControlOK
<1>2. CASE proc[q].pc = "fetchStart"
  <2>1. PICK phase \in {"master", "fetching"} : proc'[q] = [proc[q] EXCEPT !.pc = phase]
    BY <1>2 DEF AfterCreation
  <2>2. Fields(proc'[q], phase, proc[q].mod, proc[q].at, proc[q].load, proc[q].order)
    BY <1>1, <2>1, FieldsOf
  <2> QED
    BY <1>2, <2>1, <2>2 DEF Fields, Plain
<1>3. CASE proc[q].pc # "fetchStart"
  <2>1. proc[q].pc = "route" /\ proc'[q] = [proc[q] EXCEPT !.at = proc[q].at + 1]
    BY <1>3 DEF Wanted, AfterCreation
  <2>2. Fields(proc'[q], "route", proc[q].mod, proc[q].at + 1, proc[q].load, proc[q].order)
    BY <1>1, <2>1, FieldsOf
  <2> QED
    BY <2>1, <2>2 DEF Fields, Plain
<1> QED
  BY <1>2, <1>3

\* The members of S create an NCCL communicator.
LEMMA CreateCommunicatorDeep ==
    ASSUME NEW M, job \in Jobs, Canon(job, M), Core(M), Deep, NEW S \in (SUBSET Ranks) \ {{}},
           CreateCommunicator(S)
    PROVE  Deep'
<1>1. /\ proc' = [r \in Ranks |-> IF r \in S THEN AfterCreation(r) ELSE proc[r]]
      /\ UNCHANGED <<job, locator, storage>> /\ S \subseteq Ranks /\ S # {}
      /\ \A r \in S : Wanted(r) = S
  BY DEF CreateCommunicator
<1>2. \A q \in S : proc'[q].mod = proc[q].mod /\ Plain(job, proc[q], proc'[q])
  BY <1>1, WantedPlain
<1>3. \A q \in Ranks \ S : proc'[q] = proc[q]
  BY <1>1
<1> QED
  BY <1>1, <1>2, <1>3, QuietJoint

\* A rank finds a communicator, or is no member of it.
LEMMA FindCommunicatorDeep ==
    ASSUME NEW M, job \in Jobs, Canon(job, M), Core(M), Deep, NEW r \in Ranks, FindCommunicator(r)
    PROVE  Deep'
<1>1. /\ proc' = [proc EXCEPT ![r] = AfterCreation(r)] /\ Wanted(r) # {}
      /\ UNCHANGED <<job, locator, storage>> /\ DOMAIN proc = Ranks
  BY DEF FindCommunicator, Core
<1>2. proc'[r] = AfterCreation(r) /\ \A q \in Ranks \ {r} : proc'[q] = proc[q]
  BY <1>1
<1>3. proc'[r].mod = proc[r].mod /\ Plain(job, proc[r], proc'[r])
  BY <1>1, <1>2, WantedPlain
<1>4. ControlOK(job, r, proc[r])
  BY DEF Core, RankOK
<1>5. Quiet(job, r, proc[r], proc'[r])
  BY <1>3, <1>4, PlainQuiet
<1> QED
  BY <1>1, <1>2, <1>5, QuietLocal

\* The users of a parameter create their communicators.
LEMMA ParamCommunicatorDeep ==
    ASSUME NEW M, job \in Jobs, Canon(job, M), Core(M), Deep, NEW S \in (SUBSET Ranks) \ {{}},
           ParamCommunicator(S)
    PROVE  Deep'
<1>1. /\ proc' = [r \in Ranks |-> IF r \in S THEN [proc[r] EXCEPT !.pc = "value"] ELSE proc[r]]
      /\ UNCHANGED <<job, locator, storage>> /\ S \subseteq Ranks
      /\ \A r \in S : proc[r].pc = "param"
  BY DEF ParamCommunicator, InLoop, Running
<1>2. ASSUME NEW q \in S
      PROVE  proc'[q].mod = proc[q].mod /\ Plain(job, proc[q], proc'[q])
  <2>1. DOMAIN proc[q] = {"pc", "mod", "at", "load", "order"} /\ proc'[q] = [proc[q] EXCEPT !.pc = "value"]
    BY <1>1 DEF Core, RankOK, ControlOK
  <2>2. Fields(proc'[q], "value", proc[q].mod, proc[q].at, proc[q].load, proc[q].order)
    BY <2>1, FieldsOf
  <2> QED
    BY <1>1, <2>2 DEF Fields, Plain
<1>3. \A q \in Ranks \ S : proc'[q] = proc[q]
  BY <1>1
<1> QED
  BY <1>1, <1>2, <1>3, QuietJoint

\* A rank makes the tag of a parameter's users.
LEMMA ParamTagDeep ==
    ASSUME NEW M, job \in Jobs, Canon(job, M), Core(M), Deep, NEW r \in Ranks, ParamTag(r)
    PROVE  Deep'
<1>1. /\ proc' = [proc EXCEPT ![r].pc = "value"] /\ proc[r].pc = "param"
      /\ UNCHANGED <<job, locator, storage>> /\ DOMAIN proc = Ranks
      /\ ControlOK(job, r, proc[r]) /\ DOMAIN proc[r] = {"pc", "mod", "at", "load", "order"}
  BY DEF ParamTag, Core, InLoop, Running, RankOK, ControlOK
<1>2. Goes(r, "value", proc[r].mod, proc[r].at, proc[r].load, proc[r].order)
  BY <1>1, Zenon DEF Goes, Fields
<1>3. proc'[r].mod = proc[r].mod /\ Plain(job, proc[r], proc'[r])
  BY <1>1, <1>2 DEF Goes, Fields, Plain
<1>4. Quiet(job, r, proc[r], proc'[r])
  BY <1>1, <1>3, PlainQuiet
<1> QED
  BY <1>1, <1>2, <1>4, QuietLocal DEF Goes

\* The users of a parameter register its gradient.
LEMMA RegisterGradDeep ==
    ASSUME NEW M, job \in Jobs, Canon(job, M), Core(M), Deep, NEW S \in (SUBSET Ranks) \ {{}},
           RegisterGrad(S)
    PROVE  Deep'
<1>1. /\ proc' = [r \in Ranks |-> IF r \in S THEN [proc[r] EXCEPT !.at = @ + 1] ELSE proc[r]]
      /\ UNCHANGED <<job, locator, storage>> /\ S \subseteq Ranks
      /\ \A r \in S : proc[r].pc = "zero"
  BY DEF RegisterGrad, InLoop, Running
<1>2. ASSUME NEW q \in S
      PROVE  proc'[q].mod = proc[q].mod /\ Plain(job, proc[q], proc'[q])
  <2>1. /\ DOMAIN proc[q] = {"pc", "mod", "at", "load", "order"}
        /\ proc'[q] = [proc[q] EXCEPT !.at = proc[q].at + 1]
    BY <1>1 DEF Core, RankOK, ControlOK
  <2>2. Fields(proc'[q], proc[q].pc, proc[q].mod, proc[q].at + 1, proc[q].load, proc[q].order)
    BY <2>1, FieldsOf
  <2> QED
    BY <1>1, <2>2 DEF Fields, Plain
<1>3. \A q \in Ranks \ S : proc'[q] = proc[q]
  BY <1>1
<1> QED
  BY <1>1, <1>2, <1>3, QuietJoint

\* In such a job all ranks use what is distributed, and it belongs to one module.
LEMMA Separate ==
    ASSUME JobsSeparate, NEW j \in Jobs, NEW n \in DOMAIN j.modules, NEW i \in 1 .. Size(j, n)
    PROVE  /\ j.modules[n].params[i] \in ToSet(j.stored) => UsersOf(j, n, i) = Ranks
           /\ j.modules[n].params[i] \in ToSet(j.modules[n].params)
           /\ \A l \in DOMAIN j.modules : \A e \in 1 .. Size(j, l) :
                  j.modules[l].params[e] = j.modules[n].params[i] => l = n /\ e = i
<1>1. ASSUME NEW l \in DOMAIN j.modules, NEW e \in 1 .. Size(j, l)
      PROVE  j.modules[l].params[e] \in ToSet(j.modules[l].params)
  <2>1. ToSet(j.modules[l].params) = {j.modules[l].params[d] : d \in 1 .. Size(j, l)}
    BY ModuleData
  <2> QED
    BY <2>1
<1>2. \A p \in ToSet(j.modules[n].params) \cap ToSet(j.stored) : UNION j.modules[n].users[p] = Ranks
  BY DEF JobsSeparate
<1>3. j.modules[n].params[i] \in ToSet(j.stored) => UsersOf(j, n, i) = Ranks
  BY <1>1, <1>2 DEF UsersOf
<1>4. ASSUME NEW l \in DOMAIN j.modules, NEW e \in 1 .. Size(j, l),
             j.modules[l].params[e] = j.modules[n].params[i]
      PROVE  l = n /\ e = i
  <2>1. l = n
    <3>1. l # n => ToSet(j.modules[l].params) \cap ToSet(j.modules[n].params) = {}
      BY DEF JobsSeparate
    <3> QED
      BY <1>1, <1>4, <3>1
  <2> QED
    BY <1>4, <2>1, ModuleData
<1> QED
  BY <1>1, <1>3, <1>4

\* An unused parameter: it is not distributed, and nobody needs it whole.
LEMMA SkipParamDeep ==
    ASSUME JobsSeparate, NEW M, job \in Jobs, Canon(job, M), Core(M), Deep, NEW r \in Ranks, SkipParam(r)
    PROVE  Deep'
<1>1. ControlOK(job, r, proc[r]) /\ InLoop(r, "param") /\ SetHere(r) = {}
      /\ UNCHANGED <<job, locator, storage>> /\ proc' = Advance(r)
  BY DEF Core, RankOK, SkipParam
<1>2. PICK n \in DOMAIN job.modules : n = proc[r].mod
  BY <1>1, PlaceOK
<1>3. PICK i \in Nat \ {0} : i = proc[r].at
  BY <1>1 DEF ControlOK
<1>4. /\ proc[r].pc = "param" /\ i \in 1 .. Size(job, n) /\ UsersOf(job, n, i) = {}
  BY <1>1, <1>2, <1>3, LoopAt
<1>5. Goes(r, "param", n, i + 1, proc[r].load, proc[r].order)
  BY <1>1, <1>2, <1>3, <1>4, AdvanceGoes
<1>6. job.modules[n].params[i] \notin ToSet(job.stored)
  BY <1>2, <1>4, Separate, Constants
<1>7. Quiet(job, r, proc[r], proc'[r])
  <2>1. proc'[r].pc = "param" /\ proc'[r].mod = n /\ proc'[r].at = i + 1
    BY <1>5 DEF Goes, Fields
  <2>2. /\ Barriers(proc'[r]) = Barriers(proc[r]) /\ Count(job, proc'[r]) = Count(job, proc[r])
        /\ Deployed(job, proc[r]) = i - 1 /\ Deployed(job, proc'[r]) = i
    BY <1>2, <1>3, <1>4, <2>1 DEF Barriers, Count, Deployed
  <2>3. \A l \in DOMAIN job.modules : Asking(proc'[r], l) => Asking(proc[r], l)
    BY <1>2, <1>4, <2>1 DEF Asking
  <2>4. ASSUME NEW l \in DOMAIN job.modules, NEW e \in 1 .. Size(job, l), Done(job, proc'[r], l, e)
        PROVE  \/ Done(job, proc[r], l, e)
               \/ job.modules[l].params[e] \notin ToSet(job.stored) /\ r \notin UsersOf(job, l, e)
    <3>1. CASE l = n /\ e = i
      BY <1>4, <1>6, <3>1
    <3>2. CASE ~(l = n /\ e = i)
      <4>1. e \in Int
        BY ModuleData
      <4> QED
        BY <1>2, <1>3, <2>1, <2>2, <2>4, <3>2, <4>1 DEF Done
    <3> QED
      BY <3>1, <3>2
  <2> QED
    BY <2>2, <2>3, <2>4 DEF Quiet
<1> QED
  BY <1>1, <1>5, <1>7, QuietLocal DEF Goes

\* A rank goes on to the next module, or is done.
LEMMA ReadyDeep ==
    ASSUME NEW M, job \in Jobs, Canon(job, M), Core(M), Deep, NEW r \in Ranks, Ready(r)
    PROVE  Deep'
<1>1. /\ ControlOK(job, r, proc[r]) /\ DOMAIN proc[r] = {"pc", "mod", "at", "load", "order"}
      /\ DOMAIN proc = Ranks /\ proc[r].pc = "route" /\ UNCHANGED <<job, locator, storage>>
  BY DEF Core, RankOK, ControlOK, Ready, Running
<1>2. CASE proc[r].mod < Len(job.modules)
  <2>1. PICK order : order = Reverse(job.modules[proc[r].mod + 1].params)
    OBVIOUS
  <2>2. proc' = [Enter(r, "register") EXCEPT ![r].mod = @ + 1, ![r].order = order]
    BY <1>2, <2>1 DEF Ready
  <2>3. Goes(r, "register", proc[r].mod + 1, 1, proc[r].load, order)
    BY <1>1, <2>2, Zenon DEF Enter, Goes, Fields
  <2>4. PICK n \in DOMAIN job.modules : n = proc[r].mod
    BY <1>1, PlaceOK
  <2>5. n \in Nat /\ Size(job, n) \in Nat
    BY ModuleData
  <2>6. proc'[r].pc = "register" /\ proc'[r].mod = n + 1 /\ proc'[r].at = 1
    BY <2>3, <2>4 DEF Goes, Fields
  <2>7. /\ Barriers(proc'[r]) = Barriers(proc[r]) /\ Count(job, proc'[r]) = Count(job, proc[r])
        /\ Deployed(job, proc[r]) = Size(job, n) /\ Deployed(job, proc'[r]) = 0
    BY <1>1, <2>4, <2>5, <2>6 DEF Barriers, Count, Deployed
  <2>8. ASSUME NEW l \in DOMAIN job.modules, Asking(proc'[r], l)
        PROVE  Asking(proc[r], l)
    <3>1. l \in Nat
      BY ModuleData
    <3> QED
      BY <2>4, <2>5, <2>6, <2>8, <3>1 DEF Asking
  <2>9. ASSUME NEW l \in DOMAIN job.modules, NEW e \in 1 .. Size(job, l), Done(job, proc'[r], l, e)
        PROVE  Done(job, proc[r], l, e)
    <3>1. l \in Nat /\ Size(job, l) \in Nat
      BY ModuleData
    <3>2. l < n + 1
      BY <2>6, <2>7, <2>9, <3>1 DEF Done
    <3> QED
      BY <2>4, <2>5, <2>7, <3>1, <3>2 DEF Done
  <2>10. Quiet(job, r, proc[r], proc'[r])
    BY <2>7, <2>8, <2>9 DEF Quiet
  <2> QED
    BY <1>1, <2>3, <2>10, QuietLocal DEF Goes
<1>3. CASE ~(proc[r].mod < Len(job.modules))
  <2>1. Goes(r, "done", proc[r].mod, 1, proc[r].load, proc[r].order)
    BY <1>3, EnterGoes DEF Ready
  <2>2. proc'[r].mod = proc[r].mod /\ Plain(job, proc[r], proc'[r])
    BY <1>1, <2>1 DEF Goes, Fields, Plain
  <2>3. Quiet(job, r, proc[r], proc'[r])
    BY <1>1, <2>2, PlainQuiet
  <2> QED
    BY <1>1, <2>1, <2>3, QuietLocal DEF Goes
<1> QED
  BY <1>2, <1>3

\* All ranks are at the barrier of one module.
LEMMA BarrierDeep ==
    ASSUME NEW M, job \in Jobs, Canon(job, M), Core(M), Deep, Barrier
    PROVE  Deep'
<1>1. /\ proc' = [r \in Ranks |-> [proc[r] EXCEPT !.pc = "deployment"]]
      /\ UNCHANGED <<job, locator, storage>> /\ DOMAIN locator = Ranks
  BY DEF Barrier, Deep
<1>2. ASSUME NEW q \in Ranks
      PROVE  /\ ParamsOK(job, q, proc'[q], locator[q], storage[q])
             /\ Count(job, proc'[q]) = Count(job, proc[q])
             /\ Barriers(proc'[q]) = Barriers(proc[q]) + 1
  <2>1. /\ ControlOK(job, q, proc[q]) /\ DOMAIN proc[q] = {"pc", "mod", "at", "load", "order"}
        /\ proc[q].pc = "barrier" /\ proc'[q] = [proc[q] EXCEPT !.pc = "deployment"]
    BY <1>1 DEF Core, RankOK, ControlOK, Barrier, Running
  <2>2. Fields(proc'[q], "deployment", proc[q].mod, proc[q].at, proc[q].load, proc[q].order)
    BY <2>1, FieldsOf
  <2>3. /\ proc'[q].mod = proc[q].mod /\ Deployed(job, proc'[q]) = Deployed(job, proc[q])
        /\ Count(job, proc'[q]) = Count(job, proc[q]) /\ proc'[q].pc = "deployment"
    BY <2>1, <2>2 DEF Fields, Deployed, Count
  <2>4. \A l \in DOMAIN job.modules : Asking(proc'[q], l) => Asking(proc[q], l)
    BY <2>1, <2>3 DEF Asking
  <2>5. \A l \in DOMAIN job.modules : \A e \in 1 .. Size(job, l) :
            Done(job, proc'[q], l, e) => Done(job, proc[q], l, e)
    BY <2>3 DEF Done
  <2>6. ParamsOK(job, q, proc[q], locator[q], storage[q])
    BY DEF Deep
  <2>7. ParamsOK(job, q, proc'[q], locator[q], storage[q])
    <3>1. \A n \in DOMAIN job.modules : \A c \in 1 .. Count(job, proc'[q]) :
              Asking(proc'[q], n) /\ job.stored[c] \in ToSet(job.modules[n].params) =>
                  job.id[0][job.stored[c]] \in DOMAIN locator[q].known
      BY <2>3, <2>4, <2>6 DEF ParamsOK
    <3>2. ASSUME NEW n \in DOMAIN job.modules, NEW i \in 1 .. Size(job, n), NEW p,
                 p = job.modules[n].params[i], Done(job, proc'[q], n, i)
          PROVE  /\ p \in ToSet(job.stored) => p \notin DOMAIN locator[q].part
                 /\ q \in UsersOf(job, n, i) => Holds(storage[q], p, Final(job, p))
      BY <2>5, <2>6, <3>2 DEF ParamsOK
    <3> QED
      BY <2>6, <3>1, <3>2 DEF ParamsOK
  <2>8. proc[q].mod \in Int
    BY <2>1, ModulesFrom1 DEF ControlOK
  <2>9. Barriers(proc'[q]) = Barriers(proc[q]) + 1
    BY <2>1, <2>3, <2>8 DEF Barriers
  <2> QED
    BY <2>3, <2>7, <2>9
<1>3. ASSUME NEW q \in Ranks, NEW r \in Ranks
      PROVE  Together(q, r)'
  <2>1. /\ Barriers(proc[q]) = Barriers(proc[r]) /\ Count(job, proc[q]) = Count(job, proc[r])
        /\ DOMAIN locator[q].part = DOMAIN locator[r].part
    BY DEF Deep, Together
  <2> QED
    BY <1>1, <1>2, <2>1 DEF Together
<1> QED
  BY <1>1, <1>2, <1>3 DEF Deep
\* Every rank stores its segment of the same parameter.
LEMMA StoreDeep ==
    ASSUME NEW M, job \in Jobs, Canon(job, M), Core(M), Deep, Store
    PROVE  Deep'
<1>1. /\ DOMAIN locator' = Ranks /\ UNCHANGED <<job, storage>>
      /\ \A q \in Ranks : proc[q].pc = "store" /\ proc[q].at <= Len(job.stored)
      /\ 0 \in Ranks /\ \A q \in Ranks : ControlOK(job, q, proc[q])
  BY Constants DEF Store, Running, Core, RankOK
<1>2. PICK c \in Nat \ {0} : c = proc[0].at
  <2>1. proc[0].at \in Nat \ {0}
    BY <1>1 DEF ControlOK
  <2> QED
    BY <2>1
<1>3. PICK p, g : p = job.stored[c] /\ g = job.id[0][p]
  OBVIOUS
<1>4. ASSUME NEW q \in Ranks
      PROVE  proc[q].at = c
  <2>1. Count(job, proc[q]) = Count(job, proc[0])
    BY <1>1 DEF Deep, Together
  <2>2. proc[q].at \in Nat
    BY <1>1 DEF ControlOK
  <2> QED
    BY <1>1, <1>2, <1>3, <2>1, <2>2 DEF Count
<1>5. ASSUME NEW q \in Ranks
      PROVE  /\ DOMAIN locator'[q] = {"known", "part"}
             /\ locator'[q].known = Put(locator[q].known, g, p)
             /\ locator'[q].part = Put(locator[q].part, p, Segment(p, q))
             /\ Fields(proc'[q], "store", 1, c + 1, proc[q].load, proc[q].order)
  <2>1. DOMAIN proc[q] = {"pc", "mod", "at", "load", "order"} /\ proc[q].mod = 1
    BY <1>1 DEF ControlOK
  <2>2. proc'[q] = [proc[q] EXCEPT !.at = c + 1]
    BY <1>4 DEF Store
  <2>3. Fields(proc'[q], "store", 1, c + 1, proc[q].load, proc[q].order)
    BY <1>1, <2>1, <2>2, FieldsOf
  <2>4. PICK a, b : a = Put(locator[q].known, g, p) /\ b = Put(locator[q].part, p, Segment(p, q))
    OBVIOUS
  <2>5. locator'[q] = [known |-> a, part |-> b]
    BY <1>1, <1>2, <1>3, <1>4, <2>4 DEF Store
  <2> QED
    BY <2>3, <2>4, <2>5
<1>6. ASSUME NEW q \in Ranks
      PROVE  ParamsOK(job, q, proc'[q], locator'[q], storage'[q])
  <2>1. ParamsOK(job, q, proc[q], locator[q], storage[q])
    BY DEF Deep
  <2>2. /\ DOMAIN locator'[q] = {"known", "part"}
        /\ locator'[q].known = Put(locator[q].known, g, p)
        /\ locator'[q].part = Put(locator[q].part, p, Segment(p, q))
    BY <1>5
  <2>3. proc'[q].pc = "store" /\ proc'[q].mod = 1 /\ proc'[q].at = c + 1
    BY <1>5 DEF Fields
  <2>4. proc[q].pc = "store" /\ proc[q].mod = 1 /\ proc[q].at = c
    BY <1>1, <1>4 DEF ControlOK
  <2>5. \A z \in DOMAIN locator'[q].part : locator'[q].part[z] = Segment(z, q)
    BY <2>1, <2>2 DEF ParamsOK, Put
  <2>6. ASSUME NEW n \in DOMAIN job.modules, NEW i \in 1 .. Size(job, n)
        PROVE  ~Done(job, proc'[q], n, i)
    <3>1. n \in Nat \ {0} /\ Size(job, n) \in Nat
      BY ModuleData
    <3> QED
      BY <2>3, <3>1 DEF Done, Deployed
  <2>7. ASSUME NEW n \in DOMAIN job.modules, NEW d \in 1 .. Count(job, proc'[q]), NEW z, z = job.stored[d],
               Asking(proc'[q], n), z \in ToSet(job.modules[n].params)
        PROVE  job.id[0][z] \in DOMAIN locator'[q].known
    <3>1. DOMAIN locator'[q].known = DOMAIN locator[q].known \union {g}
      BY <2>2 DEF Put
    <3>2. d \in 1 .. c
      BY <2>3, <2>7 DEF Count
    <3>3. CASE d = c
      BY <1>2, <1>3, <2>7, <3>1, <3>3
    <3>4. CASE d # c
      <4>1. d \in 1 .. Count(job, proc[q])
        BY <2>4, <3>2, <3>4 DEF Count
      <4>2. Asking(proc[q], n)
        BY <2>3, <2>4, <2>7 DEF Asking
      <4>3. job.id[0][z] \in DOMAIN locator[q].known
        BY <2>1, <2>7, <4>1, <4>2 DEF ParamsOK
      <4> QED
        BY <3>1, <4>3
    <3> QED
      BY <3>3, <3>4
  <2> QED
    BY <1>1, <2>2, <2>5, <2>6, <2>7 DEF ParamsOK
<1>7. ASSUME NEW q \in Ranks, NEW r \in Ranks
      PROVE  Together(q, r)'
  <2>1. /\ Barriers(proc'[q]) = Barriers(proc'[r]) /\ Count(job, proc'[q]) = Count(job, proc'[r])
    BY <1>5 DEF Fields, Barriers, Count
  <2>2. DOMAIN locator[q].part = DOMAIN locator[r].part
    BY DEF Deep, Together
  <2>3. /\ DOMAIN locator'[q].part = DOMAIN locator[q].part \union {p}
        /\ DOMAIN locator'[r].part = DOMAIN locator[r].part \union {p}
    <3>1. ASSUME NEW f, NEW v
          PROVE  DOMAIN Put(f, p, v) = DOMAIN f \union {p}
      BY DEF Put
    <3> QED
      BY <1>5, <3>1
  <2> QED
    BY <1>1, <2>1, <2>2, <2>3 DEF Together
<1> QED
  BY <1>1, <1>6, <1>7 DEF Deep

\* A rank goes from x to y and gets value v for p, which it has not deployed
\* before: then it only registers p, or deploys it as it should be.
Puts(j, r, x, y, p, v) ==
    /\ Barriers(y) = Barriers(x) /\ Count(j, y) = Count(j, x)
    /\ \A n \in DOMAIN j.modules : Asking(y, n) => Asking(x, n)
    /\ \A n \in DOMAIN j.modules : \A i \in 1 .. Size(j, n) :
           Done(j, y, n, i) =>
               \/ Done(j, x, n, i) /\ j.modules[n].params[i] # p
               \/ j.modules[n].params[i] = p /\ p \notin ToSet(j.stored) /\ v = Final(j, p)

\* Such a move of one rank leaves its parameters right.
LEMMA PutRank ==
    ASSUME NEW j, NEW r, NEW x, NEW y, NEW loc, NEW st, NEW su, NEW p, NEW v,
           ParamsOK(j, r, x, loc, st), Puts(j, r, x, y, p, v), su.value = Put(st.value, p, v)
    PROVE  ParamsOK(j, r, y, loc, su)
<1>1. Count(j, y) = Count(j, x) /\ \A n \in DOMAIN j.modules : Asking(y, n) => Asking(x, n)
  BY DEF Puts
<1>2. \A n \in DOMAIN j.modules : \A c \in 1 .. Count(j, y) :
          Asking(y, n) /\ j.stored[c] \in ToSet(j.modules[n].params) =>
              j.id[0][j.stored[c]] \in DOMAIN loc.known
  BY <1>1 DEF ParamsOK
<1>3. ASSUME NEW n \in DOMAIN j.modules, NEW i \in 1 .. Size(j, n), NEW z,
             z = j.modules[n].params[i], Done(j, y, n, i)
      PROVE  /\ z \in ToSet(j.stored) => z \notin DOMAIN loc.part
             /\ r \in UsersOf(j, n, i) => Holds(su, z, Final(j, z))
  <2>1. CASE Done(j, x, n, i) /\ z # p
    <3>1. /\ z \in ToSet(j.stored) => z \notin DOMAIN loc.part
          /\ r \in UsersOf(j, n, i) => Holds(st, z, Final(j, z))
      BY <1>3, <2>1 DEF ParamsOK
    <3>2. \A w : Holds(st, z, w) => Holds(su, z, w)
      BY <2>1 DEF Holds, Put
    <3> QED
      BY <3>1, <3>2
  <2>2. CASE z = p /\ p \notin ToSet(j.stored) /\ v = Final(j, p)
    <3>1. Holds(su, p, v)
      BY DEF Holds, Put
    <3> QED
      BY <2>2, <3>1
  <2> QED
    BY <1>3, <2>1, <2>2 DEF Puts
<1> QED
  BY <1>2, <1>3 DEF ParamsOK

\* Such a step of one rank.
LEMMA PutStep ==
    ASSUME Deep, UNCHANGED <<job, locator>>, NEW r \in Ranks, NEW p, NEW v,
           \A q \in Ranks \ {r} : proc'[q] = proc[q] /\ storage'[q] = storage[q],
           storage'[r].value = Put(storage[r].value, p, v),
           Puts(job, r, proc[r], proc'[r], p, v)
    PROVE  Deep'
<1>1. ASSUME NEW q \in Ranks
      PROVE  /\ ParamsOK(job', q, proc'[q], locator'[q], storage'[q])
             /\ Barriers(proc'[q]) = Barriers(proc[q]) /\ Count(job, proc'[q]) = Count(job, proc[q])
  <2>1. ParamsOK(job, q, proc[q], locator[q], storage[q])
    BY DEF Deep
  <2>2. CASE q = r
    <3>1. ParamsOK(job, r, proc'[r], locator[r], storage'[r])
      BY <2>1, <2>2, PutRank
    <3> QED
      BY <2>2, <3>1 DEF Puts
  <2>3. CASE q # r
    BY <2>1, <2>3
  <2> QED
    BY <2>2, <2>3
<1>2. ASSUME NEW q \in Ranks, NEW s \in Ranks
      PROVE  Together(q, s)'
  <2>1. /\ Barriers(proc[q]) = Barriers(proc[s]) /\ Count(job, proc[q]) = Count(job, proc[s])
        /\ DOMAIN locator[q].part = DOMAIN locator[s].part
    BY DEF Deep, Together
  <2> QED
    BY <1>1, <2>1 DEF Together
<1> QED
  BY <1>1, <1>2 DEF Deep

\* doRegisterParams: no parameter of an earlier module is overwritten.
LEMMA RegisterParamDeep ==
    ASSUME JobsSeparate, NEW M, job \in Jobs, Canon(job, M), Core(M), Deep, NEW r \in Ranks, RegisterParam(r)
    PROVE  Deep'
<1>1. /\ ControlOK(job, r, proc[r]) /\ DOMAIN storage = Ranks /\ DOMAIN storage[r] = {"dist", "value"}
      /\ proc[r].pc = "register" /\ proc' = Advance(r) /\ UNCHANGED <<job, locator>>
      /\ proc[r].at <= Size(job, proc[r].mod)
  BY DEF Core, RankOK, StorageOK, RegisterParam, Running, Module, Size
<1>2. PICK n \in DOMAIN job.modules : n = proc[r].mod
  BY <1>1, PlaceOK
<1>3. PICK i \in 1 .. Size(job, n) : i = proc[r].at
  <2>1. Size(job, n) \in Nat
    BY ModuleData
  <2>2. proc[r].at \in 1 .. Size(job, n)
    BY <1>1, <1>2, <2>1 DEF ControlOK
  <2> QED
    BY <2>2
<1>4. PICK p, v : p = job.modules[n].params[i] /\ v = Tensor(p, r)
  OBVIOUS
<1>5. storage' = [storage EXCEPT ![r].dist = IF p \in ToSet(job.stored) THEN @ \union {p} ELSE @,
                                 ![r].value = Put(@, p, v)]
  BY <1>2, <1>3, <1>4 DEF RegisterParam, Module
<1>6. storage'[r].value = Put(storage[r].value, p, v) /\ \A q \in Ranks \ {r} : storage'[q] = storage[q]
  BY <1>1, <1>5, Zenon
<1>7. Goes(r, "register", n, i + 1, proc[r].load, proc[r].order)
  BY <1>1, <1>2, <1>3, <1>4, AdvanceGoes
<1>8. proc'[r].pc = "register" /\ proc'[r].mod = proc[r].mod
  BY <1>2, <1>7 DEF Goes, Fields
<1>9. Quiet(job, r, proc[r], proc'[r])
  BY <1>1, <1>8, PlainQuiet DEF Plain
<1>10. ASSUME NEW l \in DOMAIN job.modules, NEW e \in 1 .. Size(job, l), Done(job, proc'[r], l, e)
      PROVE  Done(job, proc[r], l, e) /\ job.modules[l].params[e] # p
  <2>1. Deployed(job, proc'[r]) = 0 /\ Deployed(job, proc[r]) = 0
    BY <1>1, <1>8 DEF Deployed
  <2>2. l \in Nat /\ Size(job, l) \in Nat /\ n \in Nat
    BY ModuleData
  <2>3. l < n
    BY <1>2, <1>8, <1>10, <2>1, <2>2 DEF Done
  <2>4. l # n
    BY <2>2, <2>3
  <2>5. job.modules[l].params[e] # p
    BY <1>3, <1>4, <2>4, Separate
  <2> QED
    BY <1>2, <2>3, <2>5 DEF Done
<1>11. Puts(job, r, proc[r], proc'[r], p, v)
  BY <1>9, <1>10 DEF Puts, Quiet
<1> QED
  BY <1>1, <1>6, <1>7, <1>11, PutStep DEF Goes

\* syncParamOnInit: rank r gets rank 0's tensor of the parameter it is at.
LEMMA SyncParamOnInitDeep ==
    ASSUME JobsSeparate, NEW M, job \in Jobs, Canon(job, M), Core(M), Deep, NEW r \in Ranks, SyncParamOnInit(r)
    PROVE  Deep'
<1>1. /\ ControlOK(job, r, proc[r]) /\ DOMAIN storage = Ranks
      /\ DOMAIN storage[r] = {"dist", "value"} /\ proc[r].pc = "value"
      /\ proc[r].at <= Size(job, proc[r].mod) /\ UsersOf(job, proc[r].mod, proc[r].at) # {}
  BY DEF Core, RankOK, ControlOK, StorageOK, SyncParamOnInit, InLoop, Running
<1>2. PICK n \in DOMAIN job.modules : n = proc[r].mod
  BY <1>1, PlaceOK
<1>3. PICK i \in 1 .. Size(job, n) : i = proc[r].at
  <2>1. Size(job, n) \in Nat
    BY ModuleData
  <2>2. proc[r].at \in 1 .. Size(job, n)
    BY <1>1, <1>2, <2>1 DEF ControlOK
  <2> QED
    BY <2>2
<1>4. PICK p, v, w :
         /\ p = job.modules[n].params[i]
         /\ v = storage[0].value[p] /\ w = Received(r, v)
  OBVIOUS
<1>5. /\ Here(r) = p /\ storage[r].value[p] = Tensor(p, r)
      /\ p \in ToSet(job.stored) <=> p \in storage[r].dist
  BY <1>1, <1>2, <1>3, <1>4, AtParam
<1>6. /\ Bcast(r, "value", v) /\ p \notin ToSet(job.stored)
      /\ storage' = [storage EXCEPT ![r].value = Put(@, p, w)]
      /\ proc' = [Advance(r) EXCEPT ![r].pc = "param"]
      /\ UNCHANGED <<job, locator>>
  BY <1>3, <1>4, <1>5 DEF SyncParamOnInit
<1>7. Goes(r, "param", n, i + 1, proc[r].load, proc[r].order)
  BY <1>2, <1>3, <1>4, <1>6, NextParamGoes
<1>8. i \in Nat \ {0} /\ n \in Nat /\ i <= Size(job, n)
  BY ModuleData
<1>9. w = Tensor(p, 0)
  <2>1. CASE r = 0
    BY <1>3, <1>4, <1>5, <2>1 DEF Received
  <2>2. CASE r # 0
    <3>1. PICK b : b = <<n, "value", i>>
      OBVIOUS
    <3>2. b[1] = n /\ b[2] = "value" /\ b[3] = i
      BY <3>1
    <3>3. Sends(job, n, i)
      BY <1>1, <1>2, <1>3, <1>4, <1>6 DEF Sends
    <3>4. Point(job, proc[r]) = b
      <4>1. Point(job, proc[r]) = ValuePoint(job, n, i)
        BY <1>1, <1>2, <1>3, <1>4 DEF Point
      <4>2. ValuePoint(job, n, i) = <<n, "value", i>>
        BY <1>8, <3>3, ValuePointOK
      <4> QED
        BY <3>1, <4>1, <4>2
    <3>5. PICK msg : msg = Msg(r, "value", v)
      OBVIOUS
    <3>6. MsgOK(job, M, Point(job, proc[r]), msg) /\ Received(r, v) = msg.val
      <4>1. r \in Ranks \ {0}
        BY <2>2
      <4> QED
        BY <1>6, <3>5, <4>1, Got
    <3>7. msg.val = Tensor(job.modules[b[1]].params[b[3]], 0)
      BY <3>2, <3>4, <3>6, MsgAt
    <3> QED
      BY <1>3, <1>4, <3>2, <3>6, <3>7
  <2> QED
    BY <2>1, <2>2
<1>10. w = Final(job, p)
  BY <1>6, <1>9 DEF Final
<1>11. storage'[r].value = Put(storage[r].value, p, w) /\ \A q \in Ranks \ {r} : storage'[q] = storage[q]
  BY <1>1, <1>6, Zenon
<1>12. proc'[r].pc = "param" /\ proc'[r].mod = n /\ proc'[r].at = i + 1
  BY <1>7 DEF Goes, Fields
<1>13. /\ Barriers(proc'[r]) = Barriers(proc[r]) /\ Count(job, proc'[r]) = Count(job, proc[r])
       /\ Deployed(job, proc'[r]) = i /\ Deployed(job, proc[r]) = i - 1
  <2>1. proc[r].pc = "value" /\ proc[r].mod = n /\ proc[r].at = i
    BY <1>1, <1>2, <1>3, <1>4
  <2>2. Deployed(job, proc'[r]) = i /\ Deployed(job, proc[r]) = i - 1
    BY <1>8, <1>12, <2>1 DEF Deployed
  <2> QED
    BY <1>12, <2>1, <2>2 DEF Barriers, Count
<1>14. \A l \in DOMAIN job.modules : Asking(proc'[r], l) => Asking(proc[r], l)
  BY <1>1, <1>2, <1>12 DEF Asking
<1>15. ASSUME NEW l \in DOMAIN job.modules, NEW e \in 1 .. Size(job, l), Done(job, proc'[r], l, e)
       PROVE  \/ Done(job, proc[r], l, e) /\ job.modules[l].params[e] # p
              \/ job.modules[l].params[e] = p /\ p \notin ToSet(job.stored) /\ w = Final(job, p)
  <2>1. CASE l = n /\ e = i
    BY <1>3, <1>4, <1>6, <1>10, <2>1
  <2>2. CASE ~(l = n /\ e = i)
    <3>1. e \in Int
      BY ModuleData
    <3>2. Done(job, proc[r], l, e)
      BY <1>2, <1>8, <1>12, <1>13, <1>15, <2>2, <3>1 DEF Done
    <3>3. job.modules[l].params[e] # p
      BY <1>3, <1>4, <2>2, Separate
    <3> QED
      BY <3>2, <3>3
  <2> QED
    BY <2>1, <2>2
<1>16. Puts(job, r, proc[r], proc'[r], p, w)
  BY <1>13, <1>14, <1>15 DEF Puts
<1> QED
  BY <1>6, <1>7, <1>11, <1>16, PutStep DEF Goes

\* A distributed parameter: every rank uses it, so rank r is to load it.
LEMMA TakeDistributedDeep ==
    ASSUME JobsSeparate, NEW M, job \in Jobs, Canon(job, M), Core(M), Deep, NEW r \in Ranks, TakeDistributed(r)
    PROVE  Deep'
<1>1. /\ ControlOK(job, r, proc[r]) /\ DOMAIN proc = Ranks
      /\ DOMAIN proc[r] = {"pc", "mod", "at", "load", "order"} /\ proc[r].pc = "value"
      /\ proc[r].at <= Size(job, proc[r].mod)
  BY DEF Core, RankOK, ControlOK, TakeDistributed, InLoop, Running
<1>2. PICK n \in DOMAIN job.modules : n = proc[r].mod
  BY <1>1, PlaceOK
<1>3. PICK i \in 1 .. Size(job, n) : i = proc[r].at
  <2>1. Size(job, n) \in Nat
    BY ModuleData
  <2>2. proc[r].at \in 1 .. Size(job, n)
    BY <1>1, <1>2, <2>1 DEF ControlOK
  <2> QED
    BY <2>2
<1>4. PICK p : p = job.modules[n].params[i]
  OBVIOUS
<1>5. /\ Here(r) = p /\ SetHere(r) = UsersOf(job, n, i)
      /\ p \in ToSet(job.stored) <=> p \in storage[r].dist
  BY <1>1, <1>2, <1>3, <1>4, AtParam
<1>6. p \in ToSet(job.stored)
  BY <1>5 DEF TakeDistributed
<1>7. UsersOf(job, n, i) = Ranks
  BY <1>3, <1>4, <1>6, Separate
<1>8. r \in SetHere(r)
  BY <1>5, <1>7
<1>9. /\ proc' = [proc EXCEPT ![r].pc = "param_load", ![r].load = p]
      /\ UNCHANGED <<job, locator, storage>>
  BY <1>5, <1>8 DEF TakeDistributed
<1>10. Goes(r, "param_load", proc[r].mod, proc[r].at, p, proc[r].order)
  BY <1>1, <1>9, Zenon DEF Goes, Fields
<1>11. proc'[r].mod = proc[r].mod /\ Plain(job, proc[r], proc'[r])
  BY <1>1, <1>10 DEF Goes, Fields, Plain
<1>12. Quiet(job, r, proc[r], proc'[r])
  BY <1>1, <1>11, PlainQuiet
<1> QED
  BY <1>9, <1>10, <1>12, QuietLocal DEF Goes
InSegment(N, z, k) ==
    \E q \in Nat, d \in 0 .. z - 1, s \in Nat :
        /\ q = (k - 1) \div z /\ d = (k - 1) % z /\ s = q * z /\ q < N /\ s + (1 + d) = k

\* Position k of a tensor of m elements in N segments of z elements.
LEMMA Quotient ==
    ASSUME NEW N \in Nat \ {0}, NEW m \in Nat \ {0}, NEW z \in Nat \ {0}, m <= N * z, NEW k \in 1 .. m
    PROVE  InSegment(N, z, k)
<1>1. PICK a \in Nat : a = k - 1 /\ a < m
  OBVIOUS
<1>2. /\ a \div z \in Nat /\ z * (a \div z) <= a
  BY DivNat
<1>3. a % z \in 0 .. z - 1 /\ a = z * (a \div z) + (a % z)
  BY DivMod
<1>4. PICK q \in Nat, d \in 0 .. z - 1 : q = a \div z /\ d = a % z /\ a = z * q + d
  BY <1>2, <1>3
<1>5. q < N
  <2>1. SUFFICES ASSUME q >= N PROVE FALSE
    BY <1>4
  <2>2. z * q >= z * N
    BY <2>1
  <2>3. z * q \in Int /\ z * N \in Int /\ z * N = N * z
    OBVIOUS
  <2> QED
    BY <1>1, <1>4, <2>2, <2>3
<1>6. PICK s \in Nat : s = q * z /\ s = z * q
  <2>1. q * z \in Nat /\ q * z = z * q
    OBVIOUS
  <2> QED
    BY <2>1
<1>7. s + (1 + d) = k
  BY <1>1, <1>4, <1>6
<1> QED
  BY <1>1, <1>4, <1>5, <1>6, <1>7 DEF InSegment

\* Element k of a parameter lies in the segment of a rank, in its place.
LEMMA SegmentAt ==
    ASSUME NEW p \in Params, NEW k \in 1 .. Numel[p], NEW size,
           size = (Numel[p] + NumRanks - 1) \div NumRanks
    PROVE  /\ (k - 1) \div size \in Ranks
           /\ Segment(p, (k - 1) \div size)[1 + ((k - 1) % size)] = <<p, k, (k - 1) \div size>>
<1>1. PICK N \in Nat \ {0}, m \in Nat \ {0} : N = NumRanks /\ m = Numel[p]
  BY Constants
<1>2. m + N - 1 \in Nat
  BY <1>1
<1>3. size \in Nat /\ N * size <= m + N - 1 /\ m + N - 1 < N * size + N
  BY <1>1, <1>2, DivNat
<1>4. m <= N * size
  <2>1. N * size \in Int
    BY <1>3
  <2> QED
    BY <1>3, <2>1
<1>5. size \in Nat \ {0}
  <2>1. CASE size = 0
    <3>1. N * size = 0
      BY <2>1
    <3> QED
      BY <1>4, <3>1
  <2> QED
    BY <1>3, <2>1
<1>6. PICK z \in Nat \ {0} : z = size
  BY <1>5
<1>7. PICK q \in Nat, d \in 0 .. z - 1, s \in Nat :
          /\ q = (k - 1) \div z /\ d = (k - 1) % z /\ s = q * z /\ q < N /\ s + (1 + d) = k
  <2>1. k \in 1 .. m /\ m <= N * z
    BY <1>1, <1>4, <1>6
  <2>2. InSegment(N, z, k)
    BY <2>1, Quotient
  <2> QED
    BY <2>2 DEF InSegment
<1>8. q \in Ranks
  BY <1>1, <1>7 DEF Ranks
<1>9. 1 + d \in 1 .. z /\ k <= m /\ s + (1 + d) = k
  BY <1>1, <1>7
<1>10. Segment(p, q)[1 + d] = IF s + (1 + d) <= m THEN Tensor(p, q)[s + (1 + d)] ELSE Zero
  BY <1>1, <1>6, <1>7, <1>9 DEF Segment
<1>11. Tensor(p, q)[k] = <<p, k, q>>
  BY DEF Tensor
<1>12. Segment(p, q)[1 + d] = <<p, k, q>>
  BY <1>9, <1>10, <1>11
<1> QED
  BY <1>6, <1>7, <1>8, <1>12

\* A rank that loads to deploy loads together with all others, which are as far.
LEMMA LoadSame ==
    ASSUME JobsSeparate, NEW M, job \in Jobs, Canon(job, M), Core(M), Deep, Load,
           NEW r \in Ranks, proc[r].pc = "param_load", NEW q \in Ranks
    PROVE  /\ proc[q].pc = "param_load" /\ proc[q].mod = proc[r].mod /\ proc[q].at = proc[r].at
           /\ proc[q].load = proc[r].load
<1>1. ASSUME NEW s \in Ranks
      PROVE  /\ proc[s].pc \in {"trace_load", "master_load", "fetch_load", "param_load"}
             /\ proc[s].load \in DOMAIN locator[r].part /\ ControlOK(job, s, proc[s])
             /\ Barriers(proc[s]) = Barriers(proc[r])
             /\ ParamsOK(job, s, proc[s], locator[s], storage[s])
             /\ DOMAIN locator[s].part = DOMAIN locator[r].part
  BY DEF Load, Core, RankOK, Deep, Together
<1>2. PICK n \in DOMAIN job.modules, l \in DOMAIN job.modules : n = proc[r].mod /\ l = proc[q].mod
  BY <1>1, PlaceOK
<1>3. n \in Nat /\ l \in Nat /\ Size(job, n) \in Nat
  BY ModuleData
<1>4. PICK i \in 1 .. Size(job, n) : i = proc[r].at
  <2>1. proc[r].at \in 1 .. Size(job, n)
    BY <1>1, <1>2, <1>3 DEF ControlOK
  <2> QED
    BY <2>1
<1>5. PICK p : p = job.modules[n].params[i]
  OBVIOUS
<1>6. p = proc[r].load /\ p \in ToSet(job.stored) /\ p \in DOMAIN locator[q].part
  BY <1>1, <1>2, <1>4, <1>5 DEF ControlOK
<1>7. ASSUME NEW s \in Ranks, NEW e \in 1 .. Size(job, n), NEW z, z = job.modules[n].params[e],
             z \in ToSet(job.stored), z \in DOMAIN locator[r].part
      PROVE  ~Done(job, proc[s], n, e)
  BY <1>1, <1>7 DEF ParamsOK
<1>8. ~Done(job, proc[q], n, i)
  BY <1>1, <1>4, <1>5, <1>6, <1>7
<1>9. ~(n < l)
  BY <1>2, <1>8 DEF Done
<1>10. Barriers(proc[r]) = n
  BY <1>2 DEF Barriers
<1>11. proc[q].pc = "param_load"
  <2>1. SUFFICES ASSUME proc[q].pc # "param_load" PROVE FALSE
    OBVIOUS
  <2>2. Barriers(proc[q]) = l - 1
    BY <1>1, <1>2, <2>1 DEF Barriers
  <2> QED
    BY <1>1, <1>3, <1>9, <1>10, <2>2
<1>12. l = n
  BY <1>1, <1>2, <1>10, <1>11 DEF Barriers
<1>13. PICK d \in 1 .. Size(job, n) : d = proc[q].at
  <2>1. proc[q].at \in Nat \ {0} /\ proc[q].at <= Size(job, proc[q].mod)
    BY <1>1, <1>11 DEF ControlOK
  <2>2. proc[q].at \in 1 .. Size(job, n)
    BY <1>2, <1>3, <1>12, <2>1
  <2> QED
    BY <2>2
<1>14. PICK z : z = job.modules[n].params[d] /\ z = proc[q].load /\ z \in ToSet(job.stored)
  <2>1. proc[q].load = job.modules[proc[q].mod].params[proc[q].at] /\ proc[q].load \in ToSet(job.stored)
    BY <1>1, <1>11 DEF ControlOK
  <2> QED
    BY <1>2, <1>12, <1>13, <2>1
<1>15. ~Done(job, proc[r], n, d)
  BY <1>1, <1>7, <1>14
<1>16. d = i
  <2>1. Deployed(job, proc[q]) = d - 1 /\ Deployed(job, proc[r]) = i - 1
    BY <1>4, <1>5, <1>11, <1>13 DEF Deployed
  <2>2. ~(i <= d - 1) /\ ~(d <= i - 1)
    BY <1>2, <1>8, <1>12, <1>15, <2>1 DEF Done
  <2> QED
    BY <1>3, <2>2
<1> QED
  BY <1>2, <1>4, <1>5, <1>6, <1>11, <1>12, <1>13, <1>14, <1>16

\* What a rank gathers is the parameter, whole.
LEMMA GatheredWhole ==
    ASSUME Deep, NEW r \in Ranks, NEW p \in Params, proc[r].load = p,
           \A q \in Ranks : proc[q].load = p /\ p \in DOMAIN locator[q].part
    PROVE  Gathered(r) = Whole(p)
<1>1. PICK size : size = (Numel[p] + NumRanks - 1) \div NumRanks
  OBVIOUS
<1>2. \A q \in Ranks : locator[q].part[proc[q].load] = Segment(p, q)
  BY DEF Deep, ParamsOK
<1>3. ASSUME NEW k \in 1 .. Numel[p]
      PROVE  locator[(k - 1) \div size].part[proc[(k - 1) \div size].load][1 + ((k - 1) % size)]
                 = <<p, k, (k - 1) \div size>>
  <2>1. /\ (k - 1) \div size \in Ranks
        /\ Segment(p, (k - 1) \div size)[1 + ((k - 1) % size)] = <<p, k, (k - 1) \div size>>
    BY <1>1, SegmentAt
  <2> QED
    BY <1>2, <2>1
<1>4. Gathered(r) = [k \in 1 .. Numel[p] |->
          locator[(k - 1) \div size].part[proc[(k - 1) \div size].load][1 + ((k - 1) % size)]]
  BY <1>1 DEF Gathered
<1>5. Whole(p) = [k \in 1 .. Numel[p] |-> <<p, k, (k - 1) \div size>>]
  BY <1>1 DEF Whole
<1> QED
  BY <1>3, <1>4, <1>5

\* A load that deploys nothing.
LEMMA LoadedPlain ==
    ASSUME NEW M, Core(M), NEW q \in Ranks, proc'[q] = AfterLoad(q),
           proc[q].pc \in {"trace_load", "master_load", "fetch_load"}
    PROVE  proc'[q].mod = proc[q].mod /\ Plain(job, proc[q], proc'[q])
<1>1. DOMAIN proc[q] = {"pc", "mod", "at", "load", "order"}
  BY DEF Core, RankOK, ControlOK
<1>2. CASE proc[q].pc = "trace_load"
  <2>1. PICK i : i = proc[q].at + 1
    OBVIOUS
  <2>2. proc'[q] = [proc[q] EXCEPT !.pc = "trace", !.at = i]
    BY <1>2, <2>1 DEF AfterLoad
  <2>3. Fields(proc'[q], "trace", proc[q].mod, i, proc[q].load, proc[q].order)
    BY <1>1, <2>2, FieldsOf
  <2> QED
    BY <1>2, <2>3 DEF Fields, Plain
<1>3. CASE proc[q].pc # "trace_load"
  <2>1. PICK phase \in {"master", "fetching"} : proc'[q] = [proc[q] EXCEPT !.pc = phase]
    BY <1>3 DEF AfterLoad
  <2>2. Fields(proc'[q], phase, proc[q].mod, proc[q].at, proc[q].load, proc[q].order)
    BY <1>1, <2>1, FieldsOf
  <2> QED
    BY <2>1, <2>2 DEF Fields, Plain
<1> QED
  BY <1>2, <1>3

\* Rank r goes from x to y as it takes p, parameter i of module n: it forgets its
\* segment and holds the whole.
Takes(j, r, n, i, p, x, y) ==
    /\ x.pc = "param_load" /\ x.mod = n /\ x.at = i
    /\ y.pc = "param" /\ y.mod = n /\ y.at = i + 1
    /\ p = j.modules[n].params[i] /\ p \in ToSet(j.stored)

Drops(j, r, p, loc, lod) ==
    /\ DOMAIN lod = {"known", "part"}
    /\ DOMAIN lod.part = DOMAIN loc.part \ {p}
    /\ \A z \in DOMAIN lod.part : lod.part[z] = loc.part[z]
    /\ DOMAIN lod.known = DOMAIN loc.known \ {j.id[r][p]}

\* A rank is not asked any more for what it removes, and removes no other id that
\* it may be asked for.
LEMMA TakesKnown ==
    ASSUME JobsSeparate, NEW j \in Jobs, NEW r \in Ranks, NEW n \in DOMAIN j.modules, NEW i \in 1 .. Size(j, n),
           NEW p, NEW x, NEW y, Takes(j, r, n, i, p, x, y), NEW loc, NEW lod, NEW st,
           ParamsOK(j, r, x, loc, st), Drops(j, r, p, loc, lod),
           NEW l \in DOMAIN j.modules, NEW c \in 1 .. Count(j, y), NEW z, z = j.stored[c],
           Asking(y, l), z \in ToSet(j.modules[l].params)
    PROVE  j.id[0][z] \in DOMAIN lod.known
<1>1. /\ x.pc = "param_load" /\ x.mod = n /\ y.pc = "param" /\ y.mod = n
      /\ p = j.modules[n].params[i]
  BY DEF Takes
<1>2. l > n
  BY <1>1 DEF Asking
<1>3. Asking(x, l) /\ c \in 1 .. Count(j, x)
  BY <1>1, <1>2 DEF Asking, Count
<1>4. j.id[0][z] \in DOMAIN loc.known
  BY <1>3 DEF ParamsOK
<1>5. l # n /\ Len(j.modules) # 1
  BY <1>2, ModuleData
<1>6. p \in ToSet(j.modules[n].params)
  BY <1>1, Separate
<1>7. p # z
  <2>1. ToSet(j.modules[n].params) \cap ToSet(j.modules[l].params) = {}
    BY <1>5 DEF JobsSeparate
  <2> QED
    BY <1>6, <2>1
<1>8. p \in Params /\ z \in Params
  <2>1. p \in Params
    BY <1>1, ModuleData DEF Size
  <2>2. j.modules[l].params \in Seq(Params)
    BY ModuleData
  <2>3. ToSet(j.modules[l].params) \subseteq Params
    BY <2>2 DEF ToSet
  <2> QED
    BY <2>1, <2>3
<1>9. j.id[r][p] # j.id[0][z]
  <2>1. \A s \in Ranks : \A a, b \in Params : j.id[s][a] = j.id[0][b] => a = b
    BY <1>5 DEF JobsSeparate
  <2> QED
    BY <1>7, <1>8, <2>1
<1> QED
  BY <1>4, <1>9 DEF Drops

\* A rank that has taken the whole parameter holds what it should.
LEMMA TakesRank ==
    ASSUME JobsSeparate, NEW j \in Jobs, NEW r \in Ranks, NEW n \in DOMAIN j.modules, NEW i \in 1 .. Size(j, n),
           NEW p, NEW x, NEW y, Takes(j, r, n, i, p, x, y), NEW loc, NEW lod, NEW st, NEW su,
           ParamsOK(j, r, x, loc, st), Drops(j, r, p, loc, lod), su.value = Put(st.value, p, Whole(p))
    PROVE  ParamsOK(j, r, y, lod, su)
<1>1. /\ x.pc = "param_load" /\ x.mod = n /\ x.at = i /\ y.pc = "param" /\ y.mod = n /\ y.at = i + 1
      /\ p = j.modules[n].params[i] /\ p \in ToSet(j.stored)
  BY DEF Takes
<1>2. n \in Nat /\ i \in Nat \ {0}
  BY ModuleData
<1>3. Deployed(j, x) = i - 1 /\ Deployed(j, y) = i
  BY <1>1, <1>2 DEF Deployed
<1>4. DOMAIN lod = {"known", "part"} /\ \A z \in DOMAIN lod.part : lod.part[z] = Segment(z, r)
  BY DEF Drops, ParamsOK
<1>5. \A l \in DOMAIN j.modules : \A c \in 1 .. Count(j, y) :
          Asking(y, l) /\ j.stored[c] \in ToSet(j.modules[l].params) =>
              j.id[0][j.stored[c]] \in DOMAIN lod.known
  BY TakesKnown
<1>6. ASSUME NEW l \in DOMAIN j.modules, NEW e \in 1 .. Size(j, l), NEW z,
             z = j.modules[l].params[e], Done(j, y, l, e)
      PROVE  /\ z \in ToSet(j.stored) => z \notin DOMAIN lod.part
             /\ r \in UsersOf(j, l, e) => Holds(su, z, Final(j, z))
  <2>1. CASE l = n /\ e = i
    <3>1. z = p /\ p \notin DOMAIN lod.part
      BY <1>1, <1>6, <2>1 DEF Drops
    <3>2. Holds(su, p, Whole(p)) /\ Final(j, p) = Whole(p)
      BY <1>1 DEF Holds, Put, Final
    <3> QED
      BY <3>1, <3>2
  <2>2. CASE ~(l = n /\ e = i)
    <3>1. e \in Int
      BY ModuleData
    <3>2. Done(j, x, l, e)
      BY <1>1, <1>2, <1>3, <1>6, <2>2, <3>1 DEF Done
    <3>3. z # p
      BY <1>1, <1>6, <2>2, Separate
    <3>4. /\ z \in ToSet(j.stored) => z \notin DOMAIN loc.part
          /\ r \in UsersOf(j, l, e) => Holds(st, z, Final(j, z))
      BY <1>6, <3>2 DEF ParamsOK
    <3>5. \A w : Holds(st, z, w) => Holds(su, z, w)
      BY <3>3 DEF Holds, Put
    <3> QED
      BY <3>4, <3>5 DEF Drops
  <2> QED
    BY <2>1, <2>2
<1> QED
  BY <1>4, <1>5, <1>6 DEF ParamsOK

\* All ranks load: to profile, or all of them to deploy the same parameter.
LEMMA LoadDeep ==
    ASSUME JobsSeparate, NEW M, job \in Jobs, Canon(job, M), Core(M), Deep, Load
    PROVE  Deep'
<1>1. /\ proc' = [r \in Ranks |-> AfterLoad(r)] /\ job' = job
      /\ DOMAIN locator' = Ranks /\ DOMAIN storage' = Ranks
      /\ \A r \in Ranks : /\ proc[r].pc \in {"trace_load", "master_load", "fetch_load", "param_load"}
                          /\ proc[r].load \in DOMAIN locator[r].part
      /\ \A r \in Ranks : ControlOK(job, r, proc[r])
  BY DEF Load, Core, RankOK
<1>2. CASE \A r \in Ranks : proc[r].pc # "param_load"
  <2>1. ASSUME NEW q \in Ranks
        PROVE  Quiet(job, q, proc[q], proc'[q]) /\ locator'[q] = locator[q] /\ storage'[q] = storage[q]
    <3>1. proc'[q].mod = proc[q].mod /\ Plain(job, proc[q], proc'[q])
      BY <1>1, <1>2, LoadedPlain
    <3>2. locator'[q] = locator[q] /\ storage'[q] = storage[q]
      BY <1>2 DEF Load
    <3> QED
      BY <1>1, <3>1, <3>2, PlainQuiet
  <2>2. ASSUME NEW q \in Ranks
        PROVE  ParamsOK(job', q, proc'[q], locator'[q], storage'[q])
    BY <1>1, <2>1, QuietRank DEF Deep
  <2>3. ASSUME NEW q \in Ranks, NEW s \in Ranks
        PROVE  Together(q, s)'
    <3>1. /\ Barriers(proc[q]) = Barriers(proc[s]) /\ Count(job, proc[q]) = Count(job, proc[s])
          /\ DOMAIN locator[q].part = DOMAIN locator[s].part
      BY DEF Deep, Together
    <3>2. \A t \in Ranks : /\ Barriers(proc'[t]) = Barriers(proc[t])
                           /\ Count(job, proc'[t]) = Count(job, proc[t])
      BY <2>1 DEF Quiet
    <3> QED
      BY <1>1, <2>1, <3>1, <3>2 DEF Together
  <2> QED
    BY <1>1, <2>2, <2>3 DEF Deep
<1>3. CASE \E r \in Ranks : proc[r].pc = "param_load"
  <2>1. PICK r \in Ranks : proc[r].pc = "param_load"
    BY <1>3
  <2>2. PICK n \in DOMAIN job.modules : n = proc[r].mod
    BY <1>1, PlaceOK
  <2>3. PICK i \in 1 .. Size(job, n) : i = proc[r].at
    <3>1. proc[r].at \in Nat \ {0} /\ proc[r].at <= Size(job, n) /\ Size(job, n) \in Nat
      BY <1>1, <2>1, <2>2, ModuleData DEF ControlOK
    <3>2. proc[r].at \in 1 .. Size(job, n)
      BY <3>1
    <3> QED
      BY <3>2
  <2>4. PICK p : p = proc[r].load
    OBVIOUS
  <2>5. ASSUME NEW q \in Ranks
        PROVE  proc[q].pc = "param_load" /\ proc[q].mod = n /\ proc[q].at = i /\ proc[q].load = p
    BY <2>1, <2>2, <2>3, <2>4, LoadSame
  <2>6. p = job.modules[n].params[i] /\ p \in ToSet(job.stored)
    BY <1>1, <2>1, <2>2, <2>3, <2>4 DEF ControlOK
  <2>7. p \in Params
    BY <2>6, ModuleData DEF Size
  <2>8. ASSUME NEW q \in Ranks
        PROVE  Takes(job, q, n, i, p, proc[q], proc'[q])
    <3>1. DOMAIN proc[q] = {"pc", "mod", "at", "load", "order"}
      BY <1>1 DEF ControlOK
    <3>2. PICK e : e = i + 1
      OBVIOUS
    <3>3. proc'[q] = [proc[q] EXCEPT !.pc = "param", !.at = e]
      BY <1>1, <2>5, <3>2 DEF AfterLoad
    <3>4. Fields(proc'[q], "param", proc[q].mod, e, proc[q].load, proc[q].order)
      BY <3>1, <3>3, FieldsOf
    <3> QED
      BY <2>5, <2>6, <3>2, <3>4 DEF Fields, Takes
  <2>9. ASSUME NEW q \in Ranks
        PROVE  storage'[q].value = Put(storage[q].value, p, Whole(p))
    <3>1. Gathered(q) = Whole(p)
      BY <1>1, <2>5, <2>7, GatheredWhole
    <3>2. PICK d, v : d = storage[q].dist \ {p} /\ v = Put(storage[q].value, p, Whole(p))
      OBVIOUS
    <3>3. storage'[q] = [dist |-> d, value |-> v]
      BY <2>5, <3>1, <3>2 DEF Load
    <3> QED
      BY <3>2, <3>3
  <2>10. ASSUME NEW q \in Ranks
        PROVE  Drops(job, q, p, locator[q], locator'[q])
    <3>1. PICK f, g : /\ f = [z \in DOMAIN locator[q].known \ {job.id[q][p]} |-> locator[q].known[z]]
                      /\ g = [z \in DOMAIN locator[q].part \ {p} |-> locator[q].part[z]]
      OBVIOUS
    <3>2. locator'[q] = [known |-> f, part |-> g]
      BY <2>5, <3>1 DEF Load, Removed
    <3>3. DOMAIN locator'[q] = {"known", "part"} /\ locator'[q].known = f /\ locator'[q].part = g
      BY <3>2
    <3>4. /\ DOMAIN f = DOMAIN locator[q].known \ {job.id[q][p]}
          /\ DOMAIN g = DOMAIN locator[q].part \ {p} /\ \A z \in DOMAIN g : g[z] = locator[q].part[z]
      BY <3>1
    <3> QED
      BY <3>3, <3>4 DEF Drops
  <2>11. ASSUME NEW q \in Ranks
         PROVE  ParamsOK(job', q, proc'[q], locator'[q], storage'[q])
    <3>1. ParamsOK(job, q, proc[q], locator[q], storage[q])
      BY DEF Deep
    <3> QED
      BY <1>1, <2>8, <2>9, <2>10, <3>1, TakesRank
  <2>12. ASSUME NEW q \in Ranks, NEW s \in Ranks
         PROVE  Together(q, s)'
    <3>1. DOMAIN locator[q].part = DOMAIN locator[s].part
      BY DEF Deep, Together
    <3>2. DOMAIN locator'[q].part = DOMAIN locator'[s].part
      BY <2>10, <3>1 DEF Drops
    <3>3. \A t \in Ranks : proc'[t].pc = "param" /\ proc'[t].mod = n
      BY <2>8 DEF Takes
    <3>4. Barriers(proc'[q]) = Barriers(proc'[s]) /\ Count(job, proc'[q]) = Count(job, proc'[s])
      BY <3>3 DEF Barriers, Count
    <3> QED
      BY <1>1, <3>2, <3>4 DEF Together
  <2> QED
    BY <1>1, <2>11, <2>12 DEF Deep
<1> QED
  BY <1>2, <1>3
-----------------------------------------------------------------------------
(* The parameters end whole. *)

\* At the start nothing is stored or deployed.
LEMMA InitDeep ==
    ASSUME Init, NEW M, Core(M)
    PROVE  Deep
<1>1. /\ job \in Jobs
      /\ proc = [r \in Ranks |-> [pc |-> "store", mod |-> 1, at |-> 1, load |-> << >>,
                     order |-> IF r = 0 THEN job.modules[1].params
                                        ELSE Reverse(job.modules[1].params)]]
      /\ locator = [r \in Ranks |-> [known |-> << >>, part |-> << >>]]
  BY DEF Init
<1>2. ASSUME NEW q \in Ranks
      PROVE  /\ proc[q].pc = "store" /\ proc[q].mod = 1 /\ proc[q].at = 1
             /\ DOMAIN locator[q] = {"known", "part"} /\ DOMAIN locator[q].part = {}
  BY <1>1
<1>3. ASSUME NEW q \in Ranks
      PROVE  Barriers(proc[q]) = 0 /\ Count(job, proc[q]) = 0 /\ Deployed(job, proc[q]) = 0
  BY <1>2 DEF Barriers, Count, Deployed
<1>4. ASSUME NEW q \in Ranks
      PROVE  ParamsOK(job, q, proc[q], locator[q], storage[q])
  <2>1. ASSUME NEW n \in DOMAIN job.modules, NEW i \in 1 .. Size(job, n)
        PROVE  ~Done(job, proc[q], n, i)
    <3>1. n \in Nat \ {0} /\ Size(job, n) \in Nat
      BY <1>1, ModuleData
    <3> QED
      BY <1>2, <1>3, <3>1 DEF Done
  <2>2. 1 .. Count(job, proc[q]) = {}
    BY <1>3
  <2> QED
    BY <1>2, <2>1, <2>2 DEF ParamsOK
<1> QED
  BY <1>1, <1>2, <1>3, <1>4 DEF Deep, Together

\* A step that leaves the job running keeps the ranks' parameters right.
LEMMA StepDeep ==
    ASSUME JobsSeparate, NEW M, job \in Jobs, Canon(job, M), Core(M), Deep, Step, status' = "running"
    PROVE  Deep'
<1>1. ASSUME NEW r \in Ranks, Local(r)
      PROVE  Deep'
  BY <1>1, StoredDeep, RegisterParamDeep, RegisteredDeep, TraceDeep, SyncDebugNameDeep,
     FindCommunicatorDeep, FetchLoopDeep, BcastDeploymentDeep, SyncDeep, SkipParamDeep,
     ParamTagDeep, TakeDistributedDeep, SyncParamOnInitDeep, ParamsDoneDeep, SkipGradDeep,
     GradsDoneDeep, SyncAgainDeep, ReadyDeep DEF Local
<1>2. CASE Joint
  BY <1>2, StoreDeep, LoadDeep, BarrierDeep, CreateCommunicatorDeep, ParamCommunicatorDeep,
     RegisterGradDeep DEF Joint
<1>3. CASE Master
  <2>1. CASE MasterFails
    BY <2>1 DEF MasterFails, Threw
  <2> QED
    BY <1>3, <2>1, FetchDeep, DecomposeDeep DEF Master
<1> QED
  BY <1>1, <1>2, <1>3 DEF Step

\* A parameter as it ends: each element in its place.
LEMMA FinalWhole ==
    ASSUME NEW j, NEW p \in Params
    PROVE  /\ Len(Final(j, p)) = Numel[p]
           /\ \A k \in 1 .. Numel[p] : /\ Final(j, p)[k] # Zero
                                       /\ Final(j, p)[k][1] = p /\ Final(j, p)[k][2] = k
<1>1. Numel[p] \in Nat
  BY Constants
<1>2. PICK m \in Nat : m = Numel[p]
  BY <1>1
<1>3. PICK V : V = Final(j, p)
  OBVIOUS
<1>4. \E G : V = [k \in 1 .. m |-> <<p, k, G[k]>>]
  <2>1. CASE p \in ToSet(j.stored)
    <3>1. PICK G : G = [k \in 1 .. Numel[p] |-> (k - 1) \div ((Numel[p] + NumRanks - 1) \div NumRanks)]
      OBVIOUS
    <3>2. V = [k \in 1 .. m |-> <<p, k, G[k]>>]
      BY <1>2, <1>3, <2>1, <3>1 DEF Final, Whole
    <3> QED
      BY <3>2
  <2>2. CASE p \notin ToSet(j.stored)
    <3>1. PICK G : G = [k \in 1 .. m |-> 0]
      OBVIOUS
    <3>2. V = [k \in 1 .. m |-> <<p, k, G[k]>>]
      BY <1>2, <1>3, <2>2, <3>1 DEF Final, Tensor
    <3> QED
      BY <3>2
  <2> QED
    BY <2>1, <2>2
<1>5. PICK G : V = [k \in 1 .. m |-> <<p, k, G[k]>>]
  BY <1>4
<1>6. Len(V) = m
  BY <1>5
<1>7. ASSUME NEW k \in 1 .. m
      PROVE  V[k] # Zero /\ V[k][1] = p /\ V[k][2] = k
  <2>1. V[k] = <<p, k, G[k]>>
    BY <1>5
  <2> QED
    BY <2>1 DEF Zero
<1> QED
  BY <1>2, <1>3, <1>6, <1>7

\* A rank that has left module n, or the last one, has deployed its parameters.
LEMMA PastDone ==
    ASSUME NEW j \in Jobs, NEW r, NEW x, ControlOK(j, r, x), NEW n \in DOMAIN j.modules,
           x.pc = "done" \/ x.mod > n, NEW i \in 1 .. Size(j, n)
    PROVE  Done(j, x, n, i)
<1>1. PICK L \in Nat, l \in Nat : L = Len(j.modules) /\ l = x.mod /\ l <= L
  BY ModulesFrom1 DEF ControlOK
<1>2. n \in Nat /\ n <= L /\ Size(j, n) \in Nat
  BY <1>1, ModuleData
<1>3. CASE x.mod > n
  BY <1>3 DEF Done
<1>4. CASE x.pc = "done"
  <2>1. ~(l < L)
    BY <1>1, <1>4 DEF ControlOK
  <2>2. n < l \/ n = l
    BY <1>1, <1>2, <2>1
  <2>3. n = l => i <= Deployed(j, x)
    BY <1>1, <1>2, <1>4 DEF Deployed
  <2> QED
    BY <1>1, <2>2, <2>3 DEF Done
<1> QED
  BY <1>3, <1>4

\* What a rank has deployed is whole.
LEMMA DeepWhole ==
    ASSUME NEW M, job \in Jobs, Core(M), Deep
    PROVE  ParamsWhole
<1>1. ASSUME NEW r \in Ranks, NEW n \in 1 .. Len(job.modules), proc[r].pc = "done" \/ proc[r].mod > n,
             NEW p \in ToSet(job.modules[n].params), NEW S \in job.modules[n].users[p], r \in S
      PROVE  storage[r].value[p] = Final(job, p) /\ p \in Params
  <2>1. n \in DOMAIN job.modules
    BY ModulesFrom1
  <2>2. PICK i \in 1 .. Size(job, n) : p = job.modules[n].params[i]
    <3>1. ToSet(job.modules[n].params) = {job.modules[n].params[i] : i \in 1 .. Size(job, n)}
      BY <2>1, ModuleData
    <3> QED
      BY <3>1
  <2>3. p \in Params
    BY <2>1, <2>2, ModuleData DEF Size
  <2>4. Done(job, proc[r], n, i)
    <3>1. ControlOK(job, r, proc[r])
      BY DEF Core, RankOK
    <3> QED
      BY <1>1, <2>1, <3>1, PastDone
  <2>5. r \in UsersOf(job, n, i)
    BY <1>1, <2>2 DEF UsersOf
  <2>6. ParamsOK(job, r, proc[r], locator[r], storage[r])
    BY DEF Deep
  <2>7. Holds(storage[r], p, Final(job, p))
    BY <2>1, <2>2, <2>4, <2>5, <2>6 DEF ParamsOK
  <2> QED
    BY <2>3, <2>7 DEF Holds
<1>2. ASSUME NEW r \in Ranks, NEW n \in 1 .. Len(job.modules), proc[r].pc = "done" \/ proc[r].mod > n,
             NEW p \in ToSet(job.modules[n].params), NEW S \in job.modules[n].users[p], r \in S
      PROVE  /\ Len(storage[r].value[p]) = Numel[p]
             /\ \A k \in 1 .. Numel[p] :
                    LET e == storage[r].value[p][k] IN e # Zero /\ e[1] = p /\ e[2] = k
             /\ \A q \in S : (proc[q].pc = "done" \/ proc[q].mod > n) =>
                    storage[q].value[p] = storage[r].value[p]
  <2>1. storage[r].value[p] = Final(job, p) /\ p \in Params
    BY <1>1, <1>2
  <2>2. ASSUME NEW q \in S, proc[q].pc = "done" \/ proc[q].mod > n
        PROVE  storage[q].value[p] = Final(job, p)
    <3>1. q \in Ranks
      <4>1. n \in DOMAIN job.modules
        BY ModulesFrom1
      <4>2. job.modules[n].users[p] \subseteq SUBSET Ranks
        BY <4>1, DeployAssumption
      <4> QED
        BY <4>2
    <3> QED
      BY <1>1, <1>2, <2>2, <3>1
  <2> QED
    BY <2>1, <2>2, FinalWhole
<1> QED
  BY <1>2, Zenon DEF ParamsWhole
-----------------------------------------------------------------------------
(* The ranks get the broadcasts they wait for. *)

\* How many barriers a rank has passed at least, that comes to the broadcast at b.
Past(b) == IF b[2] \in {"sync", "value", "sync2", "end"} THEN b[1] ELSE b[1] - 1

PastAt(b, a) == b[1] \in Nat /\ Past(b) >= a

\* The barriers passed before the broadcasts of a phase.
LEMMA PointPast ==
    ASSUME NEW j, NEW n \in Nat, NEW i
    PROVE  /\ PastAt(RegisterPoint(j, n, i), n - 1)
           /\ PastAt(ValuePoint(j, n, i), n)
           /\ PastAt(EndPoint(j, n), n)
<1>1. ASSUME NEW l \in Nat, NEW k \in {"id", "names", "fetch", "deployment"}, NEW e, NEW b, b = <<l, k, e>>
      PROVE  PastAt(b, l - 1)
  <2>1. b[1] = l /\ b[2] = k
    BY <1>1
  <2> QED
    BY <2>1 DEF PastAt, Past
<1>2. ASSUME NEW l \in Nat, NEW k \in {"sync", "value", "sync2", "end"}, NEW e, NEW b, b = <<l, k, e>>
      PROVE  PastAt(b, l)
  <2>1. b[1] = l /\ b[2] = k
    BY <1>2
  <2> QED
    BY <2>1 DEF PastAt, Past
<1>3. ASSUME NEW l \in Nat, NEW e
      PROVE  PastAt(RegisterPoint(j, l, e), l - 1)
  BY <1>1 DEF RegisterPoint
<1>4. PastAt(ValuePoint(j, n, i), n)
  BY <1>2 DEF ValuePoint
<1>5. PastAt(EndPoint(j, n), n)
  <2>1. CASE n < Len(j.modules)
    <3>1. PICK l \in Nat : l = n + 1
      OBVIOUS
    <3>2. PastAt(RegisterPoint(j, l, 1), l - 1) /\ l - 1 = n
      BY <1>3, <3>1
    <3> QED
      BY <2>1, <3>1, <3>2 DEF EndPoint
  <2>2. CASE ~(n < Len(j.modules))
    BY <1>2, <2>2 DEF EndPoint
  <2> QED
    BY <2>1, <2>2
<1> QED
  BY <1>3, <1>4, <1>5

\* From one broadcast to the next no barrier is taken back.
LEMMA AfterPast ==
    ASSUME NEW j, NEW M, NEW b, b[1] \in Nat, NEW msg, MsgOK(j, M, b, msg), NEW a \in Int, Past(b) >= a
    PROVE  PastAt(After(j, b, msg), a)
<1>1. PICK n \in Nat : n = b[1]
  OBVIOUS
<1>2. PICK i : i = b[3]
  OBVIOUS
<1>3. b[2] \in {"id", "names", "fetch", "deployment", "sync", "sync2", "value"}
  BY DEF MsgOK
<1>4. ASSUME NEW c, NEW e \in Int, PastAt(c, e), e >= a
      PROVE  PastAt(c, a)
  BY <1>4 DEF PastAt, Past
<1>5. ASSUME NEW k, NEW c, c = <<n, k, 0>>
      PROVE  c[1] = n /\ c[2] = k
  BY <1>5
<1>6. CASE b[2] = "id"
  <2>1. PICK c : c = RegisterPoint(j, n, i + 1)
    OBVIOUS
  <2>2. After(j, b, msg) = c /\ n - 1 >= a
    BY <1>1, <1>2, <1>6, <2>1 DEF After, Past
  <2>3. PastAt(c, n - 1)
    BY <2>1, PointPast
  <2>4. n - 1 \in Int
    OBVIOUS
  <2> QED
    BY <1>4, <2>2, <2>3, <2>4
<1>7. CASE b[2] \in {"names", "fetch"}
  <2>1. PICK k \in {"fetch", "deployment"} : After(j, b, msg) = <<n, k, 0>>
    BY <1>1, <1>2, <1>7 DEF After
  <2>2. n - 1 >= a
    BY <1>1, <1>2, <1>7 DEF Past
  <2>3. PICK c : c = <<n, k, 0>>
    OBVIOUS
  <2>4. PastAt(c, a)
    BY <1>5, <2>1, <2>2, <2>3 DEF PastAt, Past
  <2> QED
    BY <2>1, <2>3, <2>4
<1>8. CASE b[2] = "deployment"
  <2>1. PICK c : c = <<n, "sync", 0>>
    OBVIOUS
  <2>2. n - 1 >= a /\ After(j, b, msg) = c
    BY <1>1, <1>2, <1>8, <2>1 DEF After, Past
  <2>3. PastAt(c, a)
    BY <1>5, <2>1, <2>2 DEF PastAt, Past
  <2> QED
    BY <2>2, <2>3
<1>9. CASE b[2] \in {"sync", "value"}
  <2>1. PICK e, c : c = ValuePoint(j, n, e) /\ After(j, b, msg) = c
    BY <1>1, <1>2, <1>9 DEF After
  <2>2. n >= a /\ n \in Int
    BY <1>1, <1>2, <1>9 DEF Past
  <2>3. PastAt(c, n)
    BY <2>1, PointPast
  <2> QED
    BY <1>4, <2>1, <2>2, <2>3
<1>10. CASE b[2] = "sync2"
  <2>1. PICK c : c = EndPoint(j, n)
    OBVIOUS
  <2>2. After(j, b, msg) = c /\ n >= a
    BY <1>1, <1>2, <1>10, <2>1 DEF After, Past
  <2>3. PastAt(c, n) /\ n \in Int
    BY <2>1, PointPast
  <2> QED
    BY <1>4, <2>2, <2>3
<1> QED
  BY <1>3, <1>6, <1>7, <1>8, <1>9, <1>10

\* Along a path of broadcasts no barrier is taken back.
LEMMA PathPast ==
    ASSUME NEW j, NEW M, NEW box, NEW b, NEW c, Path(j, M, box, b, c), NEW a \in Int, PastAt(b, a)
    PROVE  PastAt(c, a)
<1>1. PICK pts : /\ pts[1] = b /\ pts[Len(box) + 1] = c
                 /\ \A k \in 1 .. Len(box) : MsgOK(j, M, pts[k], box[k])
                                             /\ pts[k + 1] = After(j, pts[k], box[k])
  BY DEF Path
<1>2. PICK L \in Nat : L = Len(box)
  BY DEF Path
<1>3. PICK Bad \in SUBSET Nat : \A k \in Nat : k \in Bad <=> k \in 1 .. L + 1 /\ ~PastAt(pts[k], a)
  <2>1. {k \in Nat : k \in 1 .. L + 1 /\ ~PastAt(pts[k], a)} \in SUBSET Nat
    OBVIOUS
  <2> QED
    BY <2>1
<1>4. Bad = {}
  <2>1. SUFFICES ASSUME Bad # {} PROVE FALSE
    OBVIOUS
  <2>2. PICK m \in Bad : \A k \in Bad : m <= k
    BY <2>1, LeastNat
  <2>3. m \in 1 .. L + 1 /\ ~PastAt(pts[m], a) /\ m # 1
    BY <1>1, <1>3, <2>2
  <2>4. PICK k \in 1 .. L : m = k + 1
    <3>1. m - 1 \in 1 .. L /\ m = (m - 1) + 1
      BY <2>3
    <3> QED
      BY <3>1
  <2>5. PastAt(pts[k], a)
    <3>1. k \in Nat /\ k \in 1 .. L + 1 /\ ~(m <= k)
      BY <2>4
    <3> QED
      BY <1>3, <2>2, <3>1
  <2>6. MsgOK(j, M, pts[k], box[k]) /\ pts[m] = After(j, pts[k], box[k])
    BY <1>1, <1>2, <2>4
  <2> QED
    BY <2>3, <2>5, <2>6, AfterPast DEF PastAt
<1>5. L + 1 \in 1 .. L + 1 /\ L + 1 \in Nat
  OBVIOUS
<1>6. PastAt(pts[L + 1], a)
  BY <1>3, <1>4, <1>5
<1> QED
  BY <1>1, <1>2, <1>6

\* Where a rank is, it has passed no fewer barriers than the broadcast it comes to says.
LEMMA PointBarriers ==
    ASSUME NEW j, NEW x, x.mod \in Nat \ {0}, x.pc \in Phases
    PROVE  Past(Point(j, x)) <= Barriers(x)
<1>1. PICK n \in Nat \ {0} : n = x.mod
  OBVIOUS
<1>2. ASSUME NEW l, NEW i, NEW b, b = RegisterPoint(j, l, i)
      PROVE  Past(b) = l - 1
  <2>1. PICK k, e : k \in {"id", "names"} /\ b = <<l, k, e>>
    BY <1>2 DEF RegisterPoint
  <2>2. b[1] = l /\ b[2] = k
    BY <2>1
  <2> QED
    BY <2>1, <2>2 DEF Past
<1>3. ASSUME NEW k, NEW b, b = <<n, k, 0>>
      PROVE  Past(b) = IF k \in {"sync", "value", "sync2", "end"} THEN n ELSE n - 1
  <2>1. b[1] = n /\ b[2] = k
    BY <1>3
  <2> QED
    BY <2>1 DEF Past
<1>4. CASE x.pc \in {"store", "register"}
  <2>1. PICK l, i, b : l \in {1, n} /\ b = RegisterPoint(j, l, i) /\ Point(j, x) = b
    BY <1>1, <1>4 DEF Point
  <2>2. Barriers(x) = n - 1
    BY <1>1, <1>4 DEF Barriers
  <2> QED
    BY <1>2, <2>1, <2>2
<1>5. CASE x.pc \in {"trace", "trace_load", "fetchStart", "master", "master_load", "fetching",
                     "fetch_load", "barrier", "deployment"}
  <2>1. PICK k, b : k \in {"names", "fetch", "deployment"} /\ b = <<n, k, 0>> /\ Point(j, x) = b
    BY <1>1, <1>5 DEF Point
  <2>2. Barriers(x) \in {n - 1, n}
    BY <1>1 DEF Barriers
  <2>3. Past(b) = n - 1
    BY <1>3, <2>1
  <2> QED
    BY <2>1, <2>2, <2>3
<1>6. CASE x.pc \in {"param", "value", "param_load"}
  <2>1. PICK b : b = ValuePoint(j, n, x.at) /\ Point(j, x) = b
    BY <1>1, <1>6 DEF Point
  <2>2. Past(b) = n
    <3>1. PICK e : b = <<n, "value", e>> \/ b = <<n, "sync2", e>>
      BY <2>1 DEF ValuePoint
    <3>2. b[1] = n /\ b[2] \in {"value", "sync2"}
      BY <3>1
    <3> QED
      BY <3>2 DEF Past
  <2> QED
    BY <1>1, <1>6, <2>1, <2>2 DEF Barriers
<1>7. CASE x.pc = "route"
  <2>1. PICK b : b = EndPoint(j, n) /\ Point(j, x) = b
    BY <1>1, <1>7 DEF Point
  <2>2. Past(b) = n
    <3>1. CASE n < Len(j.modules)
      <4>1. PICK l \in Nat : l = n + 1
        OBVIOUS
      <4>2. b = RegisterPoint(j, l, 1)
        BY <2>1, <3>1, <4>1 DEF EndPoint
      <4> QED
        BY <1>2, <4>1, <4>2
    <3>2. CASE ~(n < Len(j.modules))
      <4>1. b = <<n, "end", 0>>
        BY <2>1, <3>2 DEF EndPoint
      <4> QED
        BY <1>3, <4>1
    <3> QED
      BY <3>1, <3>2
  <2> QED
    BY <1>1, <1>7, <2>1, <2>2 DEF Barriers
<1>8. CASE x.pc \notin {"store", "register", "trace", "trace_load", "fetchStart", "master",
                        "master_load", "fetching", "fetch_load", "barrier", "deployment", "param",
                        "value", "param_load", "route"}
  <2>1. PICK k, b : k \in {"sync", "sync2", "end"} /\ b = <<n, k, 0>> /\ Point(j, x) = b
    BY <1>1, <1>8 DEF Point
  <2>2. Past(b) = n
    BY <1>3, <2>1
  <2>3. x.pc \in {"sync", "zero", "sync2", "done"} => Barriers(x) = n
    BY <1>1 DEF Barriers
  <2>4. x.pc \in {"sync", "zero", "sync2", "done"}
    BY <1>8 DEF Phases
  <2> QED
    BY <2>1, <2>2, <2>3, <2>4
<1> QED
  BY <1>4, <1>5, <1>6, <1>7, <1>8

\* At the barrier of a module no rank has a broadcast to receive: rank 0, which has
\* not passed it either, has sent none beyond the last of fetchStart's loop.
LEMMA NothingAtBarrier ==
    ASSUME NEW M, job \in Jobs, Canon(job, M), Core(M), Deep, NEW r \in Ranks \ {0},
           proc[r].pc = "barrier"
    PROVE  inbox[r] = << >>
<1>1. SUFFICES ASSUME inbox[r] # << >> PROVE FALSE
  OBVIOUS
<1>2. /\ ControlOK(job, r, proc[r]) /\ ControlOK(job, 0, proc[0])
      /\ Path(job, M, inbox[r], Point(job, proc[r]), Point(job, proc[0]))
      /\ Barriers(proc[0]) = Barriers(proc[r])
  BY Constants DEF Core, RankOK, Deep, Together
<1>3. PICK n \in Nat \ {0} : /\ n = proc[r].mod
                             /\ proc[0].mod \in Nat \ {0} /\ proc[0].pc \in Phases
  BY <1>2, ModulesFrom1 DEF ControlOK
<1>4. PICK b, c, d, msg : /\ b = Point(job, proc[r]) /\ c = Point(job, proc[0])
                          /\ msg = Head(inbox[r]) /\ d = After(job, b, msg)
  OBVIOUS
<1>5. b = <<n, "deployment", 0>> /\ b[1] = n /\ b[2] = "deployment"
  <2>1. b = <<n, "deployment", 0>>
    BY <1>3, <1>4 DEF Point
  <2> QED
    BY <2>1
<1>6. Path(job, M, Tail(inbox[r]), d, c)
  BY <1>1, <1>2, <1>4, PathTake
<1>7. d = <<n, "sync", 0>>
  BY <1>4, <1>5 DEF After
<1>8. PastAt(d, n)
  <2>1. d[1] = n /\ d[2] = "sync"
    BY <1>7
  <2> QED
    BY <2>1 DEF PastAt, Past
<1>9. PastAt(c, n)
  BY <1>6, <1>8, PathPast
<1>10. Past(c) <= Barriers(proc[0])
  BY <1>3, <1>4, PointBarriers
<1>11. Barriers(proc[0]) = n - 1
  BY <1>2, <1>3 DEF Barriers
<1>12. c[1] \in Nat /\ Past(c) >= n /\ Past(c) \in Int
  BY <1>9 DEF PastAt, Past
<1> QED
  BY <1>10, <1>11, <1>12

\* The kind of the message sent at a broadcast, and what fetchStart's loop is sent.
LEMMA MsgKind ==
    ASSUME NEW j, NEW M, NEW b, NEW msg, MsgOK(j, M, b, msg)
    PROVE  /\ b[2] = "fetch" =>
                  /\ msg.kind = "fetch"
                  /\ \/ msg.val = 0
                     \/ \E p \in ToSet(j.modules[b[1]].params) \cap ToSet(j.stored) : msg.val = j.id[0][p]
           /\ b[2] = "deployment" => msg.kind = "deployment"
           /\ b[2] = "value" => msg.kind = "value"
  BY DEF MsgOK

\* What the broadcast a rank waits for is to be.
LEMMA DeepBroadcasts ==
    ASSUME NEW M, job \in Jobs, Canon(job, M), Core(M), Deep
    PROVE  BroadcastsMatch
<1>1. ASSUME NEW r \in Ranks \ {0}, inbox[r] # << >>
      PROVE  /\ proc[r].pc = "fetching" =>
                   /\ Head(inbox[r]).kind = "fetch"
                   /\ Head(inbox[r]).val = 0 \/ Head(inbox[r]).val \in DOMAIN locator[r].known
             /\ proc[r].pc = "barrier" => FALSE
             /\ proc[r].pc = "deployment" => Head(inbox[r]).kind = "deployment"
             /\ proc[r].pc = "value" /\ Here(r) \notin storage[r].dist =>
                   Head(inbox[r]).kind = "value" /\ Head(inbox[r]).val = Tensor(Here(r), 0)
  <2>1. /\ ControlOK(job, r, proc[r]) /\ ParamsOK(job, r, proc[r], locator[r], storage[r])
        /\ Path(job, M, inbox[r], Point(job, proc[r]), Point(job, proc[0]))
    BY DEF Core, RankOK, Deep
  <2>2. PICK b, msg : b = Point(job, proc[r]) /\ msg = Head(inbox[r]) /\ MsgOK(job, M, b, msg)
    BY <1>1, <2>1, PathTake
  <2>3. PICK n \in DOMAIN job.modules : n = proc[r].mod
    BY <2>1, PlaceOK
  <2>4. proc[r].pc = "fetching" =>
            msg.kind = "fetch" /\ (msg.val = 0 \/ msg.val \in DOMAIN locator[r].known)
    <3>1. SUFFICES ASSUME proc[r].pc = "fetching"
                   PROVE  msg.kind = "fetch" /\ (msg.val = 0 \/ msg.val \in DOMAIN locator[r].known)
      OBVIOUS
    <3>2. b = <<n, "fetch", 0>>
      BY <2>2, <2>3, <3>1 DEF Point
    <3>3. b[1] = n /\ b[2] = "fetch"
      BY <3>2
    <3>4. /\ msg.kind = "fetch"
          /\ \/ msg.val = 0
             \/ \E p \in ToSet(job.modules[n].params) \cap ToSet(job.stored) : msg.val = job.id[0][p]
      BY <2>2, <3>3, MsgKind
    <3>5. ASSUME NEW p \in ToSet(job.modules[n].params) \cap ToSet(job.stored)
          PROVE  job.id[0][p] \in DOMAIN locator[r].known
      <4>1. PICK c \in 1 .. Len(job.stored) : p = job.stored[c]
        BY ModulesFrom1 DEF ToSet
      <4>2. Asking(proc[r], n) /\ c \in 1 .. Count(job, proc[r])
        BY <2>3, <3>1 DEF Asking, Count
      <4> QED
        BY <2>1, <4>1, <4>2 DEF ParamsOK
    <3> QED
      BY <3>4, <3>5
  <2>5. proc[r].pc # "barrier"
    BY <1>1, NothingAtBarrier
  <2>6. proc[r].pc = "deployment" => msg.kind = "deployment"
    <3>1. SUFFICES ASSUME proc[r].pc = "deployment" PROVE msg.kind = "deployment"
      OBVIOUS
    <3>2. b = <<n, "deployment", 0>>
      BY <2>2, <2>3, <3>1 DEF Point
    <3>3. b[2] = "deployment"
      BY <3>2
    <3> QED
      BY <2>2, <3>3, MsgKind
  <2>7. proc[r].pc = "value" /\ Here(r) \notin storage[r].dist =>
            msg.kind = "value" /\ msg.val = Tensor(Here(r), 0)
    <3>1. SUFFICES ASSUME proc[r].pc = "value", Here(r) \notin storage[r].dist
                   PROVE  msg.kind = "value" /\ msg.val = Tensor(Here(r), 0)
      OBVIOUS
    <3>2. PICK i, p : /\ i \in Nat \ {0} /\ i = proc[r].at /\ p = job.modules[n].params[i]
                     /\ i <= Size(job, n) /\ UsersOf(job, n, i) # {}
      BY <2>1, <2>3, <3>1 DEF ControlOK
    <3>3. /\ Here(r) = p
          /\ p \in ToSet(job.stored) <=> p \in storage[r].dist
      BY <2>3, <3>1, <3>2, AtParam
    <3>4. Sends(job, n, i)
      BY <3>1, <3>2, <3>3 DEF Sends
    <3>5. b = ValuePoint(job, n, i)
      BY <2>2, <2>3, <3>1, <3>2 DEF Point
    <3>6. b = <<n, "value", i>>
      BY <3>2, <3>4, <3>5, ValuePointOK
    <3>7. b[1] = n /\ b[2] = "value" /\ b[3] = i
      BY <3>6
    <3>8. msg.kind = "value" /\ msg.val = Tensor(job.modules[b[1]].params[b[3]], 0)
      BY <2>2, <3>7, MsgKind, MsgAt
    <3> QED
      BY <3>2, <3>3, <3>7, <3>8
  <2> QED
    BY <2>2, <2>4, <2>5, <2>6, <2>7
<1> QED
  BY <1>1 DEF BroadcastsMatch

-----------------------------------------------------------------------------
\* While the job runs, what is said above; when it has been ended, what was whole stays so.
Inv2 ==
    /\ job \in Jobs
    /\ IF status = "running" THEN (\E M : Canon(job, M) /\ Core(M)) /\ Deep ELSE ParamsWhole

\* A step that ends the job changes no parameter.
LEMMA AbortKeepsParams ==
    ASSUME Step, status' # "running"
    PROVE  job' = job /\ proc' = proc /\ storage' = storage
<1>1. status = "running"
  BY StepRuns
<1>2. (\E r \in Ranks : FetchLoop(r) \/ Sync(r)) \/ MasterFails
  <2>1. CASE \E r \in Ranks : Local(r)
    <3>1. PICK r \in Ranks : Local(r)
      BY <2>1
    <3>2. FetchLoop(r) \/ Sync(r)
      BY <1>1, <3>1 DEF Local, Stored, RegisterParam, Registered, Trace, SyncDebugName,
         FindCommunicator, BcastDeployment, SkipParam, ParamTag, TakeDistributed,
         SyncParamOnInit, ParamsDone, SkipGrad, GradsDone, SyncAgain, Ready
    <3> QED
      BY <3>2
  <2>2. CASE Joint
    BY <1>1, <2>2 DEF Joint, Store, Load, Barrier, CreateCommunicator, ParamCommunicator,
       RegisterGrad
  <2>3. CASE Master
    BY <1>1, <2>3 DEF Master, Fetch, Decompose
  <2> QED
    BY <2>1, <2>2, <2>3 DEF Step
<1>3. CASE MasterFails
  BY <1>3 DEF MasterFails
<1>4. ASSUME NEW r \in Ranks, FetchLoop(r)
      PROVE  job' = job /\ proc' = proc /\ storage' = storage
  BY <1>1, <1>4 DEF FetchLoop
<1>5. ASSUME NEW r \in Ranks, Sync(r)
      PROVE  job' = job /\ proc' = proc /\ storage' = storage
  BY <1>1, <1>5 DEF Sync
<1> QED
  BY <1>2, <1>3, <1>4, <1>5

\* The invariant holds at the start.
LEMMA Inv2Init ==
    ASSUME Init
    PROVE  Inv2
<1>1. job \in Jobs
  BY DEF Init
<1>2. PICK M : Canon(job, M)
  BY <1>1, CanonExists
<1>3. Core(M) /\ Deep
  BY <1>2, InitCore, InitDeep
<1> QED
  BY <1>1, <1>2, <1>3 DEF Inv2, Init

\* Every step keeps the invariant.
LEMMA Inv2Next ==
    ASSUME JobsSeparate, Inv2, [Next]_vars
    PROVE  Inv2'
<1>1. CASE Step
  <2>1. status = "running" /\ job' = job
    BY <1>1, StepRuns
  <2>2. PICK M : Canon(job, M) /\ Core(M) /\ Deep /\ job \in Jobs
    BY <2>1 DEF Inv2
  <2>3. CASE status' = "running"
    <3>1. Core(M)' /\ Deep'
      BY <1>1, <2>2, <2>3, StepCore, StepDeep
    <3> QED
      BY <2>1, <2>2, <2>3, <3>1 DEF Inv2
  <2>4. CASE status' # "running"
    <3>1. ParamsWhole
      BY <2>2, DeepWhole
    <3>2. job' = job /\ proc' = proc /\ storage' = storage
      BY <1>1, <2>4, AbortKeepsParams
    <3>3. ParamsWhole'
      BY <3>1, <3>2 DEF ParamsWhole
    <3> QED
      BY <2>1, <2>2, <2>4, <3>3 DEF Inv2
  <2> QED
    BY <2>3, <2>4
<1>2. CASE UNCHANGED vars
  BY <1>2 DEF vars, Inv2, Core, Deep, Together, ParamsWhole
<1> QED
  BY <1>1, <1>2 DEF Next, Terminated

\* The invariant is strong enough.
LEMMA Inv2Properties ==
    ASSUME Inv2
    PROVE  ParamsWhole /\ BroadcastsMatch
<1>1. CASE status = "running"
  <2>1. PICK M : Canon(job, M) /\ Core(M) /\ Deep /\ job \in Jobs
    BY <1>1 DEF Inv2
  <2> QED
    BY <2>1, DeepWhole, DeepBroadcasts
<1>2. CASE status # "running"
  BY <1>2 DEF Inv2, BroadcastsMatch
<1> QED
  BY <1>1, <1>2

\* Where the modules share no parameter and all ranks use what is distributed, a
\* rank gets the broadcast it waits for, whatever rank 0 sends ahead: in the loop of
\* fetchStart a parameter it can find or the end, in syncParamOnInit rank 0's tensor.
THEOREM BroadcastsAlwaysMatch ==
    ASSUME JobsSeparate
    PROVE  Spec => []BroadcastsMatch
<1>1. Init => Inv2
  BY Inv2Init
<1>2. Inv2 /\ [Next]_vars => Inv2'
  BY Inv2Next
<1>3. Inv2 => BroadcastsMatch
  BY Inv2Properties
<1> QED
  BY <1>1, <1>2, <1>3, PTL DEF Spec

\* In such jobs a deployed parameter is whole on every rank that uses it, and the
\* same on all: what load gathers from the ranks' segments, or rank 0's tensor.
THEOREM ParamsAlwaysWhole ==
    ASSUME JobsSeparate
    PROVE  Spec => []ParamsWhole
<1>1. Init => Inv2
  BY Inv2Init
<1>2. Inv2 /\ [Next]_vars => Inv2'
  BY Inv2Next
<1>3. Inv2 => ParamsWhole
  BY Inv2Properties
<1> QED
  BY <1>1, <1>2, <1>3, PTL DEF Spec
=============================================================================
