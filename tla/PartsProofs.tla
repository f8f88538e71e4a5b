----------------------------- MODULE PartsProofs -----------------------------
(***************************************************************************)
(* What holds of the components that are used alone, for every instance.   *)
(* A behaviour of Parts is a behaviour of the part it has chosen, so that  *)
(* an invariant of that part's steps is one of Parts.                      *)
(***************************************************************************)
EXTENDS Parts, SequenceTheorems, FiniteSetTheorems, TLAPS

-----------------------------------------------------------------------------
(***************************************************************************)
(* The part that was chosen runs alone.                                    *)
(***************************************************************************)
LEMMA ParamAlone ==
  ASSUME [PartsNext]_partsVars, part = "param"
  PROVE  [Param!Next]_paramVars
BY DEF PartsNext, partsVars, dataVars, CameraPart, OrderedPart, SafePart, LogPart, DisplayPart,
       UdevPart, MousePart, ParamPart, ServerPart, DmaPart, MemoryPart, ConfigPart, DevicesPart,
       HttpPart, JpegPart, ContextPart

LEMMA MemoryAlone ==
  ASSUME [PartsNext]_partsVars, part = "memory"
  PROVE  [Memory!Next]_memoryVars
BY DEF PartsNext, partsVars, dataVars, CameraPart, OrderedPart, SafePart, LogPart, DisplayPart,
       UdevPart, MousePart, ParamPart, ServerPart, DmaPart, MemoryPart, ConfigPart, DevicesPart,
       HttpPart, JpegPart, ContextPart

\* No step changes the choice.
LEMMA PartStays ==
  ASSUME [PartsNext]_partsVars
  PROVE  part' = part
BY DEF PartsNext, partsVars, CameraPart, OrderedPart, SafePart, LogPart, DisplayPart,
       UdevPart, MousePart, ParamPart, ServerPart, DmaPart, MemoryPart, ConfigPart, DevicesPart,
       HttpPart, JpegPart, ContextPart

-----------------------------------------------------------------------------
(***************************************************************************)
(* The controls of a V4L2 device.  The device agrees with the list applied *)
(* last at every moment, inside a round as well, but for the strayed       *)
(* controls; and what a round has set so far is what its list says.        *)
(***************************************************************************)
ParamTypes ==
  /\ device \in [ParamControls -> {device[c] : c \in ParamControls}]
  /\ DOMAIN pendingControls_ \subseteq ParamControls
  /\ changed \subseteq ParamControls

ParamFollows ==
  \A c \in DOMAIN currentControls_ \ strayed : device[c] = Param!Clamp(currentControls_[c])

RoundFollows ==
  LET differing == Param!Diff(currentControls_, temp)
  IN /\ changed \subseteq differing
     /\ all_success => \A c \in differing \ changed : device[c] = Param!Clamp(temp[c])

ParamInv ==
  /\ ParamTypes
  /\ ParamFollows
  /\ paramLoop = "apply" => RoundFollows

LEMMA ParamInit == Param!Init => ParamInv
BY DEF Param!Init, ParamInv, ParamTypes, ParamFollows, RoundFollows, Param!NoControls

LEMMA ComparePreserves ==
  ASSUME ParamInv, NEW list, DOMAIN list \subseteq ParamControls, Param!Compare(list),
         paramLoop # "apply", UNCHANGED <<currentControls_, device, strayed>>
  PROVE  ParamInv'
<1>1. CASE list = currentControls_
  BY <1>1 DEF ParamInv, ParamTypes, ParamFollows, Param!Compare, Param!roundVars
<1>2. CASE list # currentControls_
  BY <1>2 DEF ParamInv, ParamTypes, ParamFollows, RoundFollows, Param!Compare, Param!Diff
<1> QED BY <1>1, <1>2

LEMMA ApplyPreserves ==
  ASSUME ParamInv, NEW c \in ParamControls, Param!Apply(c)
  PROVE  ParamInv'
<1>1. /\ paramLoop = "apply" /\ RoundFollows /\ c \in changed
      /\ paramLoop' = "apply" /\ temp' = temp /\ currentControls_' = currentControls_
      /\ changed' = changed \ {c} /\ strayed' = strayed \cup {c} /\ all_success' = all_success
      /\ pendingControls_' = pendingControls_
  BY DEF Param!Apply, ParamInv, Param!clientVars
<1>2. device' = [device EXCEPT ![c] = Param!Clamp(temp[c])]
  BY DEF Param!Apply
<1>3. device'[c] = Param!Clamp(temp[c]) /\ \A d \in ParamControls \ {c} : device'[d] = device[d]
  BY <1>2 DEF ParamInv, ParamTypes
<1>4. ParamTypes'
  BY <1>1, <1>2 DEF ParamInv, ParamTypes
<1>5. DOMAIN device = ParamControls
  BY DEF ParamInv, ParamTypes
<1>6. \A d : d # c => device'[d] = device[d]
  BY <1>2, <1>5
<1>7. ParamFollows' /\ RoundFollows'
  BY <1>1, <1>3, <1>6 DEF ParamInv, ParamFollows, RoundFollows, Param!Diff, Param!Clamp
<1> QED BY <1>4, <1>7 DEF ParamInv

LEMMA ParamStep ==
  ASSUME ParamInv, [Param!Next]_paramVars
  PROVE  ParamInv'
<1>1. CASE Param!SetTargetControls
  <2>1. DOMAIN pendingControls_' \subseteq ParamControls
    BY <1>1 DEF Param!SetTargetControls, Param!Lists
  <2> QED BY <1>1, <2>1 DEF Param!SetTargetControls, ParamInv, ParamTypes, ParamFollows, RoundFollows,
                            Param!roundVars
<1>2. CASE Param!LoopTop
  <2>1. PICK list : Param!Compare(list) /\ DOMAIN list \subseteq ParamControls
    <3>1. CASE pendingControls_ = Param!NoControls /\ currentControls_ = Param!NoControls
      <4>1. PICK list \in Param!QueryAll : Param!Compare(list)
        BY <1>2, <3>1 DEF Param!LoopTop
      <4> QED BY <4>1 DEF Param!QueryAll
    <3> QED BY <1>2, <3>1 DEF Param!LoopTop, ParamInv, ParamTypes
  <2> QED BY <1>2, <2>1, ComparePreserves DEF Param!LoopTop
<1>3. ASSUME NEW c \in ParamControls, Param!ApplyFails(c) PROVE ParamInv'
  BY <1>3 DEF Param!ApplyFails, ParamInv, ParamTypes, ParamFollows, RoundFollows, Param!clientVars
<1>4. CASE Param!Update
  <2>1. ParamTypes'
    BY <1>4 DEF Param!Update, ParamInv, ParamTypes, Param!clientVars, Param!roundVars
  <2>2. ParamFollows'
    BY <1>4 DEF Param!Update, ParamInv, ParamFollows, RoundFollows, Param!Diff
  <2> QED BY <1>4, <2>1, <2>2 DEF ParamInv, Param!Update
<1>5. CASE Param!Start \/ Param!StopFlag \/ Param!StopJoin \/ Param!LoopEnds \/ UNCHANGED paramVars
  BY <1>5 DEF Param!Start, Param!StopFlag, Param!StopJoin, Param!LoopEnds, paramVars, ParamInv, ParamTypes,
              ParamFollows, RoundFollows, Param!clientVars, Param!roundVars
<1> QED BY <1>1, <1>2, <1>3, <1>4, <1>5, ApplyPreserves DEF Param!Next

(* Whatever is asked for during a round and whichever calls the driver      *)
(* refuses, a resting loop has left the device with the values of the list, *)
(* cut to their range (paramProcessor.cpp: threadLoop).                     *)
THEOREM ControlsFollow == PartsSpec => []DeviceFollows
<1> DEFINE Inv == part = "param" => ParamInv
<1>1. PartsInit => Inv
  BY ParamInit DEF PartsInit
<1>2. Inv /\ [PartsNext]_partsVars => Inv'
  BY PartStays, ParamAlone, ParamStep
<1>3. Inv => DeviceFollows
  BY DEF ParamInv, ParamFollows, DeviceFollows, Param!DeviceFollows
<1> QED BY <1>1, <1>2, <1>3, PTL DEF PartsSpec

-----------------------------------------------------------------------------
(***************************************************************************)
(* The pools of blocks.  Every step takes a block from an end of a list,   *)
(* puts one there, cuts a list in two, or joins two lists; a page is a     *)
(* list that was not there before.                                         *)
(***************************************************************************)
Items(s) == {s[i] : i \in 1..Len(s)}
NoRepeat(s) == \A i, j \in 1..Len(s) : s[i] = s[j] => i = j

Once(f, used, total) ==
  /\ f \in [Memory!Places -> Seq(1..total)] /\ used \subseteq 1..total
  /\ \A x \in Memory!Places : NoRepeat(f[x]) /\ Items(f[x]) \cap used = {}
  /\ \A x, y \in Memory!Places : x # y => Items(f[x]) \cap Items(f[y]) = {}
  /\ \A b \in 1..total : b \in used \/ \E x \in Memory!Places : b \in Items(f[x])

LEMMA ItemsAreBlocks ==
  ASSUME NEW S, NEW s \in Seq(S)
  PROVE  Items(s) \subseteq S
BY DEF Items

\* Two lists and the blocks in use may be dealt out anew.
LEMMA DealtOnce ==
  ASSUME NEW f, NEW used, NEW total \in Nat, Once(f, used, total),
         NEW new \in Nat,
         NEW u \in Memory!Places, NEW v \in Memory!Places,
         NEW g, g = [y \in Memory!Places |-> g[y]],
         g[u] \in Seq(1..total + new), g[v] \in Seq(1..total + new),
         \A y \in Memory!Places \ {u, v} : g[y] = f[y],
         NEW used1 \in SUBSET (1..total + new),
         NoRepeat(g[u]), NoRepeat(g[v]), u # v => Items(g[u]) \cap Items(g[v]) = {},
         used1 \cap (Items(g[u]) \cup Items(g[v])) = {},
         Items(g[u]) \cup Items(g[v]) \cup used1
           = Items(f[u]) \cup Items(f[v]) \cup used \cup (total + 1)..(total + new)
  PROVE  Once(g, used1, total + new)
<1> DEFINE Dealt == Items(g[u]) \cup Items(g[v]) \cup used1
<1>1. \A y \in Memory!Places \ {u, v} : Items(g[y]) \cap Dealt = {}
  <2> SUFFICES ASSUME NEW y \in Memory!Places \ {u, v} PROVE Items(g[y]) \cap Dealt = {}
    OBVIOUS
  <2>1. Items(g[y]) = Items(f[y]) /\ f[y] \in Seq(1..total)
    BY DEF Once
  <2>2. Items(f[y]) \subseteq 1..total
    BY <2>1, ItemsAreBlocks
  <2>3. Items(f[y]) \cap ((total + 1)..(total + new)) = {}
    BY <2>2
  <2> QED BY <2>1, <2>3 DEF Once
<1>2. \A x \in Memory!Places : NoRepeat(g[x]) /\ Items(g[x]) \cap used1 = {}
  BY <1>1 DEF Once
<1>3. \A x, y \in Memory!Places : x # y => Items(g[x]) \cap Items(g[y]) = {}
  <2> SUFFICES ASSUME NEW x \in Memory!Places, NEW y \in Memory!Places, x # y
               PROVE  Items(g[x]) \cap Items(g[y]) = {}
    OBVIOUS
  <2>1. CASE x \in {u, v} /\ y \in {u, v}
    BY <2>1
  <2>2. CASE x \notin {u, v} /\ y \notin {u, v}
    BY <2>2 DEF Once
  <2>3. CASE x \in {u, v} /\ y \notin {u, v}
    BY <1>1, <2>3
  <2>4. CASE x \notin {u, v} /\ y \in {u, v}
    BY <1>1, <2>4
  <2> QED BY <2>1, <2>2, <2>3, <2>4
<1>4. \A b \in 1..total + new : b \in used1 \/ \E x \in Memory!Places : b \in Items(g[x])
  <2> SUFFICES ASSUME NEW b \in 1..total + new, b \notin Dealt
               PROVE  \E x \in Memory!Places : b \in Items(g[x])
    OBVIOUS
  <2>1. b \notin Items(f[u]) \cup Items(f[v]) \cup used /\ b \notin (total + 1)..(total + new)
    OBVIOUS
  <2>2. b \in 1..total
    BY <2>1
  <2>3. PICK x \in Memory!Places : b \in Items(f[x])
    BY <2>1, <2>2 DEF Once
  <2>4. x \notin {u, v}
    BY <2>1, <2>3
  <2> QED BY <2>3, <2>4
<1>5. \A y \in Memory!Places : g[y] \in Seq(1..total + new)
  <2>1. 1..total \subseteq 1..total + new
    OBVIOUS
  <2>2. ASSUME NEW y \in Memory!Places \ {u, v} PROVE g[y] \in Seq(1..total + new)
    <3>1. g[y] \in Seq(1..total)
      BY DEF Once
    <3> QED BY <2>1, <3>1, SeqMonotonic
  <2> QED BY <2>2
<1>6. g \in [Memory!Places -> Seq(1..total + new)]
  BY <1>5
<1> QED BY <1>2, <1>3, <1>4, <1>6 DEF Once

LEMMA DealtHere ==
  ASSUME NEW f, NEW used, NEW total \in Nat, Once(f, used, total),
         NEW u \in Memory!Places,
         NEW g, g = [y \in Memory!Places |-> g[y]], g[u] \in Seq(1..total),
         \A y \in Memory!Places \ {u} : g[y] = f[y],
         NEW used1 \in SUBSET (1..total),
         NoRepeat(g[u]), used1 \cap Items(g[u]) = {},
         Items(g[u]) \cup used1 = Items(f[u]) \cup used
  PROVE  Once(g, used1, total)
<1>1. total + 0 = total /\ (total + 1)..(total + 0) = {}
  OBVIOUS
<1>2. \A y \in Memory!Places \ {u, u} : g[y] = f[y]
  OBVIOUS
<1>3. /\ used1 \cap (Items(g[u]) \cup Items(g[u])) = {}
      /\ Items(g[u]) \cup Items(g[u]) \cup used1
           = Items(f[u]) \cup Items(f[u]) \cup used \cup (total + 1)..(total + 0)
  BY <1>1
<1>4. g[u] \in Seq(1..total + 0) /\ used1 \in SUBSET (1..total + 0)
  BY <1>1
<1>5. Once(g, used1, total + 0)
  BY <1>2, <1>3, <1>4, DealtOnce
<1> QED BY <1>1, <1>5

\* What the operators on sequences do with their items.
LEMMA LastTaken ==
  ASSUME NEW S, NEW s \in Seq(S), s # <<>>, NoRepeat(s)
  PROVE  /\ Memory!Front(s) \in Seq(S) /\ NoRepeat(Memory!Front(s)) /\ Memory!Last(s) \in S
         /\ Memory!Last(s) \notin Items(Memory!Front(s))
         /\ Items(s) = Items(Memory!Front(s)) \cup {Memory!Last(s)}
<1> DEFINE n == Len(s)
<1>1. n \in Nat \ {0} /\ Memory!Last(s) = s[n] /\ s[n] \in S
  BY DEF Memory!Last
<1>2. /\ Memory!Front(s) \in Seq(S) /\ Len(Memory!Front(s)) = n - 1
      /\ \A i \in 1..n - 1 : Memory!Front(s)[i] = s[i]
  <2>1. \A i \in 1..n - 1 : s[i] \in S
    BY <1>1
  <2>2. Memory!Front(s) = SubSeq(s, 1, n - 1) /\ 1 \in Int /\ n - 1 \in Int
    BY <1>1 DEF Memory!Front
  <2>3. /\ SubSeq(s, 1, n - 1) \in Seq(S) /\ Len(SubSeq(s, 1, n - 1)) = IF 1 <= n - 1 THEN n - 1 - 1 + 1 ELSE 0
        /\ \A i \in 1..n - 1 - 1 + 1 : SubSeq(s, 1, n - 1)[i] = s[1 + i - 1]
    BY <2>1, <2>2, SubSeqProperties
  <2> HIDE DEF n
  <2> QED BY <1>1, <2>2, <2>3
<1>3. NoRepeat(Memory!Front(s)) /\ s[n] \notin Items(Memory!Front(s))
  BY <1>1, <1>2 DEF NoRepeat, Items
<1>4. Items(s) = Items(Memory!Front(s)) \cup {s[n]}
  BY <1>1, <1>2 DEF Items
<1> QED BY <1>1, <1>2, <1>3, <1>4

LEMMA ItemAppended ==
  ASSUME NEW S, NEW s \in Seq(S), NoRepeat(s), NEW b \in S, b \notin Items(s)
  PROVE  /\ Append(s, b) \in Seq(S) /\ NoRepeat(Append(s, b))
         /\ Items(Append(s, b)) = Items(s) \cup {b}
<1>1. /\ Append(s, b) \in Seq(S) /\ Len(Append(s, b)) = Len(s) + 1 /\ Len(s) \in Nat
      /\ Append(s, b)[Len(s) + 1] = b
      /\ \A i \in 1..Len(s) : Append(s, b)[i] = s[i]
  OBVIOUS
<1>2. NoRepeat(Append(s, b))
  BY <1>1 DEF NoRepeat, Items
<1>3. Items(Append(s, b)) = Items(s) \cup {b}
  BY <1>1 DEF Items
<1> QED BY <1>1, <1>2, <1>3

LEMMA ListCut ==
  ASSUME NEW S, NEW s \in Seq(S), NoRepeat(s), NEW k \in 0..Len(s)
  PROVE  /\ SubSeq(s, 1, k) \in Seq(S) /\ NoRepeat(SubSeq(s, 1, k)) /\ Len(SubSeq(s, 1, k)) = k
         /\ SubSeq(s, k + 1, Len(s)) \in Seq(S) /\ NoRepeat(SubSeq(s, k + 1, Len(s)))
         /\ Items(SubSeq(s, 1, k)) \cap Items(SubSeq(s, k + 1, Len(s))) = {}
         /\ Items(s) = Items(SubSeq(s, 1, k)) \cup Items(SubSeq(s, k + 1, Len(s)))
<1> DEFINE n == Len(s)
           p == SubSeq(s, 1, k)
           q == SubSeq(s, k + 1, Len(s))
<1>1. n \in Nat /\ \A i \in 1..n : s[i] \in S
  OBVIOUS
<1>2. p \in Seq(S) /\ Len(p) = k /\ \A i \in 1..k : p[i] = s[i]
  BY <1>1, SubSeqProperties
<1>3. q \in Seq(S) /\ Len(q) = n - k /\ \A i \in 1..n - k : q[i] = s[k + i]
  BY <1>1, SubSeqProperties
<1> HIDE DEF p, q
<1>4. NoRepeat(p)
  BY <1>1, <1>2 DEF NoRepeat
<1>5. NoRepeat(q)
  BY <1>1, <1>3 DEF NoRepeat
<1>6. Items(p) = {s[i] : i \in 1..k}
  BY <1>1, <1>2 DEF Items
<1>7. Items(q) = {s[i] : i \in (k + 1)..n}
  <2>1. \A i \in (k + 1)..n : i - k \in 1..Len(q) /\ q[i - k] = s[i]
    BY <1>1, <1>3
  <2>2. \A i \in 1..Len(q) : k + i \in (k + 1)..n /\ q[i] = s[k + i]
    BY <1>1, <1>3
  <2>3. Items(q) \subseteq {s[i] : i \in (k + 1)..n}
    BY <2>2 DEF Items
  <2>4. {s[i] : i \in (k + 1)..n} \subseteq Items(q)
    BY <2>1 DEF Items
  <2> QED BY <2>3, <2>4
<1>8. Items(p) \cap Items(q) = {}
  BY <1>1, <1>6, <1>7 DEF NoRepeat
<1>9. 1..n = 1..k \cup (k + 1)..n
  BY <1>1
<1>10. Items(s) = Items(p) \cup Items(q)
  BY <1>6, <1>7, <1>9 DEF Items
<1> QED BY <1>2, <1>3, <1>4, <1>5, <1>8, <1>10 DEF p, q

LEMMA ListsJoined ==
  ASSUME NEW S, NEW s \in Seq(S), NEW t \in Seq(S), NoRepeat(s), NoRepeat(t), Items(s) \cap Items(t) = {}
  PROVE  s \o t \in Seq(S) /\ NoRepeat(s \o t) /\ Items(s \o t) = Items(s) \cup Items(t)
<1> DEFINE m == Len(s)
           n == Len(t)
           w == s \o t
<1>1. /\ w \in Seq(S) /\ Len(w) = m + n /\ m \in Nat /\ n \in Nat
      /\ \A i \in 1..m + n : w[i] = IF i <= m THEN s[i] ELSE t[i - m]
  BY ConcatProperties
<1> HIDE DEF w
<1>2. \A i \in 1..m + n : IF i <= m THEN i \in 1..m /\ w[i] = s[i] /\ w[i] \in Items(s)
                          ELSE i - m \in 1..n /\ w[i] = t[i - m] /\ w[i] \in Items(t)
  BY <1>1 DEF Items
<1>3. NoRepeat(w)
  <2> SUFFICES ASSUME NEW i \in 1..m + n, NEW j \in 1..m + n, w[i] = w[j] PROVE i = j
    BY <1>1 DEF NoRepeat
  <2>1. CASE i <= m /\ j <= m
    BY <1>2, <2>1 DEF NoRepeat
  <2>2. CASE i > m /\ j > m
    <3>1. i - m \in 1..n /\ j - m \in 1..n /\ t[i - m] = t[j - m]
      BY <1>1, <1>2, <2>2
    <3>2. i - m = j - m
      BY <3>1 DEF NoRepeat
    <3>3. i \in Int /\ j \in Int /\ m \in Int
      BY <1>1
    <3> QED BY <3>2, <3>3
  <2>3. ~(i <= m /\ j > m) /\ ~(i > m /\ j <= m)
    BY <1>1, <1>2
  <2> QED BY <1>1, <2>1, <2>2, <2>3
<1>4. \A i \in 1..m : w[i] = s[i] /\ i \in 1..Len(w)
  BY <1>1
<1>5. \A i \in 1..n : w[m + i] = t[i] /\ m + i \in 1..Len(w)
  BY <1>1
<1>6. Items(s) \subseteq Items(w) /\ Items(t) \subseteq Items(w)
  BY <1>4, <1>5 DEF Items
<1>7. Items(w) \subseteq Items(s) \cup Items(t)
  BY <1>1, <1>2 DEF Items
<1> QED BY <1>1, <1>3, <1>6, <1>7 DEF w

LEMMA PageCounts ==
  ASSUME NEW k \in Nat, NEW size \in Nat
  PROVE  LET page == [i \in 1..size |-> k * size + i]
         IN /\ page \in Seq(1..k * size + size) /\ Len(page) = size /\ NoRepeat(page)
            /\ Items(page) = (k * size + 1)..(k * size + size)
<1> DEFINE a == k * size
           page == [i \in 1..size |-> a + i]
<1>1. a \in Nat
  OBVIOUS
<1> HIDE DEF a
<1>2. page \in Seq(1..a + size) /\ Len(page) = size /\ \A i \in 1..size : page[i] = a + i
  BY <1>1, IsASeq
<1> HIDE DEF page
<1>3. NoRepeat(page)
  BY <1>1, <1>2 DEF NoRepeat
<1>4. \A b \in (a + 1)..(a + size) : b - a \in 1..size /\ b = page[b - a]
  BY <1>1, <1>2
<1>5. Items(page) = (a + 1)..(a + size)
  BY <1>1, <1>2, <1>4 DEF Items
<1> QED BY <1>2, <1>3, <1>5 DEF page, a

MemoryTypes ==
  /\ pages \in Nat
  /\ freelist = [p \in Pools |-> freelist[p]] /\ cache = [t \in PoolThreads |-> cache[t]]
  /\ putting = [t \in PoolThreads |-> putting[t]] /\ owner \in [PoolThreads -> Pools \cup {Nil}]
  /\ \A t \in PoolThreads :
       /\ putting[t] = Memory!Nothing \/ putting[t].pool \in Pools
       /\ cache[t] # <<>> => owner[t] \in Pools
       /\ putting[t].done => cache[t] = <<>>

MemoryInv == MemoryTypes /\ Once(Memory!Lists, out, pages * PageBlocks)

Free(p) == <<"free", p>>
Cached(t) == <<"cached", t>>
Moving(t) == <<"moving", t>>

LEMMA PlacesAre ==
  /\ \A p \in Pools : Free(p) \in Memory!Places
  /\ \A t \in PoolThreads : Cached(t) \in Memory!Places /\ Moving(t) \in Memory!Places /\ Cached(t) # Moving(t)
  /\ \A p \in Pools, t \in PoolThreads : Free(p) # Cached(t) /\ Free(p) # Moving(t)
  /\ \A x \in Memory!Places : \/ \E p \in Pools : x = Free(p)
                              \/ \E t \in PoolThreads : x = Cached(t) \/ x = Moving(t)
BY DEF Memory!Places, Free, Cached, Moving

LEMMA ListsAre ==
  /\ Memory!Lists = [x \in Memory!Places |-> Memory!Lists[x]]
  /\ \A p \in Pools : Memory!Lists[Free(p)] = freelist[p]
  /\ \A t \in PoolThreads : Memory!Lists[Cached(t)] = cache[t] /\ Memory!Lists[Moving(t)] = putting[t].list
<1>1. Memory!Lists = [x \in Memory!Places |-> Memory!Lists[x]]
  BY DEF Memory!Lists
<1>2. \A p \in Pools : Memory!Lists[Free(p)] = freelist[p]
  BY PlacesAre DEF Memory!Lists, Free
<1>3. \A t \in PoolThreads : Memory!Lists[Cached(t)] = cache[t] /\ Memory!Lists[Moving(t)] = putting[t].list
  BY PlacesAre DEF Memory!Lists, Cached, Moving
<1> QED BY <1>1, <1>2, <1>3

LEMMA ListsAreNext ==
  /\ Memory!Lists' = [x \in Memory!Places |-> Memory!Lists'[x]]
  /\ \A p \in Pools : Memory!Lists'[Free(p)] = freelist'[p]
  /\ \A t \in PoolThreads : Memory!Lists'[Cached(t)] = cache'[t] /\ Memory!Lists'[Moving(t)] = putting'[t].list
<1>1. Memory!Lists' = [x \in Memory!Places |-> Memory!Lists'[x]]
  BY DEF Memory!Lists
<1>2. \A p \in Pools : Memory!Lists'[Free(p)] = freelist'[p]
  BY PlacesAre DEF Memory!Lists, Free
<1>3. \A t \in PoolThreads : Memory!Lists'[Cached(t)] = cache'[t] /\ Memory!Lists'[Moving(t)] = putting'[t].list
  BY PlacesAre DEF Memory!Lists, Cached, Moving
<1> QED BY <1>1, <1>2, <1>3

\* What Once says of the lists, under the names of the code.
LEMMA ListsOfOnce ==
  ASSUME MemoryInv
  PROVE  /\ pages * PageBlocks \in Nat /\ out \subseteq 1..pages * PageBlocks
         /\ \A p \in Pools : /\ freelist[p] \in Seq(1..pages * PageBlocks) /\ NoRepeat(freelist[p])
                             /\ Items(freelist[p]) \cap out = {}
         /\ \A t \in PoolThreads :
              /\ cache[t] \in Seq(1..pages * PageBlocks) /\ NoRepeat(cache[t]) /\ Items(cache[t]) \cap out = {}
              /\ putting[t].list \in Seq(1..pages * PageBlocks) /\ NoRepeat(putting[t].list)
              /\ Items(putting[t].list) \cap out = {}
              /\ Items(cache[t]) \cap Items(putting[t].list) = {}
         /\ \A p \in Pools, t \in PoolThreads :
              Items(freelist[p]) \cap (Items(cache[t]) \cup Items(putting[t].list)) = {}
<1>1. pages * PageBlocks \in Nat
  BY PoolsAssumption DEF MemoryInv, MemoryTypes
<1>2. out \subseteq 1..pages * PageBlocks
  BY DEF MemoryInv, Once
<1>3. \A x \in Memory!Places : /\ Memory!Lists[x] \in Seq(1..pages * PageBlocks) /\ NoRepeat(Memory!Lists[x])
                               /\ Items(Memory!Lists[x]) \cap out = {}
  BY DEF MemoryInv, Once
<1>4. \A x, y \in Memory!Places : x # y => Items(Memory!Lists[x]) \cap Items(Memory!Lists[y]) = {}
  BY DEF MemoryInv, Once
<1>5. \A p \in Pools : /\ freelist[p] \in Seq(1..pages * PageBlocks) /\ NoRepeat(freelist[p])
                       /\ Items(freelist[p]) \cap out = {}
  BY <1>3, PlacesAre, ListsAre
<1>6. \A t \in PoolThreads :
              /\ cache[t] \in Seq(1..pages * PageBlocks) /\ NoRepeat(cache[t]) /\ Items(cache[t]) \cap out = {}
              /\ putting[t].list \in Seq(1..pages * PageBlocks) /\ NoRepeat(putting[t].list)
              /\ Items(putting[t].list) \cap out = {}
  BY <1>3, PlacesAre, ListsAre
<1>7. \A t \in PoolThreads : Items(cache[t]) \cap Items(putting[t].list) = {}
  BY <1>4, PlacesAre, ListsAre
<1>8. \A p \in Pools, t \in PoolThreads :
        Items(freelist[p]) \cap (Items(cache[t]) \cup Items(putting[t].list)) = {}
  BY <1>4, PlacesAre, ListsAre
<1> QED BY <1>1, <1>2, <1>5, <1>6, <1>7, <1>8

LEMMA NothingHasNothing ==
  Memory!Nothing.list = <<>> /\ Memory!Nothing.done = FALSE /\ Items(<<>>) = {} /\ NoRepeat(<<>>)
BY DEF Memory!Nothing, Items, NoRepeat

LEMMA MemoryInit == Memory!Init => MemoryInv
<1> SUFFICES ASSUME Memory!Init PROVE MemoryInv
  OBVIOUS
<1>1. MemoryTypes
  BY NothingHasNothing DEF Memory!Init, MemoryTypes
<1>2. \A x \in Memory!Places : Memory!Lists[x] = <<>>
  BY PlacesAre, ListsAre, NothingHasNothing DEF Memory!Init
<1>3. \A x \in Memory!Places : Memory!Lists[x] \in Seq(1..pages * PageBlocks)
  BY <1>2, EmptySeq
<1>4. Memory!Lists \in [Memory!Places -> Seq(1..pages * PageBlocks)]
  BY <1>3, ListsAre, Zenon
<1>5. pages * PageBlocks = 0 /\ out = {}
  BY PoolsAssumption DEF Memory!Init
<1> QED BY <1>1, <1>2, <1>4, <1>5, NothingHasNothing DEF MemoryInv, Once

\* Lists that no step has changed.
LEMMA OtherLists ==
  ASSUME NEW D, \A p \in Pools : Free(p) \notin D => freelist'[p] = freelist[p],
         \A t \in PoolThreads : Cached(t) \notin D => cache'[t] = cache[t],
         \A t \in PoolThreads : Moving(t) \notin D => putting'[t].list = putting[t].list
  PROVE  \A y \in Memory!Places \ D : Memory!Lists'[y] = Memory!Lists[y]
<1> SUFFICES ASSUME NEW y \in Memory!Places \ D PROVE Memory!Lists'[y] = Memory!Lists[y]
  OBVIOUS
<1>1. ASSUME NEW p \in Pools, y = Free(p) PROVE Memory!Lists'[y] = Memory!Lists[y]
  BY <1>1, ListsAre, ListsAreNext
<1>2. ASSUME NEW t \in PoolThreads, y = Cached(t) PROVE Memory!Lists'[y] = Memory!Lists[y]
  BY <1>2, ListsAre, ListsAreNext
<1>3. ASSUME NEW t \in PoolThreads, y = Moving(t) PROVE Memory!Lists'[y] = Memory!Lists[y]
  BY <1>3, ListsAre, ListsAreNext
<1> QED BY <1>1, <1>2, <1>3, PlacesAre

LEMMA AllocateKeeps ==
  ASSUME MemoryInv, NEW t \in PoolThreads, NEW p \in Pools, Memory!Allocate(t, p)
  PROVE  MemoryInv'
<1> DEFINE total == pages * PageBlocks
           g == Memory!Lists'
<1>1. MemoryTypes'
  BY DEF Memory!Allocate, Memory!Owned, MemoryInv, MemoryTypes
<1>2. /\ cache'[t] = Memory!Front(cache[t]) /\ out' = out \cup {Memory!Last(cache[t])} /\ cache[t] # <<>>
      /\ \A u \in PoolThreads \ {t} : cache'[u] = cache[u]
      /\ freelist' = freelist /\ putting' = putting /\ pages' = pages
  BY DEF Memory!Allocate, MemoryInv, MemoryTypes
<1>3. \A y \in Memory!Places \ {Cached(t)} : g[y] = Memory!Lists[y]
  BY <1>2, OtherLists
<1>4. /\ Memory!Front(cache[t]) \in Seq(1..total) /\ NoRepeat(Memory!Front(cache[t]))
      /\ Memory!Last(cache[t]) \in 1..total /\ Memory!Last(cache[t]) \notin Items(Memory!Front(cache[t]))
      /\ Items(cache[t]) = Items(Memory!Front(cache[t])) \cup {Memory!Last(cache[t])}
  BY <1>2, ListsOfOnce, LastTaken
<1>5. total \in Nat /\ out \subseteq 1..total /\ Items(cache[t]) \cap out = {} /\ Once(Memory!Lists, out, total)
  BY ListsOfOnce DEF MemoryInv
<1>6. /\ Memory!Lists[Cached(t)] = cache[t] /\ g[Cached(t)] = Memory!Front(cache[t])
      /\ Cached(t) \in Memory!Places /\ g = [x \in Memory!Places |-> g[x]]
  BY <1>2, ListsAre, ListsAreNext, PlacesAre
<1> HIDE DEF total, g
<1>7. /\ out' \in SUBSET (1..total) /\ out' \cap Items(g[Cached(t)]) = {}
      /\ Items(g[Cached(t)]) \cup out' = Items(Memory!Lists[Cached(t)]) \cup out
      /\ g[Cached(t)] \in Seq(1..total) /\ NoRepeat(g[Cached(t)])
  BY <1>2, <1>4, <1>5, <1>6
<1>8. Once(g, out', total)
  BY <1>3, <1>5, <1>6, <1>7, DealtHere
<1> QED BY <1>1, <1>2, <1>8 DEF MemoryInv, total, g

LEMMA DeallocateKeeps ==
  ASSUME MemoryInv, NEW t \in PoolThreads, NEW p \in Pools, NEW b \in out, Memory!Deallocate(t, p, b)
  PROVE  MemoryInv'
<1> DEFINE total == pages * PageBlocks
           g == Memory!Lists'
<1>1. /\ cache' = [cache EXCEPT ![t] = Append(cache[t], b)] /\ out' = out \ {b} /\ putting[t] = Memory!Nothing
      /\ cache'[t] = Append(cache[t], b) /\ \A u \in PoolThreads \ {t} : cache'[u] = cache[u]
      /\ freelist' = freelist /\ putting' = putting /\ pages' = pages
  BY DEF Memory!Deallocate, Memory!Idle, MemoryInv, MemoryTypes
<1>2. owner' \in [PoolThreads -> Pools \cup {Nil}] /\ owner'[t] \in Pools
      /\ \A u \in PoolThreads \ {t} : owner'[u] = owner[u]
  BY DEF Memory!Deallocate, Memory!Owned, MemoryInv, MemoryTypes
<1>3. MemoryTypes'
  BY <1>1, <1>2, NothingHasNothing DEF MemoryInv, MemoryTypes
<1>4. \A y \in Memory!Places \ {Cached(t)} : g[y] = Memory!Lists[y]
  BY <1>1, OtherLists
<1>5. /\ total \in Nat /\ out \subseteq 1..total /\ Items(cache[t]) \cap out = {} /\ Once(Memory!Lists, out, total)
      /\ cache[t] \in Seq(1..total) /\ NoRepeat(cache[t])
  BY ListsOfOnce DEF MemoryInv
<1> HIDE DEF total
<1>6. /\ Append(cache[t], b) \in Seq(1..total) /\ NoRepeat(Append(cache[t], b))
      /\ Items(Append(cache[t], b)) = Items(cache[t]) \cup {b}
  <2>1. b \in 1..total /\ b \notin Items(cache[t])
    BY <1>5
  <2> QED BY <1>5, <2>1, ItemAppended
<1>7. /\ Memory!Lists[Cached(t)] = cache[t] /\ g[Cached(t)] = Append(cache[t], b)
      /\ Cached(t) \in Memory!Places /\ g = [x \in Memory!Places |-> g[x]]
  BY <1>1, ListsAre, ListsAreNext, PlacesAre
<1> HIDE DEF g
<1>8. /\ out' \in SUBSET (1..total) /\ out' \cap Items(g[Cached(t)]) = {}
      /\ Items(g[Cached(t)]) \cup out' = Items(Memory!Lists[Cached(t)]) \cup out
      /\ g[Cached(t)] \in Seq(1..total) /\ NoRepeat(g[Cached(t)])
  BY <1>1, <1>5, <1>6, <1>7
<1>9. Once(g, out', total)
  BY <1>4, <1>5, <1>7, <1>8, DealtHere
<1> QED BY <1>1, <1>3, <1>9 DEF MemoryInv, total, g

\* What is taken from the free list, or from a page, is cut off, and its last
\* block is handed out.
LEMMA RefillKeeps ==
  ASSUME MemoryInv, NEW t \in PoolThreads, NEW p \in Pools, Memory!Refill(t, p)
  PROVE  MemoryInv'
<1> DEFINE total == pages * PageBlocks
           new == IF freelist[p] = <<>> THEN PageBlocks ELSE 0
           list == IF freelist[p] = <<>> THEN Memory!Page(pages + 1) ELSE freelist[p]
           k == IF Batch < Len(list) THEN Batch ELSE Len(list)
           handful == SubSeq(list, 1, k)
           others == SubSeq(list, k + 1, Len(list))
           g == Memory!Lists'
<1>1. /\ total \in Nat /\ out \subseteq 1..total /\ Once(Memory!Lists, out, total)
      /\ freelist[p] \in Seq(1..total) /\ NoRepeat(freelist[p]) /\ Items(freelist[p]) \cap out = {}
  BY ListsOfOnce DEF MemoryInv
<1>2. /\ list \in Seq(1..total + new) /\ NoRepeat(list) /\ list # <<>>
      /\ Items(list) = Items(freelist[p]) \cup (total + 1)..(total + new)
      /\ new \in Nat /\ pages' * PageBlocks = total + new
  <2>1. CASE freelist[p] = <<>>
    <3>1. /\ pages' = pages + 1 /\ pages \in Nat /\ PageBlocks \in Nat \ {0}
          /\ pages' * PageBlocks = pages * PageBlocks + PageBlocks
      BY <2>1, PoolsAssumption DEF Memory!Refill, MemoryInv, MemoryTypes
    <3>2. Memory!Page(pages + 1) = [i \in 1..PageBlocks |-> pages * PageBlocks + i]
      BY <3>1 DEF Memory!Page
    <3>3. /\ Memory!Page(pages + 1) \in Seq(1..total + PageBlocks) /\ NoRepeat(Memory!Page(pages + 1))
          /\ Len(Memory!Page(pages + 1)) = PageBlocks
          /\ Items(Memory!Page(pages + 1)) = (total + 1)..(total + PageBlocks)
      BY <3>1, <3>2, PageCounts
    <3>4. Memory!Page(pages + 1) # <<>>
      BY <3>1, <3>3
    <3> QED BY <2>1, <3>1, <3>3, <3>4, NothingHasNothing
  <2>2. CASE freelist[p] # <<>>
    <3>1. pages' = pages
      BY <2>2 DEF Memory!Refill
    <3>2. (total + 1)..(total + 0) = {} /\ total + 0 = total
      BY <1>1
    <3> QED BY <1>1, <2>2, <3>1, <3>2
  <2> QED BY <2>1, <2>2
<1>3. /\ cache[t] = <<>> /\ putting[t] = Memory!Nothing /\ putting' = putting /\ pages' \in Nat
      /\ freelist' = [freelist EXCEPT ![p] = SubSeq(list, Len(handful) + 1, Len(list))]
      /\ out' = out \cup {Memory!Last(handful)} /\ cache' = [cache EXCEPT ![t] = Memory!Front(handful)]
  BY DEF Memory!Refill, Memory!FirstOf, Memory!Idle, MemoryInv, MemoryTypes
<1>4. owner' \in [PoolThreads -> Pools \cup {Nil}] /\ owner'[t] \in Pools
      /\ \A u \in PoolThreads \ {t} : owner'[u] = owner[u]
  BY DEF Memory!Refill, Memory!Owned, MemoryInv, MemoryTypes
<1>5. MemoryTypes'
  BY <1>3, <1>4, NothingHasNothing DEF MemoryInv, MemoryTypes
<1> HIDE DEF total, new, list
<1>6. k \in 1..Len(list)
  BY <1>2, PoolsAssumption
<1> HIDE DEF k
<1>7. /\ handful \in Seq(1..total + new) /\ NoRepeat(handful) /\ Len(handful) = k
      /\ others \in Seq(1..total + new) /\ NoRepeat(others)
      /\ Items(handful) \cap Items(others) = {} /\ Items(list) = Items(handful) \cup Items(others)
  <2>1. k \in 0..Len(list)
    BY <1>2, <1>6
  <2> QED BY <1>2, <1>6, <2>1, ListCut
<1>8. /\ freelist'[p] = others /\ \A q \in Pools \ {p} : freelist'[q] = freelist[q]
      /\ cache'[t] = Memory!Front(handful) /\ \A u \in PoolThreads \ {t} : cache'[u] = cache[u]
  BY <1>3, <1>7 DEF MemoryInv, MemoryTypes
<1>9. handful # <<>>
  BY <1>6, <1>7
<1> HIDE DEF handful, others
<1>10. /\ Memory!Front(handful) \in Seq(1..total + new) /\ NoRepeat(Memory!Front(handful))
       /\ Memory!Last(handful) \in 1..total + new /\ Memory!Last(handful) \notin Items(Memory!Front(handful))
       /\ Items(handful) = Items(Memory!Front(handful)) \cup {Memory!Last(handful)}
  BY <1>7, <1>9, LastTaken
<1>11. \A y \in Memory!Places \ {Free(p), Cached(t)} : g[y] = Memory!Lists[y]
  <2>1. /\ \A q \in Pools : Free(q) \notin {Free(p), Cached(t)} => freelist'[q] = freelist[q]
        /\ \A u \in PoolThreads : Cached(u) \notin {Free(p), Cached(t)} => cache'[u] = cache[u]
        /\ \A u \in PoolThreads : Moving(u) \notin {Free(p), Cached(t)} => putting'[u].list = putting[u].list
    BY <1>3, <1>8
  <2> QED BY <2>1, OtherLists
<1>12. /\ Memory!Lists[Cached(t)] = <<>> /\ g[Cached(t)] = Memory!Front(handful)
       /\ Memory!Lists[Free(p)] = freelist[p] /\ g[Free(p)] = others
       /\ Cached(t) \in Memory!Places /\ Free(p) \in Memory!Places /\ g = [x \in Memory!Places |-> g[x]]
  BY <1>3, <1>8, ListsAre, ListsAreNext, PlacesAre
<1> HIDE DEF g
<1>13. /\ out' \in SUBSET (1..total + new)
       /\ Items(g[Free(p)]) \cap Items(g[Cached(t)]) = {}
       /\ out' \cap (Items(g[Free(p)]) \cup Items(g[Cached(t)])) = {}
  <2>1. 1..total \subseteq 1..total + new /\ 1..total \cap (total + 1)..(total + new) = {}
    BY <1>1, <1>2
  <2>2. out \cap Items(list) = {}
    BY <1>1, <1>2, <2>1
  <2> QED BY <1>1, <1>3, <1>7, <1>10, <1>12, <2>1, <2>2
<1>14. Items(g[Free(p)]) \cup Items(g[Cached(t)]) \cup out'
         = Items(Memory!Lists[Free(p)]) \cup Items(Memory!Lists[Cached(t)]) \cup out \cup (total + 1)..(total + new)
  BY <1>2, <1>3, <1>7, <1>10, <1>12, NothingHasNothing
<1>15. /\ g[Free(p)] \in Seq(1..total + new) /\ NoRepeat(g[Free(p)])
       /\ g[Cached(t)] \in Seq(1..total + new) /\ NoRepeat(g[Cached(t)])
  BY <1>7, <1>10, <1>12
<1>16. Once(g, out', total + new)
  BY <1>1, <1>2, <1>11, <1>12, <1>13, <1>14, <1>15, DealtOnce
<1> QED BY <1>2, <1>5, <1>16 DEF MemoryInv, g

\* The blocks on top of a cache go over into the thread's hand.
LEMMA UnloadKeeps ==
  ASSUME MemoryInv, NEW t \in PoolThreads, NEW p \in Pools, NEW n \in 0..Len(cache[t]), NEW done,
         Memory!Unload(t, p, n, done), putting[t] = Memory!Nothing,
         UNCHANGED <<freelist, out, pages>>
  PROVE  Once(Memory!Lists', out', pages' * PageBlocks)
<1> DEFINE total == pages * PageBlocks
           kept == Len(cache[t]) - n
           below == SubSeq(cache[t], 1, kept)
           top == SubSeq(cache[t], kept + 1, Len(cache[t]))
           g == Memory!Lists'
<1>1. /\ total \in Nat /\ out \subseteq 1..total /\ Once(Memory!Lists, out, total)
      /\ cache[t] \in Seq(1..total) /\ NoRepeat(cache[t]) /\ Items(cache[t]) \cap out = {}
  BY ListsOfOnce DEF MemoryInv
<1>2. kept \in 0..Len(cache[t])
  BY <1>1
<1>3. /\ putting' = [putting EXCEPT ![t] = [pool |-> p, list |-> top, done |-> done]]
      /\ cache' = [cache EXCEPT ![t] = SubSeq(cache[t], 1, IF kept < Len(cache[t]) THEN kept ELSE Len(cache[t]))]
  BY DEF Memory!Unload, Memory!FirstOf
<1>4. /\ putting'[t].list = top /\ \A u \in PoolThreads \ {t} : putting'[u] = putting[u]
      /\ cache'[t] = below /\ \A u \in PoolThreads \ {t} : cache'[u] = cache[u]
  <2>1. (IF kept < Len(cache[t]) THEN kept ELSE Len(cache[t])) = kept
    BY <1>1, <1>2
  <2> QED BY <1>3, <2>1 DEF MemoryInv, MemoryTypes
<1> HIDE DEF total, kept
<1>5. /\ below \in Seq(1..total) /\ NoRepeat(below) /\ top \in Seq(1..total) /\ NoRepeat(top)
      /\ Items(below) \cap Items(top) = {} /\ Items(cache[t]) = Items(below) \cup Items(top)
  BY <1>1, <1>2, ListCut
<1> HIDE DEF below, top
<1>6. \A y \in Memory!Places \ {Cached(t), Moving(t)} : g[y] = Memory!Lists[y]
  <2>1. /\ \A q \in Pools : Free(q) \notin {Cached(t), Moving(t)} => freelist'[q] = freelist[q]
        /\ \A u \in PoolThreads : Cached(u) \notin {Cached(t), Moving(t)} => cache'[u] = cache[u]
        /\ \A u \in PoolThreads : Moving(u) \notin {Cached(t), Moving(t)} => putting'[u].list = putting[u].list
    BY <1>4
  <2> QED BY <2>1, OtherLists
<1>7. /\ Memory!Lists[Cached(t)] = cache[t] /\ g[Cached(t)] = below
      /\ Memory!Lists[Moving(t)] = <<>> /\ g[Moving(t)] = top
      /\ Cached(t) \in Memory!Places /\ Moving(t) \in Memory!Places /\ g = [x \in Memory!Places |-> g[x]]
  BY <1>4, ListsAre, ListsAreNext, PlacesAre, NothingHasNothing
<1> HIDE DEF g
<1>8. total + 0 = total /\ (total + 1)..(total + 0) = {}
  BY <1>1
<1>9. /\ Items(g[Cached(t)]) \cap Items(g[Moving(t)]) = {}
      /\ out \cap (Items(g[Cached(t)]) \cup Items(g[Moving(t)])) = {}
      /\ Items(g[Cached(t)]) \cup Items(g[Moving(t)]) \cup out
         = Items(Memory!Lists[Cached(t)]) \cup Items(Memory!Lists[Moving(t)]) \cup out \cup (total + 1)..(total + 0)
  BY <1>1, <1>5, <1>7, <1>8, NothingHasNothing
<1>10. /\ g[Cached(t)] \in Seq(1..total + 0) /\ NoRepeat(g[Cached(t)]) /\ out \in SUBSET (1..total + 0)
       /\ g[Moving(t)] \in Seq(1..total + 0) /\ NoRepeat(g[Moving(t)])
  BY <1>1, <1>5, <1>7, <1>8
<1>11. Once(g, out, total + 0)
  BY <1>1, <1>6, <1>7, <1>9, <1>10, DealtOnce
<1> QED BY <1>8, <1>11 DEF g, total

LEMMA FlushKeeps ==
  ASSUME MemoryInv, NEW t \in PoolThreads, NEW p \in Pools, Memory!Flush(t, p)
  PROVE  MemoryInv'
<1>1. /\ Memory!Unload(t, p, Batch, FALSE) /\ putting[t] = Memory!Nothing /\ Len(cache[t]) = CacheSize
      /\ UNCHANGED <<freelist, out, pages>>
  BY DEF Memory!Flush, Memory!Idle
<1>2. Batch \in 0..Len(cache[t])
  BY <1>1, PoolsAssumption
<1>3. owner' \in [PoolThreads -> Pools \cup {Nil}] /\ owner'[t] \in Pools
      /\ \A u \in PoolThreads \ {t} : owner'[u] = owner[u]
  BY DEF Memory!Flush, Memory!Owned, MemoryInv, MemoryTypes
<1>4. /\ putting' = [putting EXCEPT ![t] = putting'[t]] /\ putting'[t].pool = p /\ putting'[t].done = FALSE
      /\ cache' = [cache EXCEPT ![t] = cache'[t]]
  BY <1>1 DEF Memory!Unload, MemoryInv, MemoryTypes
<1>5. MemoryTypes'
  BY <1>1, <1>3, <1>4 DEF MemoryInv, MemoryTypes
<1> QED BY <1>1, <1>2, <1>5, UnloadKeeps DEF MemoryInv

LEMMA FlushAllKeeps ==
  ASSUME MemoryInv, NEW t \in PoolThreads, Memory!FlushAll(t)
  PROVE  MemoryInv'
<1>1. /\ Memory!Unload(t, owner[t], Len(cache[t]), TRUE) /\ putting[t] = Memory!Nothing
      /\ owner[t] \in Pools /\ owner' = owner /\ UNCHANGED <<freelist, out, pages>>
  BY DEF Memory!FlushAll, Memory!Idle, MemoryInv, MemoryTypes
<1>2. Len(cache[t]) \in Nat
  BY ListsOfOnce
<1>3. /\ putting' = [putting EXCEPT ![t] = putting'[t]] /\ putting'[t].pool = owner[t]
      /\ cache' = [cache EXCEPT ![t] = cache'[t]] /\ cache'[t] = SubSeq(cache[t], 1, 0)
  BY <1>1, <1>2 DEF Memory!Unload, Memory!FirstOf, MemoryInv, MemoryTypes
<1>4. cache'[t] = <<>>
  BY <1>3, SubSeqEmpty
<1>5. MemoryTypes'
  BY <1>1, <1>3, <1>4 DEF MemoryInv, MemoryTypes
<1>6. Len(cache[t]) \in 0..Len(cache[t])
  BY <1>2
<1> QED BY <1>1, <1>5, <1>6, UnloadKeeps DEF MemoryInv

LEMMA SpliceKeeps ==
  ASSUME MemoryInv, NEW t \in PoolThreads, Memory!Splice(t)
  PROVE  MemoryInv'
<1> DEFINE total == pages * PageBlocks
           p == putting[t].pool
           joined == putting[t].list \o freelist[p]
           g == Memory!Lists'
<1>1. p \in Pools
  BY DEF Memory!Splice, Memory!Idle, MemoryInv, MemoryTypes
<1>2. /\ freelist' = [freelist EXCEPT ![p] = joined] /\ putting' = [putting EXCEPT ![t] = Memory!Nothing]
      /\ owner' = [owner EXCEPT ![t] = IF putting[t].done THEN Nil ELSE @]
      /\ cache' = cache /\ out' = out /\ pages' = pages
  BY DEF Memory!Splice
<1>3. MemoryTypes'
  BY <1>2, NothingHasNothing DEF MemoryInv, MemoryTypes
<1>4. /\ total \in Nat /\ out \subseteq 1..total /\ Once(Memory!Lists, out, total)
      /\ freelist[p] \in Seq(1..total) /\ NoRepeat(freelist[p]) /\ Items(freelist[p]) \cap out = {}
      /\ putting[t].list \in Seq(1..total) /\ NoRepeat(putting[t].list) /\ Items(putting[t].list) \cap out = {}
      /\ Items(putting[t].list) \cap Items(freelist[p]) = {}
  BY <1>1, ListsOfOnce DEF MemoryInv
<1>5. /\ freelist'[p] = joined /\ \A q \in Pools \ {p} : freelist'[q] = freelist[q]
      /\ putting'[t].list = <<>> /\ \A u \in PoolThreads \ {t} : putting'[u] = putting[u]
  BY <1>1, <1>2, NothingHasNothing DEF MemoryInv, MemoryTypes
<1> HIDE DEF total, p
<1>6. joined \in Seq(1..total) /\ NoRepeat(joined) /\ Items(joined) = Items(putting[t].list) \cup Items(freelist[p])
  BY <1>4, ListsJoined
<1> HIDE DEF joined
<1>7. \A y \in Memory!Places \ {Free(p), Moving(t)} : g[y] = Memory!Lists[y]
  <2>1. /\ \A q \in Pools : Free(q) \notin {Free(p), Moving(t)} => freelist'[q] = freelist[q]
        /\ \A u \in PoolThreads : Cached(u) \notin {Free(p), Moving(t)} => cache'[u] = cache[u]
        /\ \A u \in PoolThreads : Moving(u) \notin {Free(p), Moving(t)} => putting'[u].list = putting[u].list
    BY <1>2, <1>5
  <2> QED BY <2>1, OtherLists
<1>8. /\ Memory!Lists[Free(p)] = freelist[p] /\ g[Free(p)] = joined
      /\ Memory!Lists[Moving(t)] = putting[t].list /\ g[Moving(t)] = <<>>
      /\ Free(p) \in Memory!Places /\ Moving(t) \in Memory!Places /\ g = [x \in Memory!Places |-> g[x]]
  BY <1>1, <1>5, ListsAre, ListsAreNext, PlacesAre
<1> HIDE DEF g
<1>9. total + 0 = total /\ (total + 1)..(total + 0) = {}
  BY <1>4
<1>10. /\ Items(g[Free(p)]) \cap Items(g[Moving(t)]) = {}
       /\ out \cap (Items(g[Free(p)]) \cup Items(g[Moving(t)])) = {}
       /\ Items(g[Free(p)]) \cup Items(g[Moving(t)]) \cup out
          = Items(Memory!Lists[Free(p)]) \cup Items(Memory!Lists[Moving(t)]) \cup out \cup (total + 1)..(total + 0)
  BY <1>4, <1>6, <1>8, <1>9, NothingHasNothing
<1>11. /\ g[Free(p)] \in Seq(1..total + 0) /\ NoRepeat(g[Free(p)]) /\ out \in SUBSET (1..total + 0)
       /\ g[Moving(t)] \in Seq(1..total + 0) /\ NoRepeat(g[Moving(t)])
  BY <1>4, <1>6, <1>8, <1>9, EmptySeq, NothingHasNothing
<1>12. Once(g, out, total + 0)
  BY <1>4, <1>7, <1>8, <1>10, <1>11, DealtOnce
<1> QED BY <1>2, <1>3, <1>9, <1>12 DEF MemoryInv, g, total

LEMMA MemoryStep ==
  ASSUME MemoryInv, [Memory!Next]_memoryVars
  PROVE  MemoryInv'
<1>1. CASE UNCHANGED memoryVars
  <2>1. Memory!Lists' = Memory!Lists /\ out' = out /\ pages' = pages
    BY <1>1 DEF Memory!Lists, memoryVars
  <2>2. MemoryTypes'
    BY <1>1 DEF MemoryInv, MemoryTypes, memoryVars
  <2> QED BY <2>1, <2>2 DEF MemoryInv
<1> QED BY <1>1, AllocateKeeps, DeallocateKeeps, RefillKeeps, FlushKeeps, FlushAllKeeps, SpliceKeeps
        DEF Memory!Next

(* However many threads allocate and free blocks of each other's pools, and *)
(* end, with any sizes of caches, batches and pages: no block is handed out *)
(* twice, and none is lost (fixedSizePool.h: allocate, deallocate,          *)
(* refill_tls_cache, flush_tls_cache).                                      *)
THEOREM BlocksAreOnce == PartsSpec => []BlockIsOnce
<1> DEFINE Inv == part = "memory" => MemoryInv
<1>1. PartsInit => Inv
  BY MemoryInit DEF PartsInit
<1>2. Inv /\ [PartsNext]_partsVars => Inv'
  BY PartStays, MemoryAlone, MemoryStep
<1>3. Inv => BlockIsOnce
  <2> SUFFICES ASSUME MemoryInv PROVE Memory!BlockIsOnce
    BY DEF BlockIsOnce
  <2>1. \A x \in Memory!Places : DOMAIN Memory!Lists[x] = 1..Len(Memory!Lists[x])
    BY DEF MemoryInv, Once
  <2>2. \A b \in 1..pages * PageBlocks :
          b \in out \/ \E x \in Memory!Places : \E i \in DOMAIN Memory!Lists[x] : Memory!Lists[x][i] = b
    BY <2>1 DEF MemoryInv, Once, Items
  <2>3. \A x \in Memory!Places : \A i \in DOMAIN Memory!Lists[x] :
          Memory!Lists[x][i] \in Items(Memory!Lists[x])
    BY <2>1 DEF Items
  <2>4. ASSUME NEW x \in Memory!Places, NEW i \in DOMAIN Memory!Lists[x]
        PROVE  Memory!Lists[x][i] \notin out
    BY <2>3, <2>4 DEF MemoryInv, Once
  <2>5. ASSUME NEW x \in Memory!Places, NEW i \in DOMAIN Memory!Lists[x],
               NEW y \in Memory!Places, NEW j \in DOMAIN Memory!Lists[y],
               Memory!Lists[x][i] = Memory!Lists[y][j]
        PROVE  x = y /\ i = j
    <3>1. CASE x # y
      BY <2>3, <2>5, <3>1 DEF MemoryInv, Once
    <3>2. CASE x = y
      BY <2>1, <2>5, <3>2 DEF MemoryInv, Once, NoRepeat
    <3> QED BY <3>1, <3>2
  <2> QED BY <2>2, <2>4, <2>5 DEF Memory!BlockIsOnce
<1> QED BY <1>1, <1>2, <1>3, PTL DEF PartsSpec

-----------------------------------------------------------------------------
(***************************************************************************)
(* The configuration of the logger.  What makes the property inductive is  *)
(* what it says of load(), which has read the file and not yet its time.   *)
(***************************************************************************)
LEMMA ConfigAlone ==
  ASSUME [PartsNext]_partsVars, part = "config"
  PROVE  [Config!Next]_configVars
BY DEF PartsNext, partsVars, dataVars, CameraPart, OrderedPart, SafePart, LogPart, DisplayPart,
       UdevPart, MousePart, ParamPart, ServerPart, DmaPart, MemoryPart, ConfigPart, DevicesPart,
       HttpPart, JpegPart, ContextPart

ConfigTypes ==
  /\ clock \in Nat /\ last_modified_ \in Nat /\ checking \in Nat
  /\ file.time \in Nat /\ config_file_ \in BOOLEAN /\ loading \in BOOLEAN

\* Before a load notes the time it may say anything: only a file that was
\* written since the reading is one of the writings that are not seen.
LoadIsOwn == loading => seen = file.number \/ file.number \in unseen

ConfigInv == ConfigTypes /\ LoadIsOwn /\ Config!ChangesAreSeen

LEMMA ConfigInit == Config!Init => ConfigInv
<1> SUFFICES ASSUME Config!Init PROVE ConfigInv
  OBVIOUS
<1>1. /\ clock = 1 /\ file.time = 0 /\ last_modified_ = 0 /\ checking = 0
      /\ config_file_ = FALSE /\ ~config_file_ /\ loading = FALSE /\ ~loading
  BY DEF Config!Init
<1>2. ConfigTypes
  <2>1. config_file_ \in BOOLEAN /\ loading \in BOOLEAN
    BY <1>1, Zenon
  <2>2. /\ clock \in Nat /\ last_modified_ \in Nat /\ checking \in Nat /\ file.time \in Nat
    <3>1. clock = 1 /\ last_modified_ = 0 /\ checking = 0 /\ file.time = 0
      BY <1>1
    <3> QED BY <3>1
  <2> QED BY <2>1, <2>2, Zenon DEF ConfigTypes
<1>3. LoadIsOwn /\ Config!ChangesAreSeen
  BY <1>1, Zenon DEF LoadIsOwn, Config!ChangesAreSeen
<1> QED BY <1>2, <1>3 DEF ConfigInv

LEMMA ConfigStep ==
  ASSUME ConfigInv, [Config!Next]_configVars
  PROVE  ConfigInv'
<1> USE DEF ConfigInv, ConfigTypes, LoadIsOwn, Config!ChangesAreSeen, Config!manager
<1>1. CASE Config!Tick
  BY <1>1 DEF Config!Tick
<1>2. ASSUME NEW text, Config!Write(text) PROVE ConfigInv'
  <2>1. file'.time = clock /\ file'.number = file.number + 1
    BY <1>2 DEF Config!Write
  <2>2. (loading \/ clock <= last_modified_) => file.number + 1 \in unseen'
    BY <1>2 DEF Config!Write
  <2> QED BY <1>2, <2>1, <2>2 DEF Config!Write
<1>3. CASE Config!Edit \/ Config!Save
  BY <1>2, <1>3 DEF Config!Edit, Config!Save
<1>4. CASE Config!LoadRead \/ Config!LoadStat
  BY <1>4 DEF Config!LoadRead, Config!LoadStat
<1>5. CASE Config!LoadFromJson \/ Config!UpdateConfig \/ Config!SetChangeCallback
  <2>1. /\ clock' = clock /\ file' = file /\ checking' = checking /\ loading' = loading
        /\ seen' = seen /\ unseen' = unseen /\ ~loading
    BY <1>5 DEF Config!LoadFromJson, Config!UpdateConfig, Config!SetChangeCallback
  <2>2. \/ config_file_' = FALSE /\ last_modified_' = 0
        \/ config_file_' = config_file_ /\ last_modified_' = last_modified_
    BY <1>5 DEF Config!LoadFromJson, Config!UpdateConfig, Config!SetChangeCallback
  <2>3. last_modified_' \in Nat /\ config_file_' \in BOOLEAN /\ loading' \in BOOLEAN
    <3>1. last_modified_' = 0 => last_modified_' \in Nat
      OBVIOUS
    <3> QED BY <2>1, <2>2, <3>1, Zenon
  <2>4. ConfigTypes'
    BY <2>1, <2>3, Zenon
  <2>5. config_file_' => config_file_ /\ last_modified_' = last_modified_
    BY <2>2, Zenon
  <2> QED BY <2>1, <2>4, <2>5, Zenon
<1>6. CASE Config!CheckStat \/ Config!CheckRead
  BY <1>6 DEF Config!CheckStat, Config!CheckRead
<1>7. CASE UNCHANGED configVars
  BY <1>7 DEF configVars
<1> QED BY <1>1, <1>3, <1>4, <1>5, <1>6, <1>7 DEF Config!Next

(* A configuration file that was changed is read again, whenever the change *)
(* came, but in the second on record or between the reading and the stat    *)
(* (logger_config.cpp: load, checkForChanges).                              *)
THEOREM NoChangeIsLost == PartsSpec => []ChangesAreSeen
<1> DEFINE Inv == part = "config" => ConfigInv
<1>1. PartsInit => Inv
  BY ConfigInit DEF PartsInit
<1>2. Inv /\ [PartsNext]_partsVars => Inv'
  BY PartStays, ConfigAlone, ConfigStep
<1>3. Inv => ChangesAreSeen
  BY DEF ChangesAreSeen, ConfigInv
<1> QED BY <1>1, <1>2, <1>3, PTL DEF PartsSpec

-----------------------------------------------------------------------------
(***************************************************************************)
(* The ring of frames.  A producer that has claimed a slot is alone there  *)
(* until both fields are written.  A slot that is complete holds the frame *)
(* of its id, which no producer has any more and no consumer has taken; so *)
(* the consumer that finds the id it has loaded there finds the expected   *)
(* one, and is the only one at work.                                       *)
(***************************************************************************)
LEMMA OrderedAlone ==
  ASSUME [PartsNext]_partsVars, part = "ordered"
  PROVE  [Ordered!Next]_orderVars
BY DEF PartsNext, partsVars, threadVars, CameraPart, OrderedPart, SafePart, LogPart, DisplayPart,
       UdevPart, MousePart, ParamPart, ServerPart, DmaPart, MemoryPart, ConfigPart, DevicesPart,
       HttpPart, JpegPart, ContextPart

Frames == Nat \cup {Nil}
Works == {{}, {"claim"}, {"data", "id"}, {"data"}, {"id"}}
Stages == {"load", "test", "move", "reset", "free", "next"}

OrderTypes ==
  /\ filled \in [Ordered!Slots -> BOOLEAN] /\ frame_id \in [Ordered!Slots -> Nat]
  /\ data_ \in [Ordered!Slots -> Frames]
  /\ producer \in [Producers -> [todo : Works, id : Nat]]
  /\ consumer \in [Consumers -> [at : Stages, id : Nat, got : Frames]]
  /\ nextId \in Nat /\ expected_id_ \in Nat /\ torn \in BOOLEAN /\ shared \in BOOLEAN
  /\ taken \in Seq(Frames)

SlotOf(p) == Ordered!Slot(producer[p].id)
SlotAt(c) == Ordered!Slot(consumer[c].id)
Busy(p) == producer[p].todo # {}
Storing(p) == "data" \in producer[p].todo \/ "id" \in producer[p].todo
Taking(c) == consumer[c].at \in {"move", "reset", "free", "next"}
Held(s) == \E p \in Producers : Storing(p) /\ SlotOf(p) = s
Given(id) == expected_id_ <= id /\ id < nextId
NotBusy(id) == \A p \in Producers : Busy(p) => producer[p].id # id
Complete(s) ==
  /\ filled[s] /\ ~Held(s)
  /\ \A c \in Consumers : consumer[c].at \in {"reset", "free"} => SlotAt(c) # s

WritersAlone ==
  /\ \A p, q \in Producers : Storing(p) /\ Storing(q) /\ SlotOf(p) = SlotOf(q) => p = q
  /\ \A p \in Producers : Storing(p) =>
       /\ filled[SlotOf(p)]
       /\ "data" \notin producer[p].todo => data_[SlotOf(p)] = producer[p].id
       /\ "id" \notin producer[p].todo => frame_id[SlotOf(p)] = producer[p].id

IdsApart ==
  \A p \in Producers : Busy(p) =>
    /\ Given(producer[p].id)
    /\ \A q \in Producers : Busy(q) /\ producer[q].id = producer[p].id => q = p

SlotsHold ==
  \A s \in Ordered!Slots : Complete(s) =>
    /\ Ordered!Slot(frame_id[s]) = s /\ data_[s] = frame_id[s]
    /\ Given(frame_id[s]) /\ NotBusy(frame_id[s])

OneTakes == \A c, d \in Consumers : Taking(c) /\ Taking(d) => c = d

\* What a consumer may rely on at its place.
PlaceHolds(c) ==
  /\ consumer[c].at # "load" => consumer[c].id <= expected_id_
  /\ Taking(c) => consumer[c].id = expected_id_ /\ expected_id_ < nextId /\ NotBusy(expected_id_)
  /\ consumer[c].at \in {"move", "reset", "free"} => filled[SlotAt(c)] /\ ~Held(SlotAt(c))
  /\ consumer[c].at = "move" => frame_id[SlotAt(c)] = expected_id_
  /\ consumer[c].at \in {"reset", "free", "next"} => consumer[c].got = expected_id_
  /\ consumer[c].at = "next" /\ Complete(SlotAt(c)) => frame_id[SlotAt(c)] # expected_id_

TakerHolds == \A c \in Consumers : PlaceHolds(c)

TakenSoFar == Len(taken) = expected_id_ /\ \A k \in 1..Len(taken) : taken[k] = k - 1

RingHolds == WritersAlone /\ IdsApart /\ SlotsHold /\ OneTakes /\ TakerHolds /\ TakenSoFar

OrderInv == OrderTypes /\ (policy # "oldest" /\ ~torn /\ ~shared => RingHolds)

LEMMA RingHasSlots == Ordered!RingSize \in Nat \ {0}
<1> DEFINE powers == {1, 2, 4, 8, 16, 32, 64, 128, 256, 512, 1024}
<1>1. \E c \in powers : c >= Requested /\ (c = 1 \/ c < 2 * Requested)
  BY RingAssumption
<1>2. Ordered!RingSize \in powers
  BY <1>1 DEF Ordered!RingSize
<1> QED BY <1>2

LEMMA SlotOfId ==
  ASSUME NEW id \in Nat
  PROVE  Ordered!Slot(id) \in Ordered!Slots
BY RingHasSlots DEF Ordered!Slot, Ordered!Slots

LEMMA OrderInit == Ordered!Init => OrderInv
<1> SUFFICES ASSUME Ordered!Init PROVE OrderInv
  OBVIOUS
<1>1. OrderTypes
  BY EmptySeq DEF Ordered!Init, OrderTypes, Frames, Works, Stages
<1>2. WritersAlone /\ IdsApart /\ SlotsHold /\ OneTakes /\ TakerHolds
  BY DEF Ordered!Init, WritersAlone, IdsApart, SlotsHold, OneTakes, TakerHolds, PlaceHolds, Storing, Busy, Taking,
         Complete
<1>3. TakenSoFar
  BY DEF Ordered!Init, TakenSoFar
<1> QED BY <1>1, <1>2, <1>3 DEF OrderInv, RingHolds

\* What a consumer's step leaves to the producers.
LEMMA ConsumerLeaves ==
  ASSUME producer' = producer, nextId' = nextId
  PROVE  /\ \A p : (Busy(p)' <=> Busy(p)) /\ (Storing(p)' <=> Storing(p)) /\ SlotOf(p)' = SlotOf(p)
         /\ \A s : Held(s)' <=> Held(s)
         /\ \A id : NotBusy(id)' <=> NotBusy(id)
BY DEF Busy, Storing, SlotOf, Held, NotBusy

\* A consumer that looks whether its id is there.
LEMMA LookStep ==
  ASSUME OrderInv, NEW c \in Consumers, Ordered!Load(c) \/ Ordered!Test(c)
  PROVE  OrderInv'
<1>1. OrderTypes /\ SlotAt(c) \in Ordered!Slots
  BY SlotOfId DEF OrderInv, OrderTypes, SlotAt
<1>2. /\ producer' = producer /\ nextId' = nextId /\ policy' = policy /\ filled' = filled
      /\ frame_id' = frame_id /\ data_' = data_ /\ expected_id_' = expected_id_ /\ taken' = taken
      /\ (torn => torn') /\ (shared => shared')
      /\ consumer[c].at \in {"load", "test"} /\ consumer'[c].at \in {"test", "load", "move"}
      /\ \A d \in Consumers \ {c} : consumer'[d] = consumer[d]
  BY <1>1 DEF Ordered!Load, Ordered!Test, Ordered!Pass, Ordered!At, OrderTypes
<1>3. OrderTypes'
  <2>1. torn' \in BOOLEAN /\ shared' \in BOOLEAN
    BY <1>1 DEF Ordered!Load, Ordered!Test, Ordered!Pass, OrderTypes, Ordered!Held, Ordered!Emptied
  <2>2. consumer' \in [Consumers -> [at : Stages, id : Nat, got : Frames]]
    <3>1. \A a \in Stages : [consumer EXCEPT ![c].at = a] \in [Consumers -> [at : Stages, id : Nat, got : Frames]]
      BY <1>1 DEF OrderTypes
    <3>2. CASE Ordered!Load(c)
      BY <1>1, <3>2 DEF Ordered!Load, OrderTypes, Stages, Frames
    <3>3. CASE Ordered!Test(c)
      BY <3>1, <3>3 DEF Ordered!Test, Ordered!Pass, Ordered!At, Stages
    <3> QED BY <3>2, <3>3
  <2> QED BY <1>1, <1>2, <2>1, <2>2 DEF OrderTypes
<1>4. ASSUME policy # "oldest", ~torn', ~shared' PROVE RingHolds'
  <2>1. RingHolds
    BY <1>1, <1>2, <1>4 DEF OrderInv, OrderTypes
  <2>2. /\ \A p : (Busy(p)' <=> Busy(p)) /\ (Storing(p)' <=> Storing(p)) /\ SlotOf(p)' = SlotOf(p)
        /\ \A s : Held(s)' <=> Held(s)
        /\ \A id : NotBusy(id)' <=> NotBusy(id)
    BY <1>2, ConsumerLeaves
  <2>3. \A s : Complete(s)' <=> Complete(s)
    BY <1>2, <2>2 DEF Complete, SlotAt
  <2>4. WritersAlone' /\ IdsApart' /\ TakenSoFar'
    BY <1>2, <2>1, <2>2 DEF RingHolds, WritersAlone, IdsApart, TakenSoFar, Given
  <2>5. SlotsHold'
    BY <1>2, <2>1, <2>2, <2>3 DEF RingHolds, SlotsHold, Given
  <2>6. CASE consumer'[c].at = "move"
    <3>1. /\ consumer[c].at = "test" /\ filled[SlotAt(c)] /\ frame_id[SlotAt(c)] = consumer[c].id
          /\ consumer' = [consumer EXCEPT ![c].at = "move"]
          /\ ~Ordered!Held(SlotAt(c)) /\ ~Ordered!Emptied(c, SlotAt(c))
      BY <1>1, <1>4, <2>6 DEF Ordered!Load, Ordered!Test, Ordered!Pass, Ordered!At, SlotAt, OrderTypes
    <3>2. ~Held(SlotAt(c))
      BY <3>1 DEF Held, Ordered!Held, Storing, SlotOf
    <3>3. Complete(SlotAt(c))
      BY <3>1, <3>2 DEF Complete, Ordered!Emptied, SlotAt
    <3>4. /\ Given(consumer[c].id) /\ NotBusy(consumer[c].id) /\ consumer[c].id <= expected_id_
      BY <1>1, <2>1, <3>1, <3>3 DEF RingHolds, SlotsHold, TakerHolds, PlaceHolds
    <3>5. consumer[c].id = expected_id_ /\ expected_id_ < nextId
      BY <1>1, <3>4 DEF Given, OrderTypes
    <3>6. \A d \in Consumers : ~Taking(d)
      <4>1. SUFFICES ASSUME NEW d \in Consumers, Taking(d) PROVE FALSE
        OBVIOUS
      <4>2. d # c /\ SlotAt(d) = SlotAt(c)
        BY <2>1, <3>1, <3>5, <4>1 DEF RingHolds, TakerHolds, PlaceHolds, Taking, SlotAt
      <4>3. consumer[d].at = "next"
        BY <3>1, <4>1, <4>2 DEF Ordered!Emptied, Taking, SlotAt
      <4> QED BY <2>1, <3>1, <3>3, <3>5, <4>2, <4>3 DEF RingHolds, TakerHolds, PlaceHolds
    <3>7. /\ consumer'[c].at = "move" /\ consumer'[c].id = consumer[c].id /\ SlotAt(c)' = SlotAt(c)
      BY <1>1, <3>1 DEF OrderTypes, SlotAt
    <3>8. OneTakes'
      BY <1>2, <3>6 DEF OneTakes, Taking
    <3>9. TakerHolds'
      <4>1. SUFFICES ASSUME NEW d \in Consumers PROVE PlaceHolds(d)'
        BY DEF TakerHolds
      <4>2. CASE d = c
        BY <1>2, <2>2, <3>1, <3>2, <3>4, <3>5, <3>7, <4>2 DEF PlaceHolds, Taking
      <4>3. CASE d # c
        BY <1>2, <2>1, <2>2, <2>3, <3>6, <4>3 DEF RingHolds, TakerHolds, PlaceHolds, Taking, SlotAt
      <4> QED BY <4>2, <4>3
    <3> QED BY <2>4, <2>5, <3>8, <3>9 DEF RingHolds
  <2>7. CASE consumer'[c].at # "move"
    <3>1. ~Taking(c)' /\ ~Taking(c) /\ (consumer'[c].at = "test" => consumer'[c].id = expected_id_)
      <4>1. CASE Ordered!Load(c)
        BY <1>1, <4>1 DEF Ordered!Load, OrderTypes, Taking
      <4>2. CASE Ordered!Test(c)
        BY <1>1, <2>7, <4>2 DEF Ordered!Test, Ordered!Pass, Ordered!At, OrderTypes, Taking
      <4> QED BY <4>1, <4>2
    <3>2. OneTakes'
      BY <1>2, <2>1, <3>1 DEF RingHolds, OneTakes, Taking
    <3>3. TakerHolds'
      <4>1. SUFFICES ASSUME NEW d \in Consumers PROVE PlaceHolds(d)'
        BY DEF TakerHolds
      <4>2. CASE d = c
        <5>1. consumer'[c].id \in Nat /\ expected_id_ \in Nat
          BY <1>1, <1>3 DEF OrderTypes
        <5>2. consumer'[c].at \in {"load", "test"}
          BY <1>2, <2>7
        <5> QED BY <1>2, <3>1, <4>2, <5>1, <5>2 DEF PlaceHolds, Taking
      <4>3. CASE d # c
        <5>1. consumer'[d] = consumer[d] /\ SlotAt(d)' = SlotAt(d)
          BY <1>2, <4>3 DEF SlotAt
        <5>2. Taking(d)' <=> Taking(d)
          BY <5>1 DEF Taking
        <5> QED BY <1>2, <2>1, <2>2, <2>3, <5>1, <5>2 DEF RingHolds, TakerHolds, PlaceHolds
      <4> QED BY <4>2, <4>3
    <3> QED BY <2>4, <2>5, <3>2, <3>3 DEF RingHolds
  <2> QED BY <2>6, <2>7
<1> QED BY <1>2, <1>3, <1>4 DEF OrderInv

\* The consumer that is taking.  Its slot is filled, and no producer is there.
LEMMA TakeStep ==
  ASSUME OrderInv, NEW c \in Consumers,
         Ordered!Move(c) \/ Ordered!Reset(c) \/ Ordered!Free(c) \/ Ordered!Advance(c)
  PROVE  OrderInv'
<1> DEFINE front == SlotAt(c)
<1>1. OrderTypes /\ front \in Ordered!Slots
  BY SlotOfId DEF OrderInv, OrderTypes, SlotAt
<1>2. /\ producer' = producer /\ nextId' = nextId /\ policy' = policy /\ torn' = torn /\ shared' = shared
      /\ Taking(c) /\ consumer'[c].id = consumer[c].id /\ consumer'[c].at # "test"
      /\ \A d \in Consumers \ {c} : consumer'[d] = consumer[d]
  BY <1>1 DEF Ordered!Move, Ordered!Reset, Ordered!Free, Ordered!Advance, Ordered!At, OrderTypes, Taking
<1>3. /\ \A p : (Busy(p)' <=> Busy(p)) /\ (Storing(p)' <=> Storing(p)) /\ SlotOf(p)' = SlotOf(p)
      /\ \A s : Held(s)' <=> Held(s)
      /\ \A id : NotBusy(id)' <=> NotBusy(id)
  BY <1>2, ConsumerLeaves
<1>4. SlotAt(c)' = front /\ \A d \in Consumers : SlotAt(d)' = SlotAt(d)
  BY <1>2 DEF SlotAt
<1>5. OrderTypes'
  <2>1. \A a \in Stages : [consumer EXCEPT ![c].at = a] \in [Consumers -> [at : Stages, id : Nat, got : Frames]]
    BY <1>1 DEF OrderTypes
  <2>2. \A a \in Stages, v \in Frames :
          [consumer EXCEPT ![c].at = a, ![c].got = v] \in [Consumers -> [at : Stages, id : Nat, got : Frames]]
    BY <1>1 DEF OrderTypes
  <2>3. CASE Ordered!Move(c)
    <3>1. data_' \in [Ordered!Slots -> Frames]
      BY <1>1, <2>3 DEF Ordered!Move, OrderTypes, Frames
    <3>2. data_[front] \in Frames
      BY <1>1 DEF OrderTypes
    <3>3. consumer' \in [Consumers -> [at : Stages, id : Nat, got : Frames]]
      BY <2>2, <2>3, <3>2 DEF Ordered!Move, Stages, SlotAt
    <3> QED BY <1>1, <2>3, <3>1, <3>3 DEF Ordered!Move, OrderTypes
  <2>4. CASE Ordered!Reset(c)
    BY <1>1, <2>1, <2>4 DEF Ordered!Reset, Ordered!At, OrderTypes, Stages
  <2>5. CASE Ordered!Free(c)
    BY <1>1, <2>1, <2>5 DEF Ordered!Free, Ordered!At, OrderTypes, Stages
  <2>6. CASE Ordered!Advance(c)
    <3>1. consumer' \in [Consumers -> [at : Stages, id : Nat, got : Frames]]
      BY <2>1, <2>6 DEF Ordered!Advance, Ordered!At, Stages
    <3>2. expected_id_' \in Nat
      BY <1>1, <2>6 DEF Ordered!Advance, OrderTypes
    <3>3. consumer[c].got \in Frames
      BY <1>1 DEF OrderTypes
    <3>4. taken' \in Seq(Frames)
      BY <1>1, <2>6, <3>3 DEF Ordered!Advance, OrderTypes
    <3> QED BY <1>1, <2>6, <3>1, <3>2, <3>4 DEF Ordered!Advance, OrderTypes
  <2> QED BY <2>3, <2>4, <2>5, <2>6
<1>6. ASSUME policy # "oldest", ~torn, ~shared PROVE RingHolds'
  <2>1. RingHolds
    BY <1>6 DEF OrderInv
  <2>2. /\ consumer[c].id = expected_id_ /\ expected_id_ < nextId /\ NotBusy(expected_id_)
        /\ consumer[c].at # "next" => filled[front] /\ ~Held(front)
    BY <1>2, <2>1 DEF RingHolds, TakerHolds, PlaceHolds, Taking
  <2>3. \A d \in Consumers \ {c} : ~Taking(d) /\ ~Taking(d)' /\ (consumer'[d].at # "load" => consumer'[d].id <= expected_id_)
    BY <1>2, <2>1 DEF RingHolds, OneTakes, TakerHolds, PlaceHolds, Taking
  <2>4. OneTakes'
    BY <2>3 DEF OneTakes
  <2>5. \A p \in Producers : Storing(p) => SlotOf(p) # front \/ consumer[c].at = "next"
    BY <2>2 DEF Held
  <2>6. \A d \in Consumers \ {c} : consumer[d].at \notin {"reset", "free"} /\ consumer'[d].at \notin {"reset", "free"}
    BY <2>3 DEF Taking
  <2>7. ASSUME expected_id_' = expected_id_, taken' = taken, PlaceHolds(c)'
        PROVE  IdsApart' /\ TakenSoFar' /\ TakerHolds'
    <3>1. IdsApart' /\ TakenSoFar'
      BY <1>2, <1>3, <2>1, <2>7 DEF RingHolds, IdsApart, TakenSoFar, Given
    <3>2. ASSUME NEW d \in Consumers \ {c} PROVE PlaceHolds(d)'
      BY <2>3, <2>7 DEF PlaceHolds, Taking
    <3> QED BY <2>7, <3>1, <3>2 DEF TakerHolds
  <2>8. CASE Ordered!Move(c)
    <3>1. /\ consumer[c].at = "move" /\ consumer'[c].at = "reset" /\ consumer'[c].got = data_[front]
          /\ filled' = filled /\ frame_id' = frame_id /\ expected_id_' = expected_id_ /\ taken' = taken
          /\ \A s \in Ordered!Slots \ {front} : data_'[s] = data_[s]
      BY <1>1, <2>8 DEF Ordered!Move, OrderTypes, SlotAt
    <3>2. Complete(front)
      BY <2>2, <2>6, <3>1 DEF Complete
    <3>3. frame_id[front] = expected_id_ /\ data_[front] = expected_id_
      BY <1>1, <2>1, <3>1, <3>2 DEF RingHolds, SlotsHold, TakerHolds, PlaceHolds
    <3>4. PlaceHolds(c)'
      BY <1>2, <1>3, <1>4, <2>2, <3>1, <3>3, <1>1 DEF PlaceHolds, Taking, OrderTypes
    <3>5. WritersAlone'
      <4>1. \A p \in Producers : SlotOf(p) \in Ordered!Slots
        BY <1>1, SlotOfId DEF SlotOf, OrderTypes
      <4>2. \A p \in Producers : Storing(p) => data_'[SlotOf(p)] = data_[SlotOf(p)]
        BY <2>5, <3>1, <4>1
      <4> QED BY <1>2, <1>3, <2>1, <3>1, <4>2 DEF RingHolds, WritersAlone
    <3>6. \A s \in Ordered!Slots : Complete(s)' => Complete(s) /\ s # front
      BY <1>3, <1>4, <2>6, <3>1 DEF Complete
    <3>7. SlotsHold'
      BY <1>2, <1>3, <2>1, <3>1, <3>6 DEF RingHolds, SlotsHold, Given
    <3> QED BY <2>4, <2>7, <3>1, <3>4, <3>5, <3>7 DEF RingHolds
  <2>9. CASE Ordered!Reset(c)
    <3>1. /\ consumer[c].at = "reset" /\ consumer'[c].at = "free" /\ consumer'[c].got = consumer[c].got
          /\ filled' = filled /\ data_' = data_ /\ expected_id_' = expected_id_ /\ taken' = taken
          /\ \A s \in Ordered!Slots \ {front} : frame_id'[s] = frame_id[s]
      BY <1>1, <2>9 DEF Ordered!Reset, Ordered!At, OrderTypes, SlotAt
    <3>2. PlaceHolds(c)'
      BY <1>2, <1>3, <1>4, <2>1, <2>2, <3>1, <1>1 DEF RingHolds, TakerHolds, PlaceHolds, Taking, OrderTypes
    <3>3. WritersAlone'
      <4>1. \A p \in Producers : SlotOf(p) \in Ordered!Slots
        BY <1>1, SlotOfId DEF SlotOf, OrderTypes
      <4>2. \A p \in Producers : Storing(p) => frame_id'[SlotOf(p)] = frame_id[SlotOf(p)]
        BY <2>5, <3>1, <4>1
      <4> QED BY <1>2, <1>3, <2>1, <3>1, <4>2 DEF RingHolds, WritersAlone
    <3>4. \A s \in Ordered!Slots : Complete(s)' => Complete(s) /\ s # front
      BY <1>3, <1>4, <2>6, <3>1 DEF Complete
    <3>5. SlotsHold'
      BY <1>2, <1>3, <2>1, <3>1, <3>4 DEF RingHolds, SlotsHold, Given
    <3> QED BY <2>4, <2>7, <3>1, <3>2, <3>3, <3>5 DEF RingHolds
  <2>10. CASE Ordered!Free(c)
    <3>1. /\ consumer[c].at = "free" /\ consumer'[c].at = "next" /\ consumer'[c].got = consumer[c].got
          /\ frame_id' = frame_id /\ data_' = data_ /\ expected_id_' = expected_id_ /\ taken' = taken
          /\ ~filled'[front] /\ \A s \in Ordered!Slots \ {front} : filled'[s] = filled[s]
      BY <1>1, <2>10 DEF Ordered!Free, Ordered!At, OrderTypes, SlotAt
    <3>2. ~Complete(front)'
      BY <1>4, <3>1 DEF Complete
    <3>3. PlaceHolds(c)'
      BY <1>2, <1>3, <1>4, <2>1, <2>2, <3>1, <3>2, <1>1 DEF RingHolds, TakerHolds, PlaceHolds, Taking, OrderTypes
    <3>4. WritersAlone'
      <4>1. \A p \in Producers : SlotOf(p) \in Ordered!Slots
        BY <1>1, SlotOfId DEF SlotOf, OrderTypes
      <4>2. \A p \in Producers : Storing(p) => filled'[SlotOf(p)] = filled[SlotOf(p)]
        BY <2>5, <3>1, <4>1
      <4> QED BY <1>2, <1>3, <2>1, <3>1, <4>2 DEF RingHolds, WritersAlone
    <3>5. \A s \in Ordered!Slots : Complete(s)' => Complete(s) /\ s # front
      BY <1>3, <1>4, <2>6, <3>1, <3>2 DEF Complete
    <3>6. SlotsHold'
      BY <1>2, <1>3, <2>1, <3>1, <3>5 DEF RingHolds, SlotsHold, Given
    <3> QED BY <2>4, <2>7, <3>1, <3>3, <3>4, <3>6 DEF RingHolds
  <2>11. CASE Ordered!Advance(c)
    <3>1. /\ consumer[c].at = "next" /\ consumer'[c].at = "load"
          /\ filled' = filled /\ frame_id' = frame_id /\ data_' = data_
          /\ expected_id_' = expected_id_ + 1 /\ taken' = Append(taken, consumer[c].got)
      BY <1>1, <2>2, <2>11 DEF Ordered!Advance, Ordered!At, OrderTypes
    <3>2. \A s : Complete(s)' <=> Complete(s)
      BY <1>3, <1>4, <2>6, <3>1 DEF Complete
    <3>3. \A id \in Nat : Given(id) /\ id # expected_id_ => Given(id)'
      BY <1>1, <1>2, <3>1 DEF Given, OrderTypes
    <3>4. WritersAlone'
      BY <1>2, <1>3, <2>1, <3>1 DEF RingHolds, WritersAlone
    <3>5. IdsApart'
      BY <1>1, <1>2, <1>3, <2>1, <2>2, <3>3 DEF RingHolds, IdsApart, NotBusy, OrderTypes
    <3>6. SlotsHold'
      <4>1. \A s \in Ordered!Slots : Complete(s) => frame_id[s] # expected_id_
        BY <2>1, <2>2, <3>1 DEF RingHolds, SlotsHold, TakerHolds, PlaceHolds, SlotAt
      <4> QED BY <1>1, <1>3, <2>1, <3>1, <3>2, <3>3, <4>1 DEF RingHolds, SlotsHold, OrderTypes
    <3>7. TakerHolds'
      <4>1. PlaceHolds(c)'
        BY <3>1 DEF PlaceHolds, Taking
      <4>2. ASSUME NEW d \in Consumers \ {c} PROVE PlaceHolds(d)'
        <5>1. consumer'[d].at # "load" => consumer'[d].id <= expected_id_'
          BY <1>1, <1>2, <1>5, <2>3, <3>1 DEF OrderTypes
        <5> QED BY <2>3, <5>1 DEF PlaceHolds, Taking
      <4> QED BY <4>1, <4>2 DEF TakerHolds
    <3>8. TakenSoFar'
      <4>1. consumer[c].got = expected_id_ /\ consumer[c].got \in Frames
        BY <1>1, <2>1, <3>1 DEF RingHolds, TakerHolds, PlaceHolds, OrderTypes
      <4>2. Len(taken) = expected_id_ /\ \A k \in 1..Len(taken) : taken[k] = k - 1
        BY <2>1 DEF RingHolds, TakenSoFar
      <4> QED BY <1>1, <3>1, <4>1, <4>2 DEF TakenSoFar, OrderTypes
    <3> QED BY <2>4, <3>4, <3>5, <3>6, <3>7, <3>8 DEF RingHolds
  <2> QED BY <2>8, <2>9, <2>10, <2>11
<1> QED BY <1>2, <1>5, <1>6 DEF OrderInv

\* What a producer's step leaves to the consumers, and to the other producers.
LEMMA ProducerStep ==
  ASSUME OrderInv, NEW p \in Producers,
         Ordered!Enqueue(p) \/ Ordered!Claim(p) \/ Ordered!WriteData(p) \/ Ordered!WriteId(p)
  PROVE  OrderInv'
<1> DEFINE mine == SlotOf(p)
<1>1. /\ OrderTypes /\ \A q \in Producers : SlotOf(q) \in Ordered!Slots
      /\ \A q \in Producers : producer[q].todo \in Works /\ producer[q].id \in Nat
  BY SlotOfId DEF OrderInv, OrderTypes, SlotOf
<1>2. /\ expected_id_' = expected_id_ /\ policy' = policy /\ torn' = torn /\ shared' = shared
      /\ consumer' = consumer /\ taken' = taken /\ \A c : SlotAt(c)' = SlotAt(c)
      /\ \A c : Taking(c)' <=> Taking(c)
  BY DEF Ordered!Enqueue, Ordered!Claim, Ordered!WriteData, Ordered!WriteId, SlotAt, Taking
<1>3. \A q \in Producers \ {p} : producer'[q] = producer[q]
  BY <1>1 DEF Ordered!Enqueue, Ordered!Claim, Ordered!WriteData, Ordered!WriteId, Ordered!Todo, OrderTypes
<1>4. \A q \in Producers \ {p} : (Busy(q)' <=> Busy(q)) /\ (Storing(q)' <=> Storing(q)) /\ SlotOf(q)' = SlotOf(q)
  BY <1>3 DEF Busy, Storing, SlotOf
<1>5. ASSUME NEW rest \in Works PROVE [producer EXCEPT ![p].todo = rest] \in [Producers -> [todo : Works, id : Nat]]
  BY <1>1 DEF OrderTypes
<1>6. OrderTypes'
  <2>1. CASE Ordered!Enqueue(p)
    <3>1. producer' \in [Producers -> [todo : Works, id : Nat]] /\ nextId' \in Nat
      <4>1. PICK rest \in {{}, {"claim"}} : producer' = [producer EXCEPT ![p] = [todo |-> rest, id |-> nextId]]
        BY <2>1 DEF Ordered!Enqueue
      <4>2. rest \in Works /\ nextId \in Nat
        BY <1>1 DEF Works, OrderTypes
      <4>3. [todo |-> rest, id |-> nextId] \in [todo : Works, id : Nat]
        BY <4>2
      <4>4. nextId' = nextId + 1
        BY <2>1 DEF Ordered!Enqueue
      <4> QED BY <1>1, <4>1, <4>2, <4>3, <4>4 DEF OrderTypes
    <3> QED BY <1>1, <1>2, <2>1, <3>1 DEF Ordered!Enqueue, OrderTypes
  <2>2. CASE Ordered!Claim(p)
    <3>1. producer' \in [Producers -> [todo : Works, id : Nat]]
      BY <1>1, <1>5, <2>2 DEF Ordered!Claim, Ordered!Todo, OrderTypes, Works
    <3>2. filled' \in [Ordered!Slots -> BOOLEAN]
      BY <1>1, <2>2 DEF Ordered!Claim, OrderTypes
    <3> QED BY <1>1, <1>2, <2>2, <3>1, <3>2 DEF Ordered!Claim, OrderTypes
  <2>3. CASE Ordered!WriteData(p)
    <3>1. producer[p].todo \ {"data"} \in Works
      BY <1>1, <2>3 DEF Ordered!WriteData, Works
    <3>2. producer' \in [Producers -> [todo : Works, id : Nat]]
      BY <1>5, <2>3, <3>1 DEF Ordered!WriteData, Ordered!Todo
    <3>3. data_' \in [Ordered!Slots -> Frames]
      BY <1>1, <2>3 DEF Ordered!WriteData, OrderTypes, Frames
    <3> QED BY <1>1, <1>2, <2>3, <3>2, <3>3 DEF Ordered!WriteData, OrderTypes
  <2>4. CASE Ordered!WriteId(p)
    <3>1. producer[p].todo \ {"id"} \in Works
      BY <1>1, <2>4 DEF Ordered!WriteId, Works
    <3>2. producer' \in [Producers -> [todo : Works, id : Nat]]
      BY <1>5, <2>4, <3>1 DEF Ordered!WriteId, Ordered!Todo
    <3>3. frame_id' \in [Ordered!Slots -> Nat]
      BY <1>1, <2>4 DEF Ordered!WriteId, OrderTypes
    <3> QED BY <1>1, <1>2, <2>4, <3>2, <3>3 DEF Ordered!WriteId, OrderTypes
  <2> QED BY <2>1, <2>2, <2>3, <2>4
<1>7. ASSUME policy # "oldest", ~torn, ~shared PROVE RingHolds'
  <2>1. RingHolds
    BY <1>7 DEF OrderInv
  <2>2. OneTakes' /\ TakenSoFar'
    BY <1>2, <2>1 DEF RingHolds, OneTakes, TakenSoFar
  <2>3. \A c \in Consumers : consumer[c].at \in {"move", "reset", "free"} => filled[SlotAt(c)] /\ ~Held(SlotAt(c))
    BY <2>1 DEF RingHolds, TakerHolds, PlaceHolds
  <2>4. SUFFICES WritersAlone' /\ IdsApart' /\ SlotsHold' /\ TakerHolds'
    BY <2>2 DEF RingHolds
  <2>5. CASE Ordered!Enqueue(p)
    <3>1. /\ filled' = filled /\ frame_id' = frame_id /\ data_' = data_ /\ nextId' = nextId + 1
          /\ producer[p].todo = {} /\ producer'[p].todo \in {{}, {"claim"}} /\ producer'[p].id = nextId
          /\ producer'[p].todo # {} => expected_id_ <= nextId
      BY <1>1, <2>5 DEF Ordered!Enqueue, OrderTypes
    <3>2. ~Storing(p) /\ ~Storing(p)' /\ ~Busy(p)
      BY <3>1 DEF Storing, Busy
    <3>3. \A s : Held(s)' <=> Held(s)
      BY <1>4, <3>2 DEF Held
    <3>4. \A s : Complete(s)' <=> Complete(s)
      BY <1>2, <3>1, <3>3 DEF Complete
    <3>5. \A id \in Nat : NotBusy(id) /\ id < nextId => NotBusy(id)' /\ id < nextId'
      BY <1>1, <1>3, <1>4, <3>1 DEF NotBusy, OrderTypes
    <3>6. WritersAlone'
      BY <1>3, <1>4, <2>1, <3>1, <3>2 DEF RingHolds, WritersAlone
    <3>7. IdsApart'
      <4>1. ASSUME NEW q \in Producers, Busy(q)' PROVE Given(producer[q].id)'
        <5>1. CASE q = p
          BY <1>1, <1>2, <3>1, <4>1, <5>1 DEF Given, Busy, OrderTypes
        <5>2. CASE q # p
          BY <1>1, <1>2, <1>3, <1>4, <2>1, <3>1, <4>1, <5>2 DEF RingHolds, IdsApart, Given, OrderTypes
        <5> QED BY <5>1, <5>2
      <4>2. ASSUME NEW q \in Producers \ {p}, Busy(q)' PROVE producer'[q].id # producer'[p].id
        BY <1>1, <1>3, <1>4, <2>1, <3>1, <4>2 DEF RingHolds, IdsApart, Given, OrderTypes
      <4>3. ASSUME NEW q \in Producers, NEW r \in Producers, Busy(q)', Busy(r)',
                   producer'[r].id = producer'[q].id
            PROVE  r = q
        BY <1>3, <1>4, <2>1, <4>2, <4>3 DEF RingHolds, IdsApart
      <4> QED BY <4>1, <4>3 DEF IdsApart
    <3>8. SlotsHold'
      BY <1>1, <1>2, <2>1, <3>1, <3>4, <3>5 DEF RingHolds, SlotsHold, Given, OrderTypes
    <3>9. TakerHolds'
      BY <1>1, <1>2, <2>1, <3>1, <3>3, <3>4, <3>5 DEF RingHolds, TakerHolds, PlaceHolds, OrderTypes
    <3> QED BY <3>6, <3>7, <3>8, <3>9
  <2>6. CASE ~Ordered!Enqueue(p)
    <3>1. /\ nextId' = nextId /\ producer'[p].id = producer[p].id /\ Busy(p) /\ SlotOf(p)' = mine
          /\ Storing(p) => producer[p].todo # {"claim"}
      <4>1. /\ nextId' = nextId
            /\ producer' = producer \/ \E rest : producer' = [producer EXCEPT ![p].todo = rest]
        BY <2>6 DEF Ordered!Claim, Ordered!WriteData, Ordered!WriteId, Ordered!Todo
      <4>2. producer'[p].id = producer[p].id
        BY <1>1, <4>1 DEF OrderTypes
      <4>3. Busy(p)
        BY <2>6 DEF Ordered!Claim, Ordered!WriteData, Ordered!WriteId, Busy
      <4>4. Storing(p) => producer[p].todo # {"claim"}
        BY DEF Storing
      <4> QED BY <4>1, <4>2, <4>3, <4>4 DEF SlotOf
    <3>2. \A q \in Producers : producer'[q].id = producer[q].id /\ SlotOf(q)' = SlotOf(q) /\ (Busy(q)' => Busy(q))
      BY <1>3, <1>4, <3>1
    <3>3. IdsApart' /\ \A id : NotBusy(id) => NotBusy(id)'
      BY <1>2, <2>1, <3>1, <3>2 DEF RingHolds, IdsApart, NotBusy, Given
    <3>4. \A id : Given(id)' <=> Given(id)
      BY <1>2, <3>1 DEF Given
    <3>5. Given(producer[p].id) /\ \A c \in Consumers : Taking(c) => producer[p].id # expected_id_
      BY <2>1, <3>1 DEF RingHolds, IdsApart, TakerHolds, PlaceHolds, NotBusy
    \* What is left of the consumers' side once the slots are known.
    <3>6. ASSUME \A s \in Ordered!Slots \ {mine} : /\ filled'[s] = filled[s] /\ frame_id'[s] = frame_id[s]
                                                   /\ data_'[s] = data_[s],
                 \A s \in Ordered!Slots \ {mine} : Held(s)' <=> Held(s),
                 Complete(mine)' => /\ data_'[mine] = producer[p].id /\ frame_id'[mine] = producer[p].id
                                    /\ ~Busy(p)',
                 \A c \in Consumers : consumer[c].at \in {"move", "reset", "free"} => SlotAt(c) # mine
          PROVE  SlotsHold' /\ TakerHolds'
      <4>1. \A s \in Ordered!Slots \ {mine} : Complete(s)' <=> Complete(s)
        BY <1>2, <3>6 DEF Complete
      <4>2. SlotsHold'
        <5>1. ASSUME NEW s \in Ordered!Slots, Complete(s)', s # mine
              PROVE  (/\ Ordered!Slot(frame_id[s]) = s /\ data_[s] = frame_id[s]
                      /\ Given(frame_id[s]) /\ NotBusy(frame_id[s]))'
          BY <2>1, <3>3, <3>4, <3>6, <4>1, <5>1 DEF RingHolds, SlotsHold
        <5>2. ASSUME Complete(mine)' PROVE NotBusy(producer[p].id)'
          <6>1. SUFFICES ASSUME NEW q \in Producers, Busy(q)', producer'[q].id = producer[p].id PROVE FALSE
            BY <3>1 DEF NotBusy
          <6>2. q = p
            BY <2>1, <3>1, <3>2, <6>1 DEF RingHolds, IdsApart
          <6> QED BY <3>6, <5>2, <6>1, <6>2
        <5>3. Complete(mine)' =>
                /\ Ordered!Slot(frame_id'[mine]) = mine /\ data_'[mine] = frame_id'[mine]
                /\ Given(frame_id[mine])' /\ NotBusy(frame_id[mine])'
          BY <3>1, <3>4, <3>5, <3>6, <5>2 DEF SlotOf
        <5> QED BY <3>1, <5>1, <5>3 DEF SlotsHold
      <4>3. ASSUME NEW c \in Consumers PROVE PlaceHolds(c)'
        <5>1. SlotAt(c) \in Ordered!Slots
          BY <1>1, SlotOfId DEF SlotAt, OrderTypes
        <5>2. /\ consumer[c].at \in {"move", "reset", "free"} =>
                   filled'[SlotAt(c)] /\ ~Held(SlotAt(c))' /\ frame_id'[SlotAt(c)] = frame_id[SlotAt(c)]
          BY <1>2, <2>3, <3>6, <5>1
        <5>3. consumer[c].at = "next" /\ Complete(SlotAt(c))' => frame_id'[SlotAt(c)] # expected_id_
          <6>1. CASE SlotAt(c) = mine
            BY <1>2, <3>1, <3>5, <3>6, <6>1 DEF Taking
          <6>2. CASE SlotAt(c) # mine
            BY <1>2, <2>1, <3>6, <4>1, <5>1, <6>2 DEF RingHolds, TakerHolds, PlaceHolds
          <6> QED BY <6>1, <6>2
        <5> QED BY <1>2, <2>1, <3>1, <3>3, <5>2, <5>3 DEF RingHolds, TakerHolds, PlaceHolds
      <4> QED BY <4>2, <4>3 DEF TakerHolds
    <3>7. CASE Ordered!Claim(p)
      <4>1. frame_id' = frame_id /\ data_' = data_ /\ producer[p].todo = {"claim"} /\ ~Storing(p)
        BY <3>7 DEF Ordered!Claim, Storing
      <4>2. CASE filled' = filled
        <5>1. producer'[p].todo = {} /\ ~Storing(p)'
          <6>1. ~(~filled[mine] /\ filled' = [filled EXCEPT ![mine] = TRUE])
            BY <1>1, <4>2 DEF OrderTypes
          <6>2. producer' = [producer EXCEPT ![p].todo = {}]
            BY <1>7, <3>7, <6>1 DEF Ordered!Claim, Ordered!Todo, SlotOf
          <6> QED BY <1>1, <6>2 DEF OrderTypes, Storing
        <5>2. WritersAlone' /\ \A s : Held(s)' <=> Held(s)
          BY <1>3, <1>4, <2>1, <4>1, <4>2, <5>1 DEF RingHolds, WritersAlone, Held
        <5>3. \A s : Complete(s)' <=> Complete(s)
          BY <1>2, <4>2, <5>2 DEF Complete
        <5>4. SlotsHold'
          BY <2>1, <3>3, <3>4, <4>1, <5>3 DEF RingHolds, SlotsHold
        <5>5. TakerHolds'
          BY <1>2, <2>1, <3>1, <3>3, <4>1, <4>2, <5>2, <5>3 DEF RingHolds, TakerHolds, PlaceHolds
        <5> QED BY <3>3, <5>2, <5>4, <5>5
      <4>3. CASE filled' # filled
        <5>1. /\ ~filled[mine] /\ filled'[mine] /\ producer'[p].todo = {"data", "id"}
              /\ \A s \in Ordered!Slots \ {mine} : filled'[s] = filled[s]
          BY <1>1, <1>7, <3>7, <4>1, <4>3 DEF Ordered!Claim, Ordered!Todo, OrderTypes, SlotOf
        <5>2. Storing(p)' /\ Held(mine)' /\ \A s \in Ordered!Slots \ {mine} : Held(s)' <=> Held(s)
          BY <1>4, <3>1, <4>1, <5>1 DEF Held, Storing
        <5>3. \A q \in Producers : Storing(q) => SlotOf(q) # mine
          BY <2>1, <5>1 DEF RingHolds, WritersAlone
        <5>4. WritersAlone'
          <6>1. \A q \in Producers \ {p} : Storing(q) => filled'[SlotOf(q)]
            BY <1>1, <2>1, <5>1, <5>3 DEF RingHolds, WritersAlone
          <6> QED BY <1>3, <1>4, <2>1, <3>1, <4>1, <5>1, <5>2, <5>3, <6>1 DEF RingHolds, WritersAlone
        <5>5. \A c \in Consumers : consumer[c].at \in {"move", "reset", "free"} => SlotAt(c) # mine
          BY <2>3, <5>1
        <5>6. ~Complete(mine)'
          BY <5>2 DEF Complete
        <5> QED BY <3>3, <3>6, <4>1, <5>1, <5>2, <5>4, <5>5, <5>6
      <4> QED BY <4>2, <4>3
    <3>8. CASE Ordered!WriteData(p) \/ Ordered!WriteId(p)
      <4>1. /\ Storing(p) /\ filled' = filled /\ filled[mine]
            /\ \A s \in Ordered!Slots \ {mine} : frame_id'[s] = frame_id[s] /\ data_'[s] = data_[s]
        BY <1>1, <2>1, <3>8 DEF Ordered!WriteData, Ordered!WriteId, Storing, SlotOf, OrderTypes, RingHolds, WritersAlone
      <4>2. /\ "data" \notin producer'[p].todo => data_'[mine] = producer[p].id
            /\ "id" \notin producer'[p].todo => frame_id'[mine] = producer[p].id
        <5>1. /\ "data" \notin producer[p].todo => data_[mine] = producer[p].id
              /\ "id" \notin producer[p].todo => frame_id[mine] = producer[p].id
          BY <2>1, <4>1 DEF RingHolds, WritersAlone
        <5>2. CASE Ordered!WriteData(p)
          BY <1>1, <5>1, <5>2 DEF Ordered!WriteData, Ordered!Todo, OrderTypes, SlotOf
        <5>3. CASE Ordered!WriteId(p)
          BY <1>1, <5>1, <5>3 DEF Ordered!WriteId, Ordered!Todo, OrderTypes, SlotOf
        <5> QED BY <3>8, <5>2, <5>3
      <4>3. "claim" \notin producer'[p].todo /\ producer'[p].todo \in Works
        <5>1. "claim" \notin producer[p].todo
          BY <1>1, <4>1 DEF Storing, Works
        <5>2. producer'[p].todo \subseteq producer[p].todo
          BY <1>1, <3>8 DEF Ordered!WriteData, Ordered!WriteId, Ordered!Todo, OrderTypes
        <5>3. producer'[p].todo \in Works
          BY <1>6 DEF OrderTypes
        <5> QED BY <5>1, <5>2, <5>3
      <4>4. Storing(p)' <=> Busy(p)'
        BY <4>3 DEF Storing, Busy, Works
      <4>5. Held(mine) /\ \A s \in Ordered!Slots \ {mine} : Held(s)' <=> Held(s)
        BY <1>4, <3>1, <4>1 DEF Held
      <4>6. \A q \in Producers \ {p} : Storing(q) => SlotOf(q) # mine
        BY <2>1, <4>1 DEF RingHolds, WritersAlone
      <4>7. WritersAlone'
        <5>1. \A q \in Producers \ {p} : Storing(q) => /\ data_'[SlotOf(q)] = data_[SlotOf(q)]
                                                       /\ frame_id'[SlotOf(q)] = frame_id[SlotOf(q)]
          BY <1>1, <4>1, <4>6
        <5> QED BY <1>3, <1>4, <2>1, <3>1, <4>1, <4>2, <4>6, <5>1 DEF RingHolds, WritersAlone
      <4>8. Complete(mine)' => data_'[mine] = producer[p].id /\ frame_id'[mine] = producer[p].id /\ ~Busy(p)'
        <5>1. Complete(mine)' => ~Storing(p)'
          BY <3>1 DEF Complete, Held
        <5> QED BY <4>2, <4>4, <5>1 DEF Storing
      <4>9. \A c \in Consumers : consumer[c].at \in {"move", "reset", "free"} => SlotAt(c) # mine
        BY <2>3, <4>5
      <4> QED BY <3>3, <3>6, <4>1, <4>5, <4>7, <4>8, <4>9
    <3> QED BY <2>6, <3>7, <3>8
  <2> QED BY <2>5, <2>6
<1> QED BY <1>2, <1>6, <1>7 DEF OrderInv

(* The frames come out in the order of their ids, each with its own data:   *)
(* for any numbers of producers and consumers, a ring of any size that the  *)
(* constructor makes of at most 1024, and the two stores of a producer in   *)
(* either order; as long as no slot is freed by a producer, and none taken  *)
(* that is not written or that another consumer is emptying, which nothing  *)
(* in the code prevents (orderedQueue.h: enqueue, try_dequeue).             *)
THEOREM FramesInOrder == PartsSpec => []TakenInOrder
<1> DEFINE Inv == part = "ordered" => OrderInv
<1>1. PartsInit => Inv
  BY OrderInit DEF PartsInit
<1>2. OrderInv /\ [Ordered!Next]_orderVars => OrderInv'
  <2> SUFFICES ASSUME OrderInv, [Ordered!Next]_orderVars PROVE OrderInv'
    OBVIOUS
  <2>1. CASE UNCHANGED orderVars
    <3>1. /\ \A p : (Busy(p)' <=> Busy(p)) /\ (Storing(p)' <=> Storing(p)) /\ SlotOf(p)' = SlotOf(p)
          /\ \A s : Held(s)' <=> Held(s)
          /\ \A id : NotBusy(id)' <=> NotBusy(id)
      BY <2>1, ConsumerLeaves DEF orderVars
    <3>2. /\ \A c : SlotAt(c)' = SlotAt(c) /\ (Taking(c)' <=> Taking(c))
          /\ \A id : Given(id)' <=> Given(id)
      BY <2>1 DEF orderVars, SlotAt, Taking, Given
    <3>3. \A s : Complete(s)' <=> Complete(s)
      BY <2>1, <3>1, <3>2 DEF orderVars, Complete
    <3>4. \A c \in Consumers : PlaceHolds(c) => PlaceHolds(c)'
      BY <2>1, <3>1, <3>2, <3>3 DEF orderVars, PlaceHolds
    <3>5. WritersAlone /\ IdsApart => WritersAlone' /\ IdsApart'
      BY <2>1, <3>1, <3>2 DEF orderVars, WritersAlone, IdsApart
    <3>6. SlotsHold => SlotsHold'
      BY <2>1, <3>1, <3>2, <3>3 DEF orderVars, SlotsHold
    <3>7. OneTakes /\ TakerHolds /\ TakenSoFar => OneTakes' /\ TakerHolds' /\ TakenSoFar'
      BY <2>1, <3>2, <3>4 DEF orderVars, OneTakes, TakerHolds, TakenSoFar
    <3>8. OrderTypes'
      BY <2>1 DEF orderVars, OrderInv, OrderTypes
    <3> QED BY <2>1, <3>5, <3>6, <3>7, <3>8 DEF orderVars, OrderInv, RingHolds
  <2> QED BY <2>1, LookStep, TakeStep, ProducerStep DEF Ordered!Next
<1>3. Inv /\ [PartsNext]_partsVars => Inv'
  BY <1>2, PartStays, OrderedAlone
<1>4. Inv => TakenInOrder
  <2> SUFFICES ASSUME OrderInv, policy # "oldest", ~torn, ~shared
               PROVE  \A k \in DOMAIN taken : taken[k] = k - 1
    BY DEF TakenInOrder, Ordered!TakenInOrder
  <2>1. taken \in Seq(Frames) /\ \A k \in 1..Len(taken) : taken[k] = k - 1
    BY DEF OrderInv, OrderTypes, RingHolds, TakenSoFar
  <2> QED BY <2>1
<1> QED BY <1>1, <1>3, <1>4, PTL DEF PartsSpec

-----------------------------------------------------------------------------
(***************************************************************************)
(* The camera.  Four threads of argument: where the capture thread can be  *)
(* while stop() is on its way; what is true of whoever is inside           *)
(* returnBuffer; which memory is there; and, of the buffers that are only  *)
(* given back with their Frames, that one owner hands them to the next.    *)
(***************************************************************************)
LEMMA CameraAlone ==
  ASSUME [PartsNext]_partsVars, part = "camera"
  PROVE  [Camera!Next]_cameraVars
BY DEF PartsNext, partsVars, threadVars, CameraPart, OrderedPart, SafePart, LogPart, DisplayPart,
       UdevPart, MousePart, ParamPart, ServerPart, DmaPart, MemoryPart, ConfigPart, DevicesPart,
       HttpPart, JpegPart, ContextPart

Building == {"new", "opened", "formatted", "requested", "failed"}
Capture == [at : {"top", "wait", "dequeue", "mark", "frame", "drop"}, buf : Buffers \cup {Nil}]

CameraTypes ==
  /\ phase \in Building \cup {"ready", "terminated", "gone"}
  /\ buffers \subseteq Buffers
  /\ phase = "ready" => buffers \in {{}, Buffers}
  /\ running \in BOOLEAN /\ is_destroying \in BOOLEAN /\ thread \in {"none", "alive", "over"}
  /\ cameraCapture \in Capture
  /\ cameraCapture.at \in {"mark", "frame", "drop"} <=> cameraCapture.buf # Nil
  /\ control \in [at : {"idle", "join", "reclaim", "off", "release", "destroy"},
                  todo : SUBSET Buffers, left : Int, dying : BOOLEAN]
  /\ inside \in {Camera!Nobody} \cup [who : {"client", "capture"}, buf : Buffers]
  /\ driver \in [Buffers -> {"user", "queued", "filled"}]
  /\ queued \in [Buffers -> BOOLEAN] /\ frames \in [Buffers -> Nat] /\ lost \subseteq Buffers

\* The capture thread and the calls that start and end it.
ThreadInv ==
  /\ running => thread = "alive" /\ control.at = "idle"
  /\ thread = "alive" /\ ~running /\ phase = "ready" => control.at = "join"
  /\ control.at = "join" => thread # "none"
  /\ control.at \in {"reclaim", "off", "release"} => thread = "none"
  /\ control.at \in {"join", "reclaim", "off", "release"} => is_destroying
  /\ thread = "none" /\ control.at \in {"idle", "destroy"} /\ buffers # {} =>
       \A b \in Buffers : frames[b] = 0

\* Whoever is inside returnBuffer: reclaiming cannot end without it.
InsideInv ==
  /\ inside # Camera!Nobody => inside.buf \in buffers /\ ~queued[inside.buf] /\ phase = "ready"
  /\ inside # Camera!Nobody /\ control.at = "reclaim" => inside.buf \in control.todo
  /\ control.at \in {"off", "release"} => inside = Camera!Nobody

\* What the driver or the capture thread has, has memory.
MemoryIsThere ==
  /\ \A b \in Buffers : driver[b] # "user" \/ Camera!InHands(b) => b \in buffers
  /\ control.at = "release" => ~streaming /\ \A b \in Buffers : driver[b] = "user"
  /\ phase \in Building =>
       /\ control.at = "idle" /\ thread = "none" /\ ~streaming
       /\ \A b \in Buffers : driver[b] = "user" /\ frames[b] = 0

\* The capture loop did not end with an exception, or it is being joined.
Sound == phase \notin {"terminated", "gone"} /\ (thread = "over" => control.at = "join")

Alone(b) ==
  /\ driver[b] # "user" => ~Camera!InHands(b) /\ inside.buf # b /\ frames[b] = 0 /\ b \notin lost
  /\ Camera!InHands(b) => inside.buf # b /\ frames[b] = 0 /\ b \notin lost
  /\ inside.buf = b => frames[b] = 0 /\ b \notin lost
  /\ frames[b] > 0 => b \notin lost /\ frames[b] = 1

\* Its flag does not say queued, until stop() forces the flags: the next
\* return is not taken for a second one.
FlagIsDown(b) ==
  buffers # {} /\ control.at \notin {"off", "release"} =>
    (frames[b] > 0 \/ (Camera!InHands(b) /\ cameraCapture.at = "frame") => ~queued[b])

\* Without a callback a buffer is given back twice.
GivenBack(b) ==
  thread = "alive" /\ cameraCapture.at = "drop" /\ cameraCapture.buf = b =>
    queued[b] \/ b \in lost \/ inside.buf = b

Somewhere(b) ==
  phase = "ready" /\ streaming /\ buffers # {} /\ control.at # "off" =>
    driver[b] # "user" \/ Camera!InHands(b) \/ inside.buf = b \/ frames[b] > 0 \/ b \in lost

Owned(b) == Alone(b) /\ FlagIsDown(b) /\ GivenBack(b) /\ Somewhere(b)

CameraInv ==
  /\ CameraTypes /\ ThreadInv /\ InsideInv /\ MemoryIsThere
  /\ Sound => \A b \in Buffers \ ByHand : Owned(b)

LEMMA CameraInit == Camera!Init => CameraInv
<1> SUFFICES ASSUME Camera!Init PROVE CameraInv
  OBVIOUS
<1> USE CameraAssumption DEF Camera!Init, Camera!Nobody, Camera!Idle
<1>1. CameraTypes
  <2>1. cameraCapture \in Capture /\ cameraCapture.at = "top" /\ cameraCapture.buf = Nil
    BY DEF Capture
  <2>2. control \in [at : {"idle", "join", "reclaim", "off", "release", "destroy"},
                    todo : SUBSET Buffers, left : Int, dying : BOOLEAN]
    OBVIOUS
  <2>3. /\ driver \in [Buffers -> {"user", "queued", "filled"}]
        /\ queued \in [Buffers -> BOOLEAN] /\ frames \in [Buffers -> Nat] /\ lost \subseteq Buffers
    OBVIOUS
  <2>4. /\ phase \in Building \cup {"ready", "terminated", "gone"} /\ phase # "ready"
        /\ buffers \subseteq Buffers
    BY DEF Building
  <2>5. running \in BOOLEAN /\ is_destroying \in BOOLEAN /\ thread \in {"none", "alive", "over"}
    OBVIOUS
  <2>6. inside \in {Camera!Nobody} \cup [who : {"client", "capture"}, buf : Buffers]
    OBVIOUS
  <2> HIDE DEF Camera!Init
  <2> QED BY <2>1, <2>2, <2>3, <2>4, <2>5, <2>6 DEF CameraTypes
<1>2. ThreadInv /\ InsideInv
  BY DEF ThreadInv, InsideInv
<1>3. MemoryIsThere
  BY DEF MemoryIsThere, Camera!InHands
<1>4. \A b \in Buffers : Owned(b)
  BY DEF Owned, Alone, FlagIsDown, GivenBack, Somewhere, Camera!InHands
<1> QED BY <1>1, <1>2, <1>3, <1>4 DEF CameraInv

\* What the invariant looks at.
cameraState == <<phase, buffers, running, is_destroying, thread, cameraCapture, control, inside,
                 driver, streaming, queued, frames, lost>>

LEMMA CameraRests ==
  ASSUME CameraInv, UNCHANGED cameraState
  PROVE  CameraInv'
<1> USE DEF cameraState
<1>1. CameraTypes' /\ ThreadInv' /\ InsideInv'
  BY DEF CameraInv, CameraTypes, ThreadInv, InsideInv
<1>2. MemoryIsThere' /\ (Sound' <=> Sound)
  BY DEF CameraInv, MemoryIsThere, Sound, Camera!InHands
<1>3. ASSUME NEW b \in Buffers, Owned(b) PROVE Owned(b)'
  BY <1>3 DEF Owned, Alone, FlagIsDown, GivenBack, Somewhere, Camera!InHands
<1> QED BY <1>1, <1>2, <1>3 DEF CameraInv

\* While the constructor is at work nothing else is.
LEMMA BuildingStep ==
  ASSUME CameraInv,
         \/ Camera!Open \/ Camera!SetupFormat \/ Camera!RequestBuffers
         \/ \E b \in Buffers : Camera!MapBuffer(b) \/ Camera!AllocateDMABuffer(b)
  PROVE  CameraInv'
<1> DEFINE Built ==
     /\ phase \in Building /\ phase' \in Building \cup {"ready"} /\ buffers' \subseteq Buffers
     /\ phase' = "ready" => buffers' = Buffers
     /\ running' = running /\ is_destroying' = is_destroying /\ thread' = thread
     /\ cameraCapture' = cameraCapture /\ control' = control /\ inside' = inside /\ driver' = driver
     /\ streaming' = streaming /\ queued' = queued /\ frames' = frames /\ lost' = lost
<1>1. Built
  <2>1. buffers \subseteq Buffers
    BY DEF CameraInv, CameraTypes
  <2>2. CASE Camera!Open \/ Camera!SetupFormat \/ Camera!RequestBuffers
    BY <2>1, <2>2 DEF Building, Camera!Open, Camera!SetupFormat, Camera!RequestBuffers, Camera!Stage,
       Camera!traffic
  <2>3. ASSUME NEW b \in Buffers, Camera!MapBuffer(b) \/ Camera!AllocateDMABuffer(b) PROVE Built
    <3>1. PICK failure : Camera!Provide(b, failure)
      BY <2>3, Zenon DEF Camera!MapBuffer, Camera!AllocateDMABuffer
    <3> QED BY <2>1, <3>1 DEF Building, Camera!Provide, Camera!traffic
  <2> QED BY <2>2, <2>3
<1> HIDE DEF Built
<1>2. /\ CameraTypes /\ control.at = "idle" /\ thread = "none" /\ ~streaming
      /\ inside = Camera!Nobody /\ \A b \in Buffers : driver[b] = "user" /\ frames[b] = 0
  BY <1>1 DEF Built, CameraInv, MemoryIsThere, InsideInv, Building
<1> USE DEF Built
<1>3. CameraTypes'
  BY <1>1, <1>2 DEF CameraTypes
<1>4. ThreadInv'
  BY <1>1, <1>2 DEF CameraInv, ThreadInv
<1>5. InsideInv'
  BY <1>1, <1>2 DEF CameraInv, InsideInv
<1>6. MemoryIsThere'
  BY <1>1, <1>2 DEF MemoryIsThere, Camera!InHands
<1>7. ASSUME NEW b \in Buffers \ ByHand PROVE Owned(b)'
  <2>1. inside.buf = Nil /\ b # Nil
    BY <1>2, CameraAssumption DEF Camera!Nobody
  <2> QED BY <1>1, <1>2, <2>1 DEF Owned, Alone, FlagIsDown, GivenBack, Somewhere, Camera!InHands
<1> QED BY <1>3, <1>4, <1>5, <1>6, <1>7 DEF CameraInv

\* External: the driver fills a buffer.
LEMMA DriverStep ==
  ASSUME CameraInv, NEW c \in Buffers, Camera!DriverFills(c)
  PROVE  CameraInv'
<1>1. /\ driver[c] = "queued" /\ driver' = [driver EXCEPT ![c] = "filled"] /\ streaming /\ streaming' = streaming
      /\ phase' = phase /\ buffers' = buffers /\ running' = running /\ is_destroying' = is_destroying
      /\ thread' = thread /\ cameraCapture' = cameraCapture /\ control' = control /\ inside' = inside
      /\ queued' = queued /\ frames' = frames /\ lost' = lost
  BY DEF Camera!DriverFills, Camera!object
<1>2. CameraTypes
  BY DEF CameraInv
<1>3. \A b \in Buffers : driver'[b] # "user" <=> driver[b] # "user"
  BY <1>1, <1>2 DEF CameraTypes
<1>4. CameraTypes' /\ ThreadInv' /\ InsideInv'
  BY <1>1 DEF CameraInv, CameraTypes, ThreadInv, InsideInv
<1>5. MemoryIsThere' /\ (Sound' <=> Sound)
  BY <1>1, <1>3 DEF CameraInv, MemoryIsThere, Sound, Camera!InHands
<1>6. ASSUME NEW b \in Buffers, Owned(b) PROVE Owned(b)'
  BY <1>1, <1>3, <1>6 DEF Owned, Alone, FlagIsDown, GivenBack, Somewhere, Camera!InHands
<1> QED BY <1>4, <1>5, <1>6 DEF CameraInv

\* enqueueBuffer, at the end of returnBuffer.
LEMMA EnqueueStep ==
  ASSUME CameraInv, Camera!EnqueueBuffer
  PROVE  CameraInv'
<1> DEFINE c == inside.buf
<1>1. /\ inside # Camera!Nobody /\ inside' = Camera!Nobody /\ streaming' = streaming
      /\ phase' = phase /\ buffers' = buffers /\ running' = running /\ is_destroying' = is_destroying
      /\ thread' = thread /\ cameraCapture' = cameraCapture /\ control' = control /\ frames' = frames
  BY DEF Camera!EnqueueBuffer, Camera!object, Camera!mutexFree
<1>2. CameraTypes /\ c \in Buffers /\ c \in buffers /\ ~queued[c] /\ phase = "ready"
      /\ control.at \notin {"off", "release"}
  BY <1>1 DEF CameraInv, CameraTypes, InsideInv
<1>3. \/ /\ driver[c] = "user" /\ driver' = [driver EXCEPT ![c] = "queued"]
         /\ queued' = [queued EXCEPT ![c] = TRUE] /\ lost' = lost
      \/ /\ driver' = driver /\ queued' = [queued EXCEPT ![c] = FALSE]
         /\ lost' = IF driver[c] = "user" THEN lost \cup {c} ELSE lost
  BY DEF Camera!EnqueueBuffer
<1>4. CameraTypes'
  <2>1. driver' \in [Buffers -> {"user", "queued", "filled"}] /\ queued' \in [Buffers -> BOOLEAN]
        /\ lost' \subseteq Buffers
    BY <1>2, <1>3 DEF CameraTypes
  <2> QED BY <1>1, <1>2, <2>1 DEF CameraTypes
<1>5. ThreadInv' /\ InsideInv'
  BY <1>1 DEF CameraInv, ThreadInv, InsideInv
<1>6. MemoryIsThere' /\ (Sound' <=> Sound)
  BY <1>1, <1>2, <1>3 DEF CameraInv, CameraTypes, MemoryIsThere, Sound, Camera!InHands, Building
<1>7. ASSUME NEW b \in Buffers, Owned(b) PROVE Owned(b)'
  <2>1. inside'.buf # b /\ (Camera!InHands(b)' <=> Camera!InHands(b))
    BY <1>1, CameraAssumption DEF Camera!Nobody, Camera!InHands
  <2>2. CASE b # c
    <3>1. driver'[b] = driver[b] /\ queued'[b] = queued[b] /\ (b \in lost' <=> b \in lost)
      BY <1>2, <1>3, <2>2 DEF CameraTypes
    <3> QED BY <1>1, <1>7, <2>1, <2>2, <3>1 DEF Owned, Alone, FlagIsDown, GivenBack, Somewhere
  <2>3. CASE b = c
    <3>1. driver[b] = "user" /\ ~Camera!InHands(b) /\ frames[b] = 0 /\ b \notin lost
      BY <1>2, <1>7, <2>3 DEF Owned, Alone, CameraTypes
    <3>2. \/ driver'[b] = "queued" /\ queued'[b] /\ b \notin lost'
          \/ driver'[b] = "user" /\ b \in lost'
      BY <1>2, <1>3, <2>3, <3>1 DEF CameraTypes
    <3> QED BY <1>1, <2>1, <3>1, <3>2 DEF Owned, Alone, FlagIsDown, GivenBack, Somewhere
  <2> QED BY <2>2, <2>3
<1> QED BY <1>4, <1>5, <1>6, <1>7 DEF CameraInv

\* What returnBuffer does to the buffer it is called for.
LEMMA ReturnEffect ==
  ASSUME CameraInv, NEW who \in {"client", "capture"}, NEW c \in Buffers, Camera!EnterReturn(who, c)
  PROVE  /\ inside = Camera!Nobody /\ inside.buf = Nil /\ lost' \subseteq Buffers
         /\ inside' \in {Camera!Nobody} \cup [who : {"client", "capture"}, buf : Buffers]
         /\ \A b \in Buffers \ {c} : inside'.buf # b /\ (b \in lost' <=> b \in lost)
         /\ \/ /\ inside' = [who |-> who, buf |-> c] /\ c \in buffers /\ ~queued[c] /\ ~is_destroying
               /\ inside'.buf = c /\ inside' # Camera!Nobody /\ c \notin lost'
            \/ inside' = inside /\ queued[c] /\ lost' = lost
            \/ inside' = inside /\ ~queued[c] /\ lost' = lost \cup {c}
<1>1. inside = Camera!Nobody /\ Camera!Nobody.buf = Nil /\ lost \subseteq Buffers /\ c # Nil
  BY CameraAssumption DEF Camera!EnterReturn, Camera!mutexFree, Camera!Nobody, CameraInv, CameraTypes
<1>2. CASE Camera!Accepts(c)
  BY <1>1, <1>2 DEF Camera!EnterReturn, Camera!Accepts
<1>3. CASE ~Camera!Accepts(c)
  <2>1. inside' = inside /\ lost' = IF queued[c] THEN lost ELSE lost \cup {c}
    BY <1>3 DEF Camera!EnterReturn
  <2> QED BY <1>1, <2>1, CameraAssumption
<1> QED BY <1>2, <1>3

LEMMA ClientStep ==
  ASSUME CameraInv, NEW c \in Buffers, Camera!DropFrame(c) \/ Camera!ReturnByHand(c)
  PROVE  CameraInv'
<1>1. /\ phase = "ready" /\ phase' = phase /\ buffers' = buffers /\ running' = running
      /\ is_destroying' = is_destroying /\ thread' = thread /\ cameraCapture' = cameraCapture
      /\ control' = control /\ driver' = driver /\ streaming' = streaming /\ queued' = queued
      /\ Camera!EnterReturn("client", c)
  BY DEF Camera!DropFrame, Camera!ReturnByHand, Camera!object
<1>2. \/ c \in ByHand /\ frames' = frames
      \/ frames[c] > 0 /\ frames' = [frames EXCEPT ![c] = @ - 1]
  BY DEF Camera!DropFrame, Camera!ReturnByHand
<1>3. /\ inside = Camera!Nobody /\ inside.buf = Nil /\ lost' \subseteq Buffers
      /\ inside' \in {Camera!Nobody} \cup [who : {"client", "capture"}, buf : Buffers]
      /\ \A b \in Buffers \ {c} : inside'.buf # b /\ (b \in lost' <=> b \in lost)
      /\ \/ /\ inside' = [who |-> "client", buf |-> c] /\ c \in buffers /\ ~queued[c] /\ ~is_destroying
            /\ inside'.buf = c /\ inside' # Camera!Nobody /\ c \notin lost'
         \/ inside' = inside /\ queued[c] /\ lost' = lost
         \/ inside' = inside /\ ~queued[c] /\ lost' = lost \cup {c}
  BY <1>1, ReturnEffect
<1>4. CameraTypes /\ frames' \in [Buffers -> Nat] /\ \A b \in Buffers \ {c} : frames'[b] = frames[b]
  BY <1>2 DEF CameraInv, CameraTypes
<1>5. CameraTypes'
  BY <1>1, <1>3, <1>4 DEF CameraTypes
<1>6. ThreadInv'
  BY <1>1, <1>2, <1>4 DEF CameraInv, ThreadInv, CameraTypes
<1>7. InsideInv'
  BY <1>1, <1>3 DEF CameraInv, InsideInv, ThreadInv
<1>8. MemoryIsThere' /\ (Sound' <=> Sound)
  BY <1>1 DEF CameraInv, MemoryIsThere, Sound, Camera!InHands, Building
<1>9. ASSUME NEW b \in Buffers \ ByHand, Owned(b) PROVE Owned(b)'
  <2>1. Camera!InHands(b)' <=> Camera!InHands(b)
    BY <1>1 DEF Camera!InHands
  <2>2. CASE b # c
    BY <1>1, <1>3, <1>4, <1>9, <2>1, <2>2, CameraAssumption
       DEF Owned, Alone, FlagIsDown, GivenBack, Somewhere
  <2>3. CASE b = c
    <3>1. frames[b] = 1 /\ frames'[b] = 0 /\ driver[b] = "user" /\ ~Camera!InHands(b) /\ b \notin lost
      BY <1>2, <1>4, <1>9, <2>3 DEF Owned, Alone, CameraTypes
    <3>2. FlagIsDown(b) /\ GivenBack(b) /\ inside.buf # b
      BY <1>3, <1>9, CameraAssumption DEF Owned
    <3>3. Alone(b)'
      BY <1>1, <1>3, <2>1, <2>3, <3>1, CameraAssumption DEF Alone
    <3>4. FlagIsDown(b)' /\ GivenBack(b)'
      BY <1>1, <1>3, <2>1, <2>3, <3>1, <3>2 DEF FlagIsDown, GivenBack
    <3>5. Somewhere(b)'
      <4>1. CASE control.at = "release"
        BY <1>1, <4>1 DEF CameraInv, MemoryIsThere, Somewhere
      <4>2. CASE control.at # "release"
        BY <1>1, <1>3, <2>1, <2>3, <3>1, <3>2, <4>2 DEF Somewhere, FlagIsDown
      <4> QED BY <4>1, <4>2
    <3> QED BY <3>3, <3>4, <3>5 DEF Owned
  <2> QED BY <2>2, <2>3
<1> QED BY <1>5, <1>6, <1>7, <1>8, <1>9 DEF CameraInv

\* start(): every buffer that is with the program is offered to the driver.
LEMMA StartStep ==
  ASSUME CameraInv, Camera!Start
  PROVE  CameraInv'
<1>1. /\ phase = "ready" /\ control.at = "idle" /\ ~running /\ inside = Camera!Nobody
      /\ buffers' = buffers /\ is_destroying' = is_destroying /\ control' = control
      /\ inside' = inside /\ frames' = frames
  BY DEF Camera!Start, Camera!Callable, Camera!StartStreaming, Camera!mutexFree
<1>2. PICK ok \in SUBSET {b \in buffers : driver[b] = "user"} :
        /\ queued' = [b \in Buffers |-> IF b \in buffers THEN b \in ok ELSE queued[b]]
        /\ driver' = [b \in Buffers |-> IF b \in ok THEN "queued" ELSE driver[b]]
        /\ lost' = (lost \ ok) \cup {b \in buffers \ ok : driver[b] = "user" /\ frames[b] = 0}
  BY DEF Camera!Start, Camera!StartStreaming
<1>3. \/ /\ running' = TRUE /\ thread' = "alive" /\ cameraCapture' = Camera!Idle
         /\ phase' = IF thread = "none" THEN phase ELSE "terminated"
      \/ /\ streaming' = streaming /\ running' = running /\ thread' = thread
         /\ cameraCapture' = cameraCapture /\ phase' = phase
  BY DEF Camera!Start
<1>4. CameraTypes /\ thread # "alive" /\ ok \subseteq buffers /\ inside.buf = Nil
  BY <1>1, <1>2 DEF CameraInv, ThreadInv, Camera!Nobody
<1>5. CameraTypes'
  <2>1. driver' \in [Buffers -> {"user", "queued", "filled"}] /\ queued' \in [Buffers -> BOOLEAN]
        /\ lost' \subseteq Buffers
    <3>1. driver \in [Buffers -> {"user", "queued", "filled"}] /\ queued \in [Buffers -> BOOLEAN]
          /\ lost \subseteq Buffers /\ buffers \subseteq Buffers
      BY <1>4 DEF CameraTypes
    <3>2. driver' \in [Buffers -> {"user", "queued", "filled"}]
      BY <1>2, <3>1
    <3>3. queued' \in [Buffers -> BOOLEAN]
      <4>1. \A b \in Buffers : queued[b] \in BOOLEAN
        BY <3>1
      <4>2. \A b \in Buffers : (b \in ok) \in BOOLEAN
        <5> TAKE b \in Buffers
        <5>1. CASE b \in ok
          BY <5>1, Zenon
        <5>2. CASE b \notin ok
          <6>1. (b \in ok) = FALSE
            BY <5>2
          <6> QED BY <6>1
        <5> QED BY <5>1, <5>2, Zenon
      <4>3. \A b \in Buffers : (IF b \in buffers THEN b \in ok ELSE queued[b]) \in BOOLEAN
        BY <4>1, <4>2, Zenon
      <4> QED BY <1>2, <4>3, Zenon
    <3>4. lost' \subseteq Buffers
      BY <1>2, <3>1
    <3> QED BY <3>2, <3>3, <3>4
  <2>2. /\ cameraCapture' \in Capture
        /\ cameraCapture'.at \in {"mark", "frame", "drop"} <=> cameraCapture'.buf # Nil
    BY <1>3, <1>4 DEF CameraTypes, Capture, Camera!Idle
  <2> QED BY <1>1, <1>3, <1>4, <2>1, <2>2 DEF CameraTypes
<1>6. ThreadInv'
  BY <1>1, <1>3, <1>4 DEF CameraInv, ThreadInv
<1>7. InsideInv'
  BY <1>1 DEF CameraInv, InsideInv
<1>8. ~Camera!InHands(Nil)' /\ \A b \in Buffers : ~Camera!InHands(b)' /\ ~Camera!InHands(b)
  BY <1>3, <1>4 DEF Camera!InHands, Camera!Idle
<1>9. MemoryIsThere'
  BY <1>1, <1>2, <1>3, <1>4, <1>8 DEF CameraInv, CameraTypes, MemoryIsThere, Building
<1>10. ASSUME Sound', NEW b \in Buffers \ ByHand PROVE Owned(b)'
  <2>1. thread = "none" /\ Sound
    BY <1>1, <1>3, <1>4, <1>10 DEF Sound, CameraTypes
  <2>2. Owned(b) /\ b # Nil
    BY <2>1, CameraAssumption DEF CameraInv
  <2>3. CASE buffers = {}
    <3>1. queued'[b] = queued[b] /\ driver'[b] = driver[b] /\ (b \in lost' <=> b \in lost)
      BY <1>2, <1>4, <2>3 DEF CameraTypes
    <3>2. Alone(b)'
      BY <1>1, <1>8, <2>2, <3>1 DEF Owned, Alone
    <3>3. ~(thread' = "alive" /\ cameraCapture'.at = "drop")
      BY <1>3, <1>4 DEF Camera!Idle
    <3> QED BY <1>1, <2>3, <3>2, <3>3 DEF Owned, FlagIsDown, GivenBack, Somewhere
  <2>4. CASE buffers # {}
    <3>1. buffers = Buffers /\ frames[b] = 0
      BY <1>1, <1>4, <2>1, <2>4 DEF CameraInv, CameraTypes, ThreadInv
    <3>2. \/ driver'[b] # "user" /\ b \notin lost'
          \/ driver'[b] = "user" /\ b \in lost'
      BY <1>2, <1>4, <2>2, <3>1 DEF CameraTypes, Owned, Alone
    <3>3. ~(thread' = "alive" /\ cameraCapture'.at = "drop")
      BY <1>3, <1>4 DEF Camera!Idle
    <3> QED BY <1>1, <1>4, <1>8, <2>2, <3>1, <3>2, <3>3
            DEF Owned, Alone, FlagIsDown, GivenBack, Somewhere
  <2> QED BY <2>3, <2>4
<1> QED BY <1>5, <1>6, <1>7, <1>9, <1>10 DEF CameraInv

\* The calls of stop() that touch no buffer.
LEMMA StopSteps ==
  ASSUME CameraInv,
         \/ Camera!Stop \/ Camera!StopJoin \/ Camera!ReclaimAgain \/ Camera!Destroy
         \/ \E b \in Buffers : Camera!ReclaimOne(b)
  PROVE  CameraInv'
<1>1. /\ buffers' = buffers /\ cameraCapture' = cameraCapture /\ inside' = inside /\ driver' = driver
      /\ streaming' = streaming /\ queued' = queued /\ frames' = frames /\ lost' = lost
  BY DEF Camera!Stop, Camera!StopJoin, Camera!ReclaimAgain, Camera!Destroy, Camera!ReclaimOne,
         Camera!traffic, Camera!object
<1>2. CameraTypes
  BY DEF CameraInv
<1>3. ASSUME NEW b \in Buffers,
             Camera!InHands(b)' <=> Camera!InHands(b), thread' = "alive" => thread = "alive",
             phase' = "ready" => phase = "ready",
             control'.at \notin {"off", "release"}, control.at \notin {"off", "release"}, Owned(b)
      PROVE  Owned(b)'
  BY <1>1, <1>3 DEF Owned, Alone, FlagIsDown, GivenBack, Somewhere
<1>4. CASE Camera!Stop
  <2>1. /\ phase = "ready" /\ phase' = phase /\ thread' = thread /\ control.at = "idle"
        /\ is_destroying' = TRUE /\ control'.at \in {"join", "destroy", "idle"}
        /\ control' \in [at : {"idle", "join", "reclaim", "off", "release", "destroy"},
                         todo : SUBSET Buffers, left : Int, dying : BOOLEAN]
        /\ (control'.at = "join" <=> running) /\ running' = FALSE
    BY <1>2, <1>4 DEF Camera!Stop, Camera!Callable, CameraTypes
  <2>2. CameraTypes'
    BY <1>1, <1>2, <2>1 DEF CameraTypes
  <2>3. ThreadInv'
    BY <1>1, <2>1 DEF CameraInv, ThreadInv
  <2>4. InsideInv' /\ MemoryIsThere'
    BY <1>1, <2>1 DEF CameraInv, InsideInv, MemoryIsThere, Camera!InHands, Building
  <2>5. Sound' => Sound
    BY <2>1 DEF CameraInv, ThreadInv, Sound
  <2>6. \A b : Camera!InHands(b)' <=> Camera!InHands(b)
    BY <1>1, <2>1 DEF Camera!InHands
  <2>7. ASSUME NEW b \in Buffers, Owned(b) PROVE Owned(b)'
    BY <1>3, <2>1, <2>6, <2>7
  <2> QED BY <2>2, <2>3, <2>4, <2>5, <2>7 DEF CameraInv
<1>5. CASE Camera!StopJoin
  <2>1. /\ control.at = "join" /\ thread # "alive" /\ thread' = "none" /\ control'.at = "reclaim"
        /\ control'.todo = buffers /\ phase' = phase /\ running' = running
        /\ is_destroying' = is_destroying
        /\ control' \in [at : {"idle", "join", "reclaim", "off", "release", "destroy"},
                         todo : SUBSET Buffers, left : Int, dying : BOOLEAN]
    <3>1. control' = [control EXCEPT !.at = "reclaim", !.todo = buffers, !.left = Attempts - 1]
      BY <1>5 DEF Camera!StopJoin
    <3>2. Attempts - 1 \in Int /\ buffers \subseteq Buffers
      BY <1>2, CameraAssumption DEF CameraTypes
    <3>3. /\ control'.at = "reclaim" /\ control'.todo = buffers
          /\ control' \in [at : {"idle", "join", "reclaim", "off", "release", "destroy"},
                           todo : SUBSET Buffers, left : Int, dying : BOOLEAN]
      BY <1>2, <3>1, <3>2 DEF CameraTypes
    <3> QED BY <1>5, <3>3 DEF Camera!StopJoin
  <2>2. CameraTypes'
    BY <1>1, <1>2, <2>1 DEF CameraTypes
  <2>3. ThreadInv'
    BY <1>1, <2>1 DEF CameraInv, ThreadInv
  <2>4. InsideInv' /\ MemoryIsThere'
    BY <1>1, <2>1 DEF CameraInv, InsideInv, MemoryIsThere, Camera!InHands, Building
  <2>5. Sound' => Sound
    BY <2>1 DEF Sound
  <2>6. \A b : Camera!InHands(b)' <=> Camera!InHands(b)
    BY <1>1, <2>1 DEF Camera!InHands
  <2>7. ASSUME NEW b \in Buffers, Owned(b) PROVE Owned(b)'
    BY <1>3, <2>1, <2>6, <2>7
  <2> QED BY <2>2, <2>3, <2>4, <2>5, <2>7 DEF CameraInv
<1>6. CASE Camera!ReclaimAgain \/ \E b \in Buffers : Camera!ReclaimOne(b)
  <2>1. /\ control.at = "reclaim" /\ control'.at = "reclaim" /\ thread' = thread /\ phase' = phase
        /\ running' = running /\ is_destroying' = is_destroying
        /\ control' \in [at : {"idle", "join", "reclaim", "off", "release", "destroy"},
                         todo : SUBSET Buffers, left : Int, dying : BOOLEAN]
    <3>1. CASE Camera!ReclaimAgain
      <4>1. control' = [control EXCEPT !.todo = buffers, !.left = @ - 1] /\ control.at = "reclaim"
        BY <3>1 DEF Camera!ReclaimAgain
      <4>2. control.left - 1 \in Int /\ buffers \subseteq Buffers
        BY <1>2 DEF CameraTypes
      <4> QED BY <1>2, <3>1, <4>1, <4>2 DEF Camera!ReclaimAgain, Camera!object, CameraTypes
    <3>2. ASSUME NEW b \in Buffers, Camera!ReclaimOne(b)
          PROVE  /\ control.at = "reclaim" /\ control'.at = "reclaim" /\ UNCHANGED Camera!object
                 /\ control' \in [at : {"idle", "join", "reclaim", "off", "release", "destroy"},
                                  todo : SUBSET Buffers, left : Int, dying : BOOLEAN]
      BY <1>2, <3>2 DEF Camera!ReclaimOne, CameraTypes
    <3> QED BY <1>6, <3>1, <3>2 DEF Camera!object
  <2>2. CameraTypes'
    BY <1>1, <1>2, <2>1 DEF CameraTypes
  <2>3. ThreadInv' /\ MemoryIsThere'
    BY <1>1, <2>1 DEF CameraInv, ThreadInv, MemoryIsThere, Camera!InHands, Building
  <2>4. InsideInv'
    <3>1. inside # Camera!Nobody => inside.buf \in control'.todo
      <4>1. inside # Camera!Nobody => inside.buf \in control.todo /\ inside.buf \in buffers /\ ~queued[inside.buf]
        BY <2>1 DEF CameraInv, InsideInv
      <4>2. CASE Camera!ReclaimAgain
        BY <1>2, <4>1, <4>2 DEF Camera!ReclaimAgain, CameraTypes
      <4>3. ASSUME NEW b \in Buffers, Camera!ReclaimOne(b)
            PROVE  inside # Camera!Nobody => inside.buf \in control'.todo
        <5>1. (queued[b] \/ inside = Camera!Nobody) /\ control' = [control EXCEPT !.todo = @ \ {b}]
          BY <4>3 DEF Camera!ReclaimOne, Camera!mutexFree
        <5> QED BY <1>2, <4>1, <5>1 DEF CameraTypes
      <4> QED BY <1>6, <4>2, <4>3
    <3> QED BY <1>1, <2>1, <3>1 DEF CameraInv, InsideInv
  <2>5. Sound' => Sound
    BY <2>1 DEF Sound
  <2>6. \A b : Camera!InHands(b)' <=> Camera!InHands(b)
    BY <1>1, <2>1 DEF Camera!InHands
  <2>7. ASSUME NEW b \in Buffers, Owned(b) PROVE Owned(b)'
    BY <1>3, <2>1, <2>6, <2>7
  <2> QED BY <2>2, <2>3, <2>4, <2>5, <2>7 DEF CameraInv
<1>7. CASE Camera!Destroy
  <2>1. /\ control.at = "destroy" /\ inside = Camera!Nobody /\ phase' \in {"gone", "terminated"}
        /\ control'.at = "idle" /\ thread' = thread /\ running' = running
        /\ is_destroying' = is_destroying
        /\ control' \in [at : {"idle", "join", "reclaim", "off", "release", "destroy"},
                         todo : SUBSET Buffers, left : Int, dying : BOOLEAN]
    BY <1>2, <1>7 DEF Camera!Destroy, Camera!mutexFree, CameraTypes
  <2>2. CameraTypes'
    BY <1>1, <1>2, <2>1 DEF CameraTypes
  <2>3. ThreadInv' /\ InsideInv'
    BY <1>1, <2>1 DEF CameraInv, ThreadInv, InsideInv
  <2>4. MemoryIsThere'
    BY <1>1, <2>1 DEF CameraInv, MemoryIsThere, Camera!InHands, Building
  <2> QED BY <2>1, <2>2, <2>3, <2>4 DEF CameraInv, Sound
<1> QED BY <1>4, <1>5, <1>6, <1>7

\* The calls of stop() that take the buffers away.
LEMMA ReleaseSteps ==
  ASSUME CameraInv, Camera!ReclaimDone \/ Camera!StreamOff \/ Camera!ReleaseBuffers
  PROVE  CameraInv'
<1>1. /\ phase' = phase /\ running' = running /\ is_destroying' = is_destroying /\ thread' = thread
      /\ cameraCapture' = cameraCapture /\ inside' = inside /\ frames' = frames /\ lost' = lost
      /\ \A b : Camera!InHands(b)' <=> Camera!InHands(b)
  BY DEF Camera!ReclaimDone, Camera!StreamOff, Camera!ReleaseBuffers, Camera!traffic, Camera!object,
         Camera!InHands
<1>2. CameraTypes /\ thread = "none" /\ \A b : ~Camera!InHands(b)
  BY DEF CameraInv, ThreadInv, Camera!ReclaimDone, Camera!StreamOff, Camera!ReleaseBuffers, Camera!InHands
<1>3. Sound' <=> Sound
  BY <1>1, <1>2 DEF Sound
<1>4. CASE Camera!ReclaimDone
  <2>1. /\ control.at = "reclaim" /\ control.todo = {} /\ control' = [control EXCEPT !.at = "off"]
        /\ buffers' = buffers /\ driver' = driver /\ streaming' = streaming
        /\ queued' = [b \in Buffers |-> b \in buffers \/ queued[b]]
    BY <1>4 DEF Camera!ReclaimDone, Camera!object
  <2>2. control'.at = "off" /\ control' \in [at : {"idle", "join", "reclaim", "off", "release", "destroy"},
                         todo : SUBSET Buffers, left : Int, dying : BOOLEAN]
    BY <1>2, <2>1 DEF CameraTypes
  <2>3. queued' \in [Buffers -> BOOLEAN]
    <3>1. \A b \in Buffers : (b \in buffers \/ queued[b]) \in BOOLEAN
      BY Zenon
    <3> QED BY <2>1, <3>1, Zenon
  <2>4. CameraTypes'
    BY <1>1, <1>2, <2>1, <2>2, <2>3 DEF CameraTypes
  <2>5. inside = Camera!Nobody
    BY <2>1 DEF CameraInv, InsideInv
  <2>6. ThreadInv' /\ InsideInv'
    BY <1>1, <1>2, <2>1, <2>2, <2>5 DEF CameraInv, ThreadInv, InsideInv
  <2>7. MemoryIsThere'
    BY <1>1, <2>1, <2>2 DEF CameraInv, MemoryIsThere, Building
  <2>8. ASSUME NEW b \in Buffers, Owned(b) PROVE Owned(b)'
    BY <1>1, <1>2, <2>1, <2>2, <2>8 DEF Owned, Alone, FlagIsDown, GivenBack, Somewhere
  <2> QED BY <1>3, <2>4, <2>6, <2>7, <2>8 DEF CameraInv
<1>5. CASE Camera!StreamOff
  <2>1. /\ control.at = "off" /\ control' = [control EXCEPT !.at = "release"] /\ ~streaming'
        /\ buffers' = buffers /\ queued' = queued /\ driver' = [b \in Buffers |-> "user"]
    BY <1>5 DEF Camera!StreamOff, Camera!object
  <2>2. control'.at = "release" /\ control' \in [at : {"idle", "join", "reclaim", "off", "release", "destroy"},
                         todo : SUBSET Buffers, left : Int, dying : BOOLEAN]
    BY <1>2, <2>1 DEF CameraTypes
  <2>3. CameraTypes'
    BY <1>1, <1>2, <2>1, <2>2 DEF CameraTypes
  <2>4. ThreadInv' /\ InsideInv'
    BY <1>1, <1>2, <2>1, <2>2 DEF CameraInv, ThreadInv, InsideInv
  <2>5. MemoryIsThere'
    BY <1>1, <1>2, <2>1, <2>2 DEF CameraInv, MemoryIsThere, Building
  <2>6. ASSUME NEW b \in Buffers, Owned(b) PROVE Owned(b)'
    BY <1>1, <1>2, <2>1, <2>2, <2>6 DEF Owned, Alone, FlagIsDown, GivenBack, Somewhere
  <2> QED BY <1>3, <2>3, <2>4, <2>5, <2>6 DEF CameraInv
<1>6. CASE Camera!ReleaseBuffers
  <2>1. /\ control.at = "release" /\ buffers' = {} /\ queued' = queued /\ driver' = driver
        /\ streaming' = streaming
        /\ control' = [control EXCEPT !.at = IF control.dying THEN "destroy" ELSE "idle"]
    BY <1>6 DEF Camera!ReleaseBuffers, Camera!traffic
  <2>2. control'.at \in {"destroy", "idle"} /\ control' \in [at : {"idle", "join", "reclaim", "off", "release", "destroy"},
                         todo : SUBSET Buffers, left : Int, dying : BOOLEAN]
    BY <1>2, <2>1 DEF CameraTypes
  <2>3. CameraTypes'
    BY <1>1, <1>2, <2>1, <2>2 DEF CameraTypes
  <2>4. ThreadInv' /\ InsideInv'
    BY <1>1, <1>2, <2>1, <2>2 DEF CameraInv, ThreadInv, InsideInv
  <2>5. MemoryIsThere'
    BY <1>1, <1>2, <2>1, <2>2 DEF CameraInv, MemoryIsThere, Building
  <2>6. ASSUME NEW b \in Buffers, Owned(b) PROVE Owned(b)'
    BY <1>1, <1>2, <2>1, <2>2, <2>6 DEF Owned, Alone, FlagIsDown, GivenBack, Somewhere
  <2> QED BY <1>3, <2>3, <2>4, <2>5, <2>6 DEF CameraInv
<1> QED BY <1>4, <1>5, <1>6

\* The capture thread, while it has no buffer.
LEMMA WaitingStep ==
  ASSUME CameraInv, Camera!CaptureTop \/ Camera!CaptureWait
  PROVE  CameraInv'
<1>1. /\ phase = "ready" /\ thread = "alive" /\ cameraCapture.at \in {"top", "wait"}
      /\ phase' = phase /\ buffers' = buffers /\ running' = running /\ is_destroying' = is_destroying
      /\ control' = control /\ inside' = inside /\ driver' = driver /\ streaming' = streaming
      /\ queued' = queued /\ frames' = frames /\ lost' = lost
  BY DEF Camera!CaptureTop, Camera!CaptureWait, Camera!Capturing, Camera!traffic, Camera!object
<1>2. \/ thread' = "over" /\ ~running /\ cameraCapture' = cameraCapture
      \/ thread' = thread /\ \E spot \in {"top", "wait", "dequeue"} : cameraCapture' = [cameraCapture EXCEPT !.at = spot]
  BY DEF Camera!CaptureTop, Camera!CaptureWait, Camera!object
<1>3. CameraTypes
  BY DEF CameraInv
<1>4. cameraCapture' \in Capture /\ cameraCapture'.at \in {"top", "wait", "dequeue"} /\ cameraCapture'.buf = Nil
  BY <1>1, <1>2, <1>3 DEF CameraTypes, Capture
<1>5. CameraTypes'
  BY <1>1, <1>2, <1>3, <1>4 DEF CameraTypes
<1>6. ThreadInv' /\ InsideInv'
  BY <1>1, <1>2 DEF CameraInv, ThreadInv, InsideInv
<1>7. \A b : ~Camera!InHands(b)' /\ ~Camera!InHands(b)
  BY <1>1, <1>4 DEF Camera!InHands
<1>8. MemoryIsThere'
  BY <1>1, <1>7 DEF CameraInv, MemoryIsThere, Building
<1>9. Sound' => Sound
  BY <1>1 DEF Sound
<1>10. ASSUME NEW b \in Buffers, Owned(b) PROVE Owned(b)'
  BY <1>1, <1>4, <1>7, <1>10 DEF Owned, Alone, FlagIsDown, GivenBack, Somewhere
<1> QED BY <1>5, <1>6, <1>8, <1>9, <1>10 DEF CameraInv

LEMMA DequeueStep ==
  ASSUME CameraInv, Camera!CaptureDequeue
  PROVE  CameraInv'
<1>1. PICK c \in Buffers :
        /\ driver[c] = "filled" /\ driver' = [driver EXCEPT ![c] = "user"]
        /\ cameraCapture' = [at |-> "mark", buf |-> c]
  BY DEF Camera!CaptureDequeue
<1>2. /\ phase = "ready" /\ thread = "alive" /\ cameraCapture.at = "dequeue" /\ inside = Camera!Nobody
      /\ phase' = phase /\ buffers' = buffers /\ running' = running /\ is_destroying' = is_destroying
      /\ thread' = thread /\ control' = control /\ inside' = inside /\ streaming' = streaming
      /\ queued' = queued /\ frames' = frames /\ lost' = lost
  BY DEF Camera!CaptureDequeue, Camera!Capturing, Camera!object, Camera!mutexFree
<1>3. CameraTypes /\ inside.buf = Nil /\ Nil \notin Buffers
  BY <1>2, CameraAssumption DEF CameraInv, Camera!Nobody
<1>4. CameraTypes'
  BY <1>1, <1>2, <1>3 DEF CameraTypes, Capture
<1>5. ThreadInv' /\ InsideInv'
  BY <1>2 DEF CameraInv, ThreadInv, InsideInv
<1>6. /\ \A b \in Buffers : ~Camera!InHands(b) /\ (Camera!InHands(b)' <=> b = c)
      /\ driver'[c] = "user" /\ \A b \in Buffers \ {c} : driver'[b] = driver[b]
  BY <1>1, <1>2, <1>3 DEF Camera!InHands, CameraTypes
<1>7. MemoryIsThere' /\ (Sound' <=> Sound)
  BY <1>1, <1>2, <1>6 DEF CameraInv, MemoryIsThere, Building, Sound
<1>8. ASSUME NEW b \in Buffers, Owned(b) PROVE Owned(b)'
  BY <1>1, <1>2, <1>3, <1>6, <1>8 DEF Owned, Alone, FlagIsDown, GivenBack, Somewhere
<1> QED BY <1>4, <1>5, <1>7, <1>8 DEF CameraInv

LEMMA MarkStep ==
  ASSUME CameraInv, Camera!CaptureMark
  PROVE  CameraInv'
<1> DEFINE c == cameraCapture.buf
<1>1. /\ phase = "ready" /\ thread = "alive" /\ cameraCapture.at = "mark"
      /\ phase' = phase /\ buffers' = buffers /\ running' = running /\ is_destroying' = is_destroying
      /\ thread' = thread /\ control' = control /\ inside' = inside /\ streaming' = streaming
      /\ driver' = driver /\ frames' = frames /\ lost' = lost
      /\ queued' = [queued EXCEPT ![c] = FALSE] /\ cameraCapture' = [cameraCapture EXCEPT !.at = "frame"]
  BY DEF Camera!CaptureMark, Camera!Capturing, Camera!object
<1>2. CameraTypes /\ c \in Buffers
  BY <1>1 DEF CameraInv, CameraTypes, Capture
<1>3. cameraCapture' \in Capture /\ cameraCapture'.at = "frame" /\ cameraCapture'.buf = c /\ c # Nil
  BY <1>1, <1>2, CameraAssumption DEF CameraTypes, Capture
<1>4. queued' \in [Buffers -> BOOLEAN] /\ ~queued'[c] /\ \A b \in Buffers \ {c} : queued'[b] = queued[b]
  BY <1>1, <1>2 DEF CameraTypes
<1>5. CameraTypes'
  BY <1>1, <1>2, <1>3, <1>4 DEF CameraTypes
<1>6. ThreadInv' /\ InsideInv'
  BY <1>1, <1>2, <1>4 DEF CameraInv, ThreadInv, InsideInv, CameraTypes
<1>7. \A b : Camera!InHands(b)' <=> Camera!InHands(b)
  BY <1>1, <1>3 DEF Camera!InHands
<1>8. MemoryIsThere' /\ (Sound' <=> Sound)
  BY <1>1, <1>7 DEF CameraInv, MemoryIsThere, Building, Sound
<1>9. ASSUME NEW b \in Buffers, Owned(b) PROVE Owned(b)'
  <2>1. Camera!InHands(b) => b = c
    BY DEF Camera!InHands
  <2> QED BY <1>1, <1>3, <1>4, <1>7, <1>9, <2>1 DEF Owned, Alone, FlagIsDown, GivenBack, Somewhere
<1> QED BY <1>5, <1>6, <1>8, <1>9 DEF CameraInv

\* An exception ends the loop: only when stop() already waits for it is the
\* camera as sound as before, and the buffer is then lost.
LEMMA ErrorStep ==
  ASSUME CameraInv, Camera!CaptureError
  PROVE  CameraInv'
<1> DEFINE c == cameraCapture.buf
<1>1. /\ phase = "ready" /\ thread = "alive" /\ cameraCapture.at \in {"wait", "dequeue", "frame"}
      /\ phase' = phase /\ buffers' = buffers /\ running' = FALSE /\ is_destroying' = is_destroying
      /\ thread' = "over" /\ control' = control /\ inside' = inside /\ streaming' = streaming
      /\ driver' = driver /\ frames' = frames /\ queued' = queued
      /\ cameraCapture' = Camera!Idle /\ lost' = lost \cup {b \in Buffers : b = c}
  BY DEF Camera!CaptureError, Camera!Capturing
<1>2. CameraTypes
  BY DEF CameraInv
<1>3. /\ cameraCapture' \in Capture /\ cameraCapture'.at = "top" /\ cameraCapture'.buf = Nil
      /\ lost' \subseteq Buffers
  BY <1>1, <1>2 DEF CameraTypes, Capture, Camera!Idle
<1>4. CameraTypes'
  BY <1>1, <1>2, <1>3 DEF CameraTypes
<1>5. ThreadInv' /\ InsideInv'
  BY <1>1 DEF CameraInv, ThreadInv, InsideInv
<1>6. \A b : ~Camera!InHands(b)'
  BY <1>1 DEF Camera!InHands
<1>7. MemoryIsThere' /\ Sound
  BY <1>1, <1>6 DEF CameraInv, MemoryIsThere, Building, Sound
<1>8. ASSUME NEW b \in Buffers, Owned(b) PROVE Owned(b)'
  <2>1. \/ b # c /\ ~Camera!InHands(b) /\ (b \in lost' <=> b \in lost)
        \/ b = c /\ Camera!InHands(b) /\ b \in lost'
    BY <1>1, <1>2, CameraAssumption DEF Camera!InHands, CameraTypes
  <2> QED BY <1>1, <1>3, <1>6, <1>8, <2>1 DEF Owned, Alone, FlagIsDown, GivenBack, Somewhere
<1> QED BY <1>4, <1>5, <1>7, <1>8 DEF CameraInv

\* The Frame goes to the client.
LEMMA DeliverStep ==
  ASSUME CameraInv, Camera!CaptureDeliver
  PROVE  CameraInv'
<1> DEFINE c == cameraCapture.buf
<1>1. /\ phase = "ready" /\ thread = "alive" /\ cameraCapture.at = "frame"
      /\ phase' = phase /\ buffers' = buffers /\ running' = running /\ is_destroying' = is_destroying
      /\ thread' = thread /\ control' = control /\ inside' = inside /\ streaming' = streaming
      /\ driver' = driver /\ queued' = queued /\ lost' = lost
      /\ cameraCapture' = Camera!Idle /\ frames' = [frames EXCEPT ![c] = @ + 1]
  BY DEF Camera!CaptureDeliver, Camera!MakeFrame, Camera!Capturing, Camera!object
<1>2. CameraTypes /\ c \in Buffers /\ Camera!InHands(c)
  BY <1>1 DEF CameraInv, CameraTypes, Capture, Camera!InHands
<1>3. cameraCapture' \in Capture /\ cameraCapture'.at = "top" /\ cameraCapture'.buf = Nil
  BY <1>1 DEF Capture, Camera!Idle
<1>4. /\ frames' \in [Buffers -> Nat] /\ frames'[c] = frames[c] + 1
      /\ \A b \in Buffers \ {c} : frames'[b] = frames[b]
  <2>1. frames \in [Buffers -> Nat] /\ frames[c] + 1 \in Nat
    BY <1>2 DEF CameraTypes
  <2> QED BY <1>1, <1>2, <2>1
<1>5. CameraTypes'
  BY <1>1, <1>2, <1>3, <1>4 DEF CameraTypes
<1>6. ThreadInv' /\ InsideInv'
  BY <1>1 DEF CameraInv, ThreadInv, InsideInv
<1>7. \A b : ~Camera!InHands(b)'
  BY <1>1, <1>3 DEF Camera!InHands
<1>8. MemoryIsThere' /\ Sound
  BY <1>1, <1>7 DEF CameraInv, MemoryIsThere, Building, Sound
<1>9. ASSUME NEW b \in Buffers, Owned(b) PROVE Owned(b)'
  <2>1. CASE b # c
    <3>1. ~Camera!InHands(b) /\ frames'[b] = frames[b]
      BY <1>4, <2>1 DEF Camera!InHands
    <3> QED BY <1>1, <1>3, <1>7, <1>9, <3>1 DEF Owned, Alone, FlagIsDown, GivenBack, Somewhere
  <2>2. CASE b = c
    <3>1. frames'[b] = 1 /\ driver[b] = "user" /\ inside.buf # b /\ b \notin lost
      BY <1>2, <1>4, <1>9, <2>2 DEF Owned, Alone, CameraTypes
    <3> QED BY <1>1, <1>2, <1>3, <1>7, <1>9, <2>2, <3>1
            DEF Owned, Alone, FlagIsDown, GivenBack, Somewhere
  <2> QED BY <2>1, <2>2
<1> QED BY <1>5, <1>6, <1>8, <1>9 DEF CameraInv

\* Without a callback the capture thread gives the buffer back itself, twice.
LEMMA GiveBackSteps ==
  ASSUME CameraInv, Camera!CaptureGiveBack \/ Camera!CaptureDrop
  PROVE  CameraInv'
<1> DEFINE c == cameraCapture.buf
<1>1. /\ phase = "ready" /\ thread = "alive"
      /\ phase' = phase /\ buffers' = buffers /\ running' = running /\ is_destroying' = is_destroying
      /\ thread' = thread /\ control' = control /\ streaming' = streaming
      /\ driver' = driver /\ queued' = queued /\ frames' = frames
      /\ Camera!EnterReturn("capture", c)
      /\ \/ cameraCapture.at = "frame" /\ cameraCapture' = [cameraCapture EXCEPT !.at = "drop"]
         \/ cameraCapture.at = "drop" /\ cameraCapture' = Camera!Idle
  BY DEF Camera!CaptureGiveBack, Camera!CaptureDrop, Camera!Capturing, Camera!object
<1>2. CameraTypes /\ c \in Buffers /\ Sound /\ control.at \notin {"reclaim", "off", "release"}
  BY <1>1 DEF CameraInv, CameraTypes, Capture, ThreadInv, Sound
<1>3. /\ inside = Camera!Nobody /\ inside.buf = Nil /\ lost' \subseteq Buffers
      /\ inside' \in {Camera!Nobody} \cup [who : {"client", "capture"}, buf : Buffers]
      /\ \A b \in Buffers \ {c} : inside'.buf # b /\ (b \in lost' <=> b \in lost)
      /\ \/ /\ c \in buffers /\ ~queued[c] /\ ~is_destroying
            /\ inside'.buf = c /\ inside' # Camera!Nobody /\ c \notin lost'
         \/ inside' = inside /\ queued[c] /\ lost' = lost
         \/ inside' = inside /\ ~queued[c] /\ lost' = lost \cup {c}
  BY <1>1, <1>2, ReturnEffect
<1>4. /\ cameraCapture' \in Capture
      /\ \/ cameraCapture'.at = "drop" /\ cameraCapture'.buf = c
         \/ cameraCapture'.at = "top" /\ cameraCapture'.buf = Nil
  BY <1>1, <1>2 DEF CameraTypes, Capture, Camera!Idle
<1>5. c # Nil
  BY <1>2, CameraAssumption
<1>6. CameraTypes'
  BY <1>1, <1>2, <1>3, <1>4, <1>5 DEF CameraTypes
<1>7. ThreadInv'
  BY <1>1 DEF CameraInv, ThreadInv
<1>8. InsideInv'
  BY <1>1, <1>2, <1>3 DEF InsideInv
<1>9. \A b : ~Camera!InHands(b)'
  BY <1>4 DEF Camera!InHands
<1>10. MemoryIsThere'
  BY <1>1, <1>9 DEF CameraInv, MemoryIsThere, Building
<1>11. ASSUME NEW b \in Buffers, Owned(b) PROVE Owned(b)'
  <2>1. CASE b # c
    <3>1. /\ ~Camera!InHands(b) /\ inside'.buf # b /\ (b \in lost' <=> b \in lost)
          /\ cameraCapture'.buf # b /\ inside.buf # b /\ b # Nil
      BY <1>3, <1>4, <2>1, CameraAssumption DEF Camera!InHands
    <3>2. Alone(b)'
      BY <1>1, <1>9, <1>11, <3>1 DEF Owned, Alone
    <3> QED BY <1>1, <1>9, <1>11, <3>1, <3>2 DEF Owned, FlagIsDown, GivenBack, Somewhere
  <2>2. CASE b = c
    <3>1. \/ Camera!InHands(b) /\ cameraCapture.at = "frame" /\ ~queued[b]
          \/ ~Camera!InHands(b) /\ (queued[b] \/ b \in lost)
      <4>1. CASE cameraCapture.at = "frame"
        <5>1. Camera!InHands(b)
          BY <1>1, <2>2, <4>1 DEF Camera!InHands
        <5>2. buffers # {}
          BY <5>1 DEF CameraInv, MemoryIsThere
        <5> QED BY <1>2, <1>11, <4>1, <5>1, <5>2 DEF Owned, FlagIsDown
      <4>2. CASE cameraCapture.at = "drop"
        BY <1>1, <1>3, <1>5, <1>11, <2>2, <4>2 DEF Owned, GivenBack, Camera!InHands
      <4> QED BY <1>1, <4>1, <4>2
    <3>2. \/ inside'.buf = b /\ b \notin lost' /\ driver[b] = "user" /\ frames[b] = 0
          \/ /\ inside'.buf # b /\ b \in lost' /\ driver[b] = "user" /\ frames[b] = 0
          \/ /\ inside'.buf # b /\ queued[b] /\ lost' = lost /\ ~Camera!InHands(b)
      <4>1. frames[b] \in Nat
        BY <1>2 DEF CameraTypes
      <4>2. Camera!InHands(b) \/ b \in lost => driver[b] = "user" /\ frames[b] = 0
        BY <1>11, <4>1 DEF Owned, Alone
      <4> QED BY <1>3, <1>5, <2>2, <3>1, <4>2
    <3>3. Alone(b)'
      BY <1>1, <1>9, <1>11, <3>2 DEF Owned, Alone
    <3>4. FlagIsDown(b)' /\ GivenBack(b)'
      BY <1>1, <1>9, <1>11, <3>2 DEF Owned, FlagIsDown, GivenBack
    <3>5. Somewhere(b)'
      BY <1>1, <1>3, <1>5, <1>9, <1>11, <2>2, <3>2 DEF Owned, Somewhere
    <3> QED BY <3>3, <3>4, <3>5 DEF Owned
  <2> QED BY <2>1, <2>2
<1> QED BY <1>2, <1>6, <1>7, <1>8, <1>10, <1>11 DEF CameraInv

LEMMA CameraKeeps ==
  ASSUME CameraInv, [Camera!Next]_cameraVars
  PROVE  CameraInv'
<1>1. CASE Camera!CaptureStep
  BY <1>1, WaitingStep, DequeueStep, ErrorStep, MarkStep, DeliverStep, GiveBackSteps
  DEF Camera!CaptureStep
<1>2. CASE Camera!StopStep \/ Camera!Stop
  BY <1>2, StopSteps, ReleaseSteps DEF Camera!StopStep
<1>3. CASE Camera!SetFrameCallback \/ Camera!Pause \/ Camera!Resume \/ UNCHANGED cameraVars
  <2>1. UNCHANGED cameraState
    BY <1>3 DEF Camera!SetFrameCallback, Camera!Pause, Camera!Resume, Camera!traffic, cameraVars,
       cameraState
  <2> QED BY <2>1, CameraRests
<1>4. CASE Camera!Open \/ Camera!SetupFormat \/ Camera!RequestBuffers
  BY <1>4, BuildingStep
<1>5. ASSUME NEW b \in Buffers,
             \/ Camera!MapBuffer(b) \/ Camera!AllocateDMABuffer(b) \/ Camera!DropFrame(b)
             \/ Camera!ReturnByHand(b) \/ Camera!DriverFills(b)
      PROVE  CameraInv'
  BY <1>5, BuildingStep, ClientStep, DriverStep
<1> QED BY <1>1, <1>2, <1>3, <1>4, <1>5, StartStep, EnqueueStep DEF Camera!Next

\* A buffer has at most one owner among the driver, the capture thread, the
\* return in progress, the clients and the lost; no Frame of it is there twice;
\* while the camera streams it is not forgotten; and whoever is inside
\* returnBuffer or has a dequeued buffer works on memory that stop() has not
\* freed (returnBuffer, stop, captureLoop of cameraController.cpp).
THEOREM BuffersHaveOneOwner == PartsSpec => []OneOwner
<1>1. PartsInit => (part = "camera" => CameraInv)
  BY CameraInit DEF PartsInit
<1>2. ASSUME part = "camera" => CameraInv, [PartsNext]_partsVars
      PROVE  (part = "camera" => CameraInv)'
  BY <1>2, PartStays, CameraAlone, CameraKeeps
<1>3. (part = "camera" => CameraInv) => OneOwner
  <2> SUFFICES ASSUME CameraInv PROVE Camera!OneOwner /\ Camera!NoUseAfterRelease
    BY DEF OneOwner
  <2>1. Camera!NoUseAfterRelease
    BY DEF CameraInv, InsideInv, MemoryIsThere, Camera!NoUseAfterRelease
  <2>2. ASSUME phase = "ready", thread # "over", NEW b \in Buffers \ ByHand
        PROVE  /\ Camera!Cardinality(Camera!Owners(b)) <= 1 /\ frames[b] <= 1
               /\ streaming /\ buffers # {} /\ control.at # "off" => Camera!Owners(b) # {}
    <3>1. Owned(b) /\ frames[b] \in Nat
      BY <2>2 DEF CameraInv, CameraTypes, Sound
    <3>2. \A o, p \in Camera!Owners(b) : o = p
      BY <3>1 DEF Owned, Alone, Camera!Owners
    <3>3. Camera!Cardinality(Camera!Owners(b)) <= 1
      <4>1. Camera!Cardinality(Camera!Owners(b)) = Cardinality(Camera!Owners(b))
        BY DEF Camera!Cardinality, Cardinality, Camera!IsFiniteSet, IsFiniteSet
      <4>2. CASE Camera!Owners(b) = {}
        BY <4>1, <4>2, FS_EmptySet
      <4>3. CASE Camera!Owners(b) # {}
        <5>1. PICK o : Camera!Owners(b) = {o}
          BY <3>2, <4>3
        <5>2. Cardinality({o}) = 1
          BY FS_Singleton
        <5> QED BY <4>1, <5>1, <5>2
      <4> QED BY <4>2, <4>3
    <3>4. frames[b] <= 1
      BY <3>1 DEF Owned, Alone
    <3>5. streaming /\ buffers # {} /\ control.at # "off" => Camera!Owners(b) # {}
      BY <2>2, <3>1 DEF Owned, Somewhere, Camera!Owners
    <3> QED BY <3>3, <3>4, <3>5
  <2> QED BY <2>1, <2>2 DEF Camera!OneOwner
<1> QED BY <1>1, <1>2, <1>3, PTL DEF PartsSpec

-----------------------------------------------------------------------------
(***************************************************************************)
(* The server that is built from a document.  Who holds a library is       *)
(* counted at every step; a route that is in the table is answered as the  *)
(* document says, since nothing that is bound changes until the server is  *)
(* destroyed.                                                              *)
(***************************************************************************)
LEMMA ServerAlone ==
  ASSUME [PartsNext]_partsVars, part = "server"
  PROVE  [Server!Next]_serverVars
BY DEF PartsNext, partsVars, dataVars, CameraPart, OrderedPart, SafePart, LogPart, DisplayPart,
       UdevPart, MousePart, ParamPart, ServerPart, DmaPart, MemoryPart, ConfigPart, DevicesPart,
       HttpPart, JpegPart, ContextPart

PluginRecord == [library : Libraries \cup {Nil}, plugin : BOOLEAN]

ServerTypes ==
  /\ plugins \in Seq(PluginRecord) /\ opened \in [Libraries -> Int]
  /\ rawPlugin \in BOOLEAN /\ handle \in Libraries \cup {Nil}
  /\ document \in Server!Documents
  /\ stage \notin {"load", "refused"} => Server!Acceptable(document)

\* What is being loaded at each stage.
LoadInv ==
  /\ stage \in {"load", "refused", "gone"} => plugins = <<>>
  /\ stage \in {"load", "refused"} => bound = Server!Nowhere /\ table = Server!Nowhere
  /\ stage \in {"create", "register", "undo", "close", "store"} =>
       handle \in Libraries /\ Len(plugins) < Len(document.plugins.entries)
  /\ stage \notin {"create", "register", "undo", "close", "store"} => handle = Nil
  /\ stage \notin {"register", "undo", "store"} => ~rawPlugin

Holding(l) == {i \in DOMAIN plugins : plugins[i].library = l}

CountInv ==
  /\ \A l \in Libraries : opened[l] = Cardinality(Holding(l)) + (IF handle = l THEN 1 ELSE 0)
  /\ \A i \in DOMAIN plugins : plugins[i].plugin => plugins[i].library # Nil

\* The j-th route is in the table, with what the document says of it.
Bound(j) ==
  LET r == document.routes.entries[j]
      to == table[<<r.method, r.path>>]
  IN /\ <<r.method, r.path>> \in DOMAIN table
     /\ to.handler = r.handler /\ to.plugin \in DOMAIN plugins
     /\ document.plugins.entries[to.plugin].name = r.plugin

RouteInv ==
  /\ \A i \in DOMAIN plugins : plugins[i].plugin
  /\ \A n \in DOMAIN bound : /\ bound[n].plugin \in DOMAIN plugins
                             /\ document.plugins.entries[bound[n].plugin].name = n
  /\ IsFiniteSet(DOMAIN table) /\ \A j \in 1..Cardinality(DOMAIN table) : Bound(j)
  /\ stage \in {"built", "serving"} => Cardinality(DOMAIN table) = Len(document.routes.entries)

ServerInv ==
  /\ ServerTypes /\ LoadInv /\ CountInv
  /\ stage \notin {"destroy", "gone"} => RouteInv

LEMMA SameCount ==
  ASSUME NEW S
  PROVE  Server!Cardinality(S) = Cardinality(S)
BY DEF Server!Cardinality, Cardinality, Server!IsFiniteSet, IsFiniteSet

\* A section that is complete has entries only.
LEMMA SectionsAreWhole ==
  ASSUME NEW S, NEW n \in Nat, NEW s \in Server!Sections(S, n), Server!Complete(s)
  PROVE  s.entries \in Seq(S)
<1>1. s.shape = "right" /\ \A i \in DOMAIN s.entries : \A f \in DOMAIN s.entries[i] : s.entries[i][f] # Nil
  BY DEF Server!Complete
<1>2. s.entries \in Server!SeqsUpTo(S, n) \/ s.entries \in {<<e>> : e \in UNION {Server!Lacking(x) : x \in S}}
  BY <1>1 DEF Server!Sections
<1>3. CASE s.entries \in Server!SeqsUpTo(S, n)
  <2>1. PICK k \in 0..n : s.entries \in [1..k -> S]
    BY <1>3 DEF Server!SeqsUpTo
  <2> QED BY <2>1
<1>4. CASE s.entries \in {<<e>> : e \in UNION {Server!Lacking(x) : x \in S}}
  <2>1. PICK x \in S : \E e \in Server!Lacking(x) : s.entries = <<e>>
    BY <1>4
  <2>5. PICK e \in Server!Lacking(x) : s.entries = <<e>>
    BY <2>1
  <2>2. PICK f \in DOMAIN x : e = [x EXCEPT ![f] = Nil]
    BY DEF Server!Lacking
  <2>3. f \in DOMAIN e /\ e[f] = Nil
    BY <2>2
  <2>4. 1 \in DOMAIN s.entries /\ s.entries[1] = e
    BY <2>5
  <2> QED BY <1>1, <2>3, <2>4
<1> QED BY <1>2, <1>3, <1>4

LEMMA DocumentIsWhole ==
  ASSUME ServerTypes, stage \notin {"load", "refused"}
  PROVE  /\ document.plugins.entries \in Seq(Server!PluginEntries)
         /\ document.routes.entries \in Seq(Server!RouteEntries)
         /\ \A i \in 1..Len(document.plugins.entries) : document.plugins.entries[i].library \in Libraries
<1>1. /\ document.plugins \in Server!Sections(Server!PluginEntries, MaxPlugins)
      /\ document.routes \in Server!Sections(Server!RouteEntries, MaxRoutes)
      /\ Server!Complete(document.plugins) /\ Server!Complete(document.routes)
  BY DEF ServerTypes, Server!Documents, Server!Acceptable
<1>2. /\ document.plugins.entries \in Seq(Server!PluginEntries)
      /\ document.routes.entries \in Seq(Server!RouteEntries)
  BY <1>1, ServerAssumption, SectionsAreWhole
<1>3. ASSUME NEW i \in 1..Len(document.plugins.entries) PROVE document.plugins.entries[i].library \in Libraries
  <2>1. document.plugins.entries[i] \in Server!PluginEntries
    BY <1>2, ElementOfSeq
  <2> QED BY <2>1 DEF Server!PluginEntries
<1> QED BY <1>2, <1>3

LEMMA HoldersAreFinite ==
  ASSUME ServerTypes, NEW l
  PROVE  /\ IsFiniteSet(Holding(l)) /\ Cardinality(Holding(l)) \in Nat
         /\ DOMAIN plugins = 1..Len(plugins) /\ Len(plugins) \in Nat
         /\ Holding(l) \subseteq 1..Len(plugins)
<1>1. DOMAIN plugins = 1..Len(plugins) /\ Len(plugins) \in Nat
  BY DEF ServerTypes
<1>2. IsFiniteSet(1..Len(plugins))
  BY <1>1, FS_Interval
<1>3. Holding(l) \in SUBSET (1..Len(plugins))
  BY <1>1 DEF Holding
<1>4. IsFiniteSet(Holding(l))
  BY <1>2, <1>3, FS_Subset
<1> QED BY <1>1, <1>3, <1>4, FS_CardinalityType

LEMMA ServerInit == Server!Init => ServerInv
<1> SUFFICES ASSUME Server!Init PROVE ServerInv
  OBVIOUS
<1>1. /\ document \in Server!Documents /\ stage = "load" /\ opened = [l \in Libraries |-> 0]
      /\ handle = Nil /\ rawPlugin = FALSE /\ plugins = <<>>
      /\ bound = Server!Nowhere /\ table = Server!Nowhere
  BY DEF Server!Init, Server!InitWith
<1>2. ServerTypes
  <2>1. plugins \in Seq(PluginRecord) /\ opened \in [Libraries -> Int] /\ handle \in Libraries \cup {Nil}
    BY <1>1, EmptySeq
  <2>2. rawPlugin \in BOOLEAN
    BY <1>1, Zenon
  <2> QED BY <1>1, <2>1, <2>2 DEF ServerTypes
<1>3. LoadInv
  BY <1>1 DEF LoadInv
<1>4. DOMAIN plugins = {} /\ DOMAIN bound = {} /\ DOMAIN table = {}
  BY <1>1 DEF Server!Nowhere
<1>5. CountInv
  <2>1. \A l : Holding(l) = {}
    BY <1>4 DEF Holding
  <2>2. Cardinality({}) = 0
    BY FS_EmptySet
  <2> QED BY <1>1, <1>4, <2>1, <2>2, ServerAssumption DEF CountInv
<1>6. RouteInv
  <2>1. IsFiniteSet({}) /\ Cardinality({}) = 0
    BY FS_EmptySet
  <2> QED BY <1>1, <1>4, <2>1 DEF RouteInv
<1> QED BY <1>2, <1>3, <1>5, <1>6 DEF ServerInv

\* Steps that leave alone what is stored.
LEMMA StoredStay ==
  ASSUME ServerTypes, UNCHANGED <<document, plugins, bound, table>>
  PROVE  /\ RouteInv /\ (stage' \in {"built", "serving"} => Cardinality(DOMAIN table) = Len(document.routes.entries))
              => RouteInv'
         /\ CountInv /\ UNCHANGED <<opened, handle>> => CountInv'
<1>1. ASSUME RouteInv, stage' \in {"built", "serving"} => Cardinality(DOMAIN table) = Len(document.routes.entries)
      PROVE  RouteInv'
  <2>1. \A j : Bound(j)' = Bound(j)
    BY Zenon DEF Bound
  <2> QED BY <1>1, <2>1 DEF RouteInv
<1>2. ASSUME CountInv, UNCHANGED <<opened, handle>> PROVE CountInv'
  <2>1. \A l : Holding(l)' = Holding(l)
    BY DEF Holding
  <2> QED BY <1>2, <2>1 DEF CountInv
<1> QED BY <1>1, <1>2

\* The document is checked, the building is over, the server starts and ends.
LEMMA LifeKeeps ==
  ASSUME ServerInv, Server!LoadConfig \/ Server!Built \/ Server!Start \/ Server!Destroy
  PROVE  ServerInv'
<1>1. /\ UNCHANGED <<document, opened, handle, rawPlugin, plugins, bound, table>>
      /\ ServerTypes /\ LoadInv /\ CountInv /\ RouteInv
  BY DEF ServerInv, Server!LoadConfig, Server!Built, Server!Start, Server!Destroy, Server!loading
<1>2. \/ stage = "load" /\ stage' \in {"open", "refused"} /\ (stage' = "open" => Server!Acceptable(document))
      \/ stage = "open" /\ stage' = "built" /\ Server!Routed = Len(document.routes.entries)
      \/ stage \in {"built", "serving"} /\ stage' \in {"serving", "destroy"}
  BY Zenon DEF Server!LoadConfig, Server!Built, Server!Start, Server!Destroy
<1>3. stage' \in {"built", "serving"} => Cardinality(DOMAIN table) = Len(document.routes.entries)
  BY <1>1, <1>2, SameCount DEF RouteInv, Server!Routed
<1>4. CountInv' /\ RouteInv'
  BY <1>1, <1>3, StoredStay
<1>5. Server!Acceptable(document)' <=> Server!Acceptable(document)
  BY <1>1 DEF Server!Acceptable, Server!Complete
<1>6. ServerTypes'
  BY <1>1, <1>2, <1>5 DEF ServerTypes
<1>7. LoadInv'
  BY <1>1, <1>2 DEF LoadInv
<1> QED BY <1>4, <1>6, <1>7 DEF ServerInv

\* The place of the plugin that comes next.
LEMMA EntryIs ==
  ASSUME ServerInv, stage \in {"open", "create", "register", "store"}, Len(plugins) < Len(document.plugins.entries)
  PROVE  /\ Server!Entry.library \in Libraries
         /\ Len(plugins) + 1 \in 1..Len(document.plugins.entries)
         /\ Server!Entry = document.plugins.entries[Len(plugins) + 1]
<1>1. ServerTypes
  BY DEF ServerInv
<1>2. document.plugins.entries \in Seq(Server!PluginEntries) /\ plugins \in Seq(PluginRecord)
  BY <1>1, DocumentIsWhole DEF ServerTypes
<1>3. Len(plugins) + 1 \in 1..Len(document.plugins.entries)
  BY <1>2
<1> QED BY <1>1, <1>3, DocumentIsWhole DEF Server!Entry

LEMMA SameDocument ==
  ASSUME document' = document, ServerTypes, stage \notin {"load", "refused"}
  PROVE  document' \in Server!Documents' /\ Server!Acceptable(document)'
BY DEF ServerTypes, Server!Acceptable, Server!Complete, Server!Documents, Server!Sections, Server!PluginEntries,
       Server!RouteEntries, Server!Shapes, Server!SeqsUpTo, Server!Lacking

LEMMA LibraryKeeps ==
  ASSUME ServerInv, \/ Server!OpenLibrary \/ Server!CreatePlugin \/ Server!RegisterHandlers
                    \/ Server!DestroyRaw \/ Server!CloseRaw \/ Server!LeaveScope
  PROVE  ServerInv'
<1>1. UNCHANGED <<document, plugins, bound, table>> /\ ServerTypes /\ LoadInv /\ CountInv
  BY DEF ServerInv, Server!OpenLibrary, Server!CreatePlugin, Server!RegisterHandlers, Server!DestroyRaw,
         Server!CloseRaw, Server!LeaveScope
<1>2. stage \in {"open", "create", "register", "undo", "close", "leave"} /\ RouteInv
  BY DEF ServerInv, Server!OpenLibrary, Server!CreatePlugin, Server!RegisterHandlers, Server!DestroyRaw,
         Server!CloseRaw, Server!LeaveScope
<1>3. stage' \in {"create", "register", "store", "undo", "close", "leave", "destroy"}
  BY DEF Server!OpenLibrary, Server!CreatePlugin, Server!RegisterHandlers, Server!DestroyRaw,
         Server!CloseRaw, Server!LeaveScope, Server!Fails
<1>4. RouteInv'
  BY <1>1, <1>2, <1>3, StoredStay
<1>5. document' \in Server!Documents' /\ Server!Acceptable(document)'
  BY <1>1, <1>2, SameDocument
<1>6. \A l : Holding(l)' = Holding(l)
  BY <1>1 DEF Holding
<1>7. \A i \in DOMAIN plugins' : plugins'[i].plugin => plugins'[i].library # Nil
  BY <1>1 DEF CountInv
<1>8. plugins' \in Seq(PluginRecord)
  BY <1>1 DEF ServerTypes
\* A library is opened, is closed, or neither.
<1>9. CASE UNCHANGED <<opened, handle>> /\ rawPlugin' \in BOOLEAN
           /\ (stage' \notin {"register", "undo", "store"} => ~rawPlugin')
           /\ (stage' \in {"destroy", "leave"} <=> handle = Nil)
  <2>1. ServerTypes'
    BY <1>1, <1>5, <1>8, <1>9 DEF ServerTypes
  <2>2. LoadInv'
    BY <1>1, <1>2, <1>3, <1>9 DEF LoadInv
  <2>3. CountInv'
    BY <1>1, <1>9, StoredStay
  <2> QED BY <1>4, <2>1, <2>2, <2>3 DEF ServerInv
<1>10. ASSUME NEW l \in Libraries, handle = Nil, handle' = l, opened' = [opened EXCEPT ![l] = @ + 1],
              rawPlugin' = rawPlugin, ~rawPlugin, Len(plugins) < Len(document.plugins.entries), stage' = "create"
       PROVE  ServerInv'
  <2>1. opened \in [Libraries -> Int] /\ rawPlugin \in BOOLEAN
    BY <1>1 DEF ServerTypes
  <2>2. ServerTypes'
    BY <1>5, <1>8, <1>10, <2>1 DEF ServerTypes
  <2>3. LoadInv'
    BY <1>1, <1>10 DEF LoadInv
  <2>4. ASSUME NEW k \in Libraries PROVE opened'[k] = Cardinality(Holding(k)) + (IF l = k THEN 1 ELSE 0)
    <3>1. opened[k] = Cardinality(Holding(k)) /\ Cardinality(Holding(k)) \in Nat
      BY <1>1, <1>10, HoldersAreFinite, ServerAssumption DEF CountInv
    <3> QED BY <1>10, <2>1, <3>1
  <2>5. CountInv'
    BY <1>6, <1>7, <1>10, <2>4 DEF CountInv
  <2> QED BY <1>4, <2>2, <2>3, <2>5 DEF ServerInv
<1>11. ASSUME handle \in Libraries, handle' = Nil, opened' = [opened EXCEPT ![handle] = @ - 1],
              ~rawPlugin', rawPlugin' \in BOOLEAN, stage' \in {"destroy", "leave"}
       PROVE  ServerInv'
  <2>1. opened \in [Libraries -> Int]
    BY <1>1 DEF ServerTypes
  <2>2. ServerTypes'
    BY <1>5, <1>8, <1>11, <2>1 DEF ServerTypes
  <2>3. LoadInv'
    BY <1>1, <1>11 DEF LoadInv
  <2>4. ASSUME NEW k \in Libraries PROVE opened'[k] = Cardinality(Holding(k)) + (IF Nil = k THEN 1 ELSE 0)
    <3>1. /\ opened[k] = Cardinality(Holding(k)) + (IF handle = k THEN 1 ELSE 0)
          /\ Cardinality(Holding(k)) \in Nat
      BY <1>1, HoldersAreFinite DEF CountInv
    <3> QED BY <1>11, <2>1, <3>1, ServerAssumption
  <2>5. CountInv'
    BY <1>6, <1>7, <1>11, <2>4 DEF CountInv
  <2> QED BY <1>4, <2>2, <2>3, <2>5 DEF ServerInv
<1>12. CASE Server!OpenLibrary
  <2>1. stage = "open" /\ handle = Nil /\ ~rawPlugin /\ rawPlugin' = rawPlugin
        /\ Len(plugins) < Len(document.plugins.entries) /\ rawPlugin \in BOOLEAN
    BY <1>1, <1>12 DEF Server!OpenLibrary, LoadInv, ServerTypes
  <2>2. CASE stage' = "create"
    <3>1. /\ handle' = Server!Entry.library /\ opened' = [opened EXCEPT ![Server!Entry.library] = @ + 1]
      BY <1>12, <2>2 DEF Server!OpenLibrary, Server!Fails
    <3>2. Server!Entry.library \in Libraries
      BY <2>1, EntryIs
    <3> QED BY <1>10, <2>1, <2>2, <3>1, <3>2
  <2>3. CASE stage' = "destroy"
    <3>1. UNCHANGED <<opened, handle>>
      BY <1>12, <2>3 DEF Server!OpenLibrary
    <3> QED BY <1>9, <2>1, <2>3, <3>1
  <2> QED BY <1>12, <2>2, <2>3 DEF Server!OpenLibrary, Server!Fails
<1>13. CASE Server!CreatePlugin
  <2>1. stage = "create" /\ handle \in Libraries /\ ~rawPlugin /\ rawPlugin \in BOOLEAN /\ handle # Nil
    BY <1>1, <1>13, ServerAssumption DEF Server!CreatePlugin, LoadInv, ServerTypes
  <2>2. CASE stage' = "destroy"
    <3>1. handle' = Nil /\ opened' = [opened EXCEPT ![handle] = @ - 1] /\ rawPlugin' = rawPlugin
      BY <1>13, <2>2 DEF Server!CreatePlugin, Server!Closed
    <3> QED BY <1>11, <2>1, <2>2, <3>1
  <2>3. CASE stage' = "register"
    <3>1. UNCHANGED <<opened, handle>> /\ rawPlugin' = TRUE
      BY <1>13, <2>3 DEF Server!CreatePlugin, Server!Fails
    <3> QED BY <1>9, <2>1, <2>3, <3>1
  <2> QED BY <1>13, <2>2, <2>3 DEF Server!CreatePlugin, Server!Fails
<1>14. CASE Server!RegisterHandlers
  <2>1. handle # Nil /\ rawPlugin \in BOOLEAN /\ stage' \in {"store", "undo"} /\ UNCHANGED <<opened, handle, rawPlugin>>
    BY <1>1, <1>14, ServerAssumption DEF Server!RegisterHandlers, LoadInv, ServerTypes
  <2> QED BY <1>9, <2>1
<1>15. CASE Server!DestroyRaw
  <2>1. handle # Nil /\ stage' = "close" /\ rawPlugin' = FALSE /\ UNCHANGED <<opened, handle>>
    BY <1>1, <1>15, ServerAssumption DEF Server!DestroyRaw, LoadInv
  <2>2. rawPlugin' \in BOOLEAN /\ ~rawPlugin'
    BY <2>1, Zenon
  <2> QED BY <1>9, <2>1, <2>2
<1>16. CASE Server!CloseRaw
  <2>1. /\ handle \in Libraries /\ handle' = Nil /\ opened' = [opened EXCEPT ![handle] = @ - 1]
        /\ stage' = "leave" /\ rawPlugin' = rawPlugin /\ ~rawPlugin /\ rawPlugin \in BOOLEAN
    BY <1>1, <1>16 DEF Server!CloseRaw, Server!Closed, LoadInv, ServerTypes
  <2> QED BY <1>11, <2>1
<1>17. CASE Server!LeaveScope
  <2>1. /\ handle = Nil /\ stage' = "destroy" /\ UNCHANGED <<opened, handle, rawPlugin>>
        /\ ~rawPlugin /\ rawPlugin \in BOOLEAN
    BY <1>1, <1>17 DEF Server!LeaveScope, Server!Fails, LoadInv, ServerTypes
  <2> QED BY <1>9, <2>1
<1> QED BY <1>12, <1>13, <1>14, <1>15, <1>16, <1>17

\* What was held by the loading is held by the plugin that is stored.
LEMMA StoreKeeps ==
  ASSUME ServerInv, Server!StorePlugin
  PROVE  ServerInv'
<1> DEFINE n == Len(plugins)
           next == [library |-> handle, plugin |-> TRUE]
<1>1. /\ stage = "store" /\ stage' = "open" /\ plugins' = Append(plugins, next)
      /\ handle' = Nil /\ rawPlugin' = FALSE /\ UNCHANGED <<document, opened, table>>
      /\ ServerTypes /\ CountInv /\ RouteInv
  BY DEF Server!StorePlugin, ServerInv
<1>2. /\ bound' = IF Server!Entry.name \in DOMAIN bound THEN bound
                 ELSE [x \in DOMAIN bound \cup {Server!Entry.name} |->
                         IF x = Server!Entry.name THEN [plugin |-> Len(plugins) + 1, names |-> registered]
                         ELSE bound[x]]
  BY DEF Server!StorePlugin
<1>3. handle \in Libraries /\ n < Len(document.plugins.entries)
  BY <1>1 DEF ServerInv, LoadInv
<1>4. Server!Entry = document.plugins.entries[n + 1]
  BY <1>1, <1>3, EntryIs
<1>5. /\ plugins \in Seq(PluginRecord) /\ n \in Nat /\ next \in PluginRecord /\ DOMAIN plugins = 1..n
      /\ opened \in [Libraries -> Int]
  BY <1>1, <1>3 DEF ServerTypes, PluginRecord
<1>6. /\ plugins' \in Seq(PluginRecord) /\ DOMAIN plugins' = 1..n + 1 /\ Len(plugins') = n + 1
      /\ \A i \in 1..n : plugins'[i] = plugins[i]
      /\ plugins'[n + 1].library = handle /\ plugins'[n + 1].plugin
  BY <1>1, <1>5, AppendProperties
<1> HIDE DEF n, next
<1>7. ServerTypes'
  <2>1. document' \in Server!Documents' /\ Server!Acceptable(document)'
    BY <1>1, SameDocument
  <2>2. rawPlugin' \in BOOLEAN /\ ~rawPlugin'
    BY <1>1, Zenon
  <2> QED BY <1>1, <1>5, <1>6, <2>1, <2>2 DEF ServerTypes
<1>8. LoadInv'
  BY <1>1 DEF LoadInv
<1>9. CountInv'
  <2>1. ASSUME NEW l \in Libraries PROVE opened'[l] = Cardinality(Holding(l)') + (IF Nil = l THEN 1 ELSE 0)
    <3>1. /\ opened[l] = Cardinality(Holding(l)) + (IF handle = l THEN 1 ELSE 0)
          /\ IsFiniteSet(Holding(l)) /\ Cardinality(Holding(l)) \in Nat /\ Holding(l) \subseteq 1..n
      BY <1>1, HoldersAreFinite DEF CountInv, n
    <3>2. n + 1 \notin Holding(l)
      BY <1>5, <3>1
    <3>3. Holding(l)' = IF handle = l THEN Holding(l) \cup {n + 1} ELSE Holding(l)
      BY <1>5, <1>6 DEF Holding
    <3>4. Cardinality(Holding(l)') = Cardinality(Holding(l)) + (IF handle = l THEN 1 ELSE 0)
      <4>1. CASE handle = l
        <5>1. Cardinality(Holding(l) \cup {n + 1}) = Cardinality(Holding(l)) + 1
          BY <3>1, <3>2, FS_AddElement
        <5> QED BY <3>1, <3>3, <4>1, <5>1
      <4>2. CASE handle # l
        BY <3>1, <3>3, <4>2
      <4> QED BY <4>1, <4>2
    <3> QED BY <1>1, <3>1, <3>4, ServerAssumption
  <2>2. \A i \in DOMAIN plugins' : plugins'[i].plugin => plugins'[i].library # Nil
    BY <1>1, <1>3, <1>5, <1>6, ServerAssumption DEF CountInv
  <2> QED BY <1>1, <2>1, <2>2 DEF CountInv
<1>10. RouteInv'
  <2>1. \A i \in DOMAIN plugins' : plugins'[i].plugin
    BY <1>1, <1>5, <1>6 DEF RouteInv
  <2>2. ASSUME NEW x \in DOMAIN bound'
        PROVE  bound'[x].plugin \in DOMAIN plugins' /\ document'.plugins.entries[bound'[x].plugin].name = x
    <3>1. CASE x \in DOMAIN bound
      <4>1. bound'[x] = bound[x]
        BY <1>2, <3>1
      <4>2. bound[x].plugin \in 1..n /\ document.plugins.entries[bound[x].plugin].name = x
        BY <1>1, <1>5, <3>1 DEF RouteInv
      <4> QED BY <1>1, <1>5, <1>6, <4>1, <4>2
    <3>2. CASE x \notin DOMAIN bound
      <4>1. x = Server!Entry.name /\ bound'[x].plugin = n + 1
        BY <1>2, <2>2, <3>2 DEF n
      <4> QED BY <1>1, <1>4, <1>5, <1>6, <4>1
    <3> QED BY <3>1, <3>2
  <2>3. ASSUME NEW j, Bound(j) PROVE Bound(j)'
    <3>1. DOMAIN plugins \subseteq DOMAIN plugins'
      BY <1>5, <1>6
    <3> QED BY <1>1, <2>3, <3>1 DEF Bound
  <2> QED BY <1>1, <2>1, <2>2, <2>3 DEF RouteInv
<1> QED BY <1>1, <1>7, <1>8, <1>9, <1>10 DEF ServerInv

LEMMA BindKeeps ==
  ASSUME ServerInv, Server!BindRoute
  PROVE  ServerInv'
<1> DEFINE R == Cardinality(DOMAIN table)
           r == Server!Route
           key == <<r.method, r.path>>
<1>1. /\ stage = "open" /\ UNCHANGED <<document, opened, handle, rawPlugin, plugins, bound>>
      /\ ServerTypes /\ LoadInv /\ CountInv /\ RouteInv
  BY DEF Server!BindRoute, ServerInv, Server!loading
<1>2. \/ /\ r.plugin \in DOMAIN bound /\ key \notin DOMAIN table /\ stage' = "open"
         /\ table' = [k \in DOMAIN table \cup {key} |->
                        IF k = key THEN [plugin |-> bound[r.plugin].plugin, handler |-> r.handler] ELSE table[k]]
      \/ stage' = "destroy" /\ table' = table
  BY <1>1 DEF Server!BindRoute, Server!Key, Server!Fails
<1>3. r = document.routes.entries[R + 1] /\ R \in Nat /\ IsFiniteSet(DOMAIN table)
  BY <1>1, SameCount, FS_CardinalityType DEF RouteInv, Server!Route, Server!Routed
<1> HIDE DEF R, r
<1>4. ServerTypes'
  <2>1. document' \in Server!Documents' /\ Server!Acceptable(document)'
    BY <1>1, SameDocument
  <2> QED BY <1>1, <2>1 DEF ServerTypes
<1>5. LoadInv'
  BY <1>1, <1>2 DEF LoadInv
<1>6. CountInv'
  <2>1. \A l : Holding(l)' = Holding(l)
    BY <1>1 DEF Holding
  <2> QED BY <1>1, <2>1 DEF CountInv
<1>7. ASSUME stage' # "destroy" PROVE RouteInv'
  <2>1. /\ r.plugin \in DOMAIN bound /\ key \notin DOMAIN table /\ stage' = "open"
        /\ table' = [k \in DOMAIN table \cup {key} |->
                       IF k = key THEN [plugin |-> bound[r.plugin].plugin, handler |-> r.handler] ELSE table[k]]
    BY <1>2, <1>7
  <2>2. DOMAIN table' = DOMAIN table \cup {key}
    BY <2>1
  <2>3. IsFiniteSet(DOMAIN table') /\ Cardinality(DOMAIN table') = R + 1
    BY <1>3, <2>1, <2>2, FS_AddElement DEF R
  <2>4. /\ table'[key].plugin = bound[r.plugin].plugin /\ table'[key].handler = r.handler
        /\ \A k \in DOMAIN table : table'[k] = table[k]
    BY <2>1
  <2>5. ASSUME NEW j \in 1..R + 1 PROVE Bound(j)'
    <3>1. CASE j = R + 1
      <4>1. bound[r.plugin].plugin \in DOMAIN plugins /\ document.plugins.entries[bound[r.plugin].plugin].name = r.plugin
        BY <1>1, <2>1 DEF RouteInv
      <4>2. document'.routes.entries[j] = r /\ key = <<r.method, r.path>>
        BY <1>1, <1>3, <3>1
      <4> QED BY <1>1, <2>2, <2>4, <4>1, <4>2 DEF Bound
    <3>2. CASE j # R + 1
      <4>1. j \in 1..R
        BY <1>3, <3>2
      <4>2. Bound(j)
        BY <1>1, <4>1 DEF RouteInv, R
      <4> QED BY <1>1, <2>2, <2>4, <4>2 DEF Bound
    <3> QED BY <3>1, <3>2
  <2> QED BY <1>1, <2>1, <2>3, <2>5 DEF RouteInv
<1>8. stage' \in {"open", "destroy"}
  BY <1>2
<1> QED BY <1>4, <1>5, <1>6, <1>7, <1>8 DEF ServerInv

\* A plugin goes before its library.
LEMMA DestroyKeeps ==
  ASSUME ServerInv, Server!DestroyPlugin
  PROVE  ServerInv'
<1>1. PICK i \in DOMAIN plugins : plugins' = [plugins EXCEPT ![i].plugin = FALSE]
  BY DEF Server!DestroyPlugin
<1>2. /\ stage = "destroy" /\ stage' = "destroy"
      /\ UNCHANGED <<document, opened, handle, rawPlugin, bound, table>>
      /\ ServerTypes /\ LoadInv /\ CountInv
  BY DEF Server!DestroyPlugin, Server!loading, ServerInv
<1>3. plugins \in Seq(PluginRecord) /\ plugins[i] \in PluginRecord
  BY <1>2 DEF ServerTypes
<1>4. /\ plugins' \in Seq(PluginRecord) /\ DOMAIN plugins' = DOMAIN plugins
      /\ \A k \in DOMAIN plugins : plugins'[k].library = plugins[k].library
      /\ ~plugins'[i].plugin /\ \A k \in DOMAIN plugins \ {i} : plugins'[k] = plugins[k]
  <2> DEFINE idle == [plugins[i] EXCEPT !.plugin = FALSE]
  <2>1. idle \in PluginRecord /\ idle.library = plugins[i].library /\ ~idle.plugin
    BY <1>3 DEF PluginRecord
  <2>2. plugins' = [plugins EXCEPT ![i] = idle]
    BY <1>1
  <2> HIDE DEF idle
  <2> QED BY <1>3, <2>1, <2>2
<1>5. ServerTypes'
  BY <1>2, <1>4, SameDocument DEF ServerTypes
<1>6. LoadInv'
  BY <1>2 DEF LoadInv
<1>7. \A l : Holding(l)' = Holding(l)
  BY <1>4 DEF Holding
<1>8. CountInv'
  BY <1>2, <1>4, <1>7 DEF CountInv
<1> QED BY <1>2, <1>5, <1>6, <1>8 DEF ServerInv

\* The libraries are closed one after the other.
LEMMA UnloadPlugins ==
  ASSUME ServerInv, Server!CloseLibrary
  PROVE  ServerInv'
<1>1. PICK i \in DOMAIN plugins :
        /\ plugins[i].library # Nil /\ opened' = [opened EXCEPT ![plugins[i].library] = @ - 1]
        /\ ~plugins[i].plugin /\ plugins' = [plugins EXCEPT ![i].library = Nil]
  BY DEF Server!CloseLibrary, Server!Closed, Server!IsNext
<1>2. /\ stage = "destroy" /\ stage' = "destroy" /\ UNCHANGED <<document, handle, rawPlugin, bound, table>>
      /\ ServerTypes /\ LoadInv /\ CountInv
  BY DEF Server!CloseLibrary, Server!loading, ServerInv
<1> DEFINE m == plugins[i].library
<1>3. /\ plugins \in Seq(PluginRecord) /\ plugins[i] \in PluginRecord
      /\ opened \in [Libraries -> Int]
  BY <1>2 DEF ServerTypes
<1>4. m \in Libraries
  BY <1>1, <1>3 DEF PluginRecord
<1> HIDE DEF m
<1>5. /\ plugins' \in Seq(PluginRecord) /\ DOMAIN plugins' = DOMAIN plugins
      /\ plugins'[i].library = Nil /\ ~plugins'[i].plugin
      /\ \A k \in DOMAIN plugins \ {i} : plugins'[k] = plugins[k]
  BY <1>1, <1>3 DEF PluginRecord
<1>6. ServerTypes'
  <2>1. document' \in Server!Documents' /\ Server!Acceptable(document)'
    BY <1>2, SameDocument
  <2>2. opened' \in [Libraries -> Int]
    BY <1>1, <1>3, <1>4 DEF m
  <2> QED BY <1>2, <1>5, <2>1, <2>2 DEF ServerTypes
<1>7. LoadInv'
  BY <1>2 DEF LoadInv
<1>8. ASSUME NEW l \in Libraries PROVE opened'[l] = Cardinality(Holding(l)') + (IF handle' = l THEN 1 ELSE 0)
  <2>1. /\ opened[l] = Cardinality(Holding(l)) + (IF handle = l THEN 1 ELSE 0) /\ handle = Nil /\ l # Nil
        /\ IsFiniteSet(Holding(l)) /\ Cardinality(Holding(l)) \in Nat
    BY <1>2, HoldersAreFinite, ServerAssumption DEF CountInv, LoadInv
  <2>2. Holding(l)' = Holding(l) \ {i}
    BY <1>3, <1>5, <2>1 DEF Holding
  <2>3. i \in Holding(l) <=> l = m
    BY <1>1 DEF Holding, m
  <2>4. Cardinality(Holding(l)') = Cardinality(Holding(l)) - (IF l = m THEN 1 ELSE 0)
    <3>1. CASE l = m
      <4>1. Cardinality(Holding(l) \ {i}) = Cardinality(Holding(l)) - 1
        BY <2>1, <2>3, <3>1, FS_RemoveElement
      <4> QED BY <2>1, <2>2, <3>1, <4>1
    <3>2. CASE l # m
      <4>1. Holding(l)' = Holding(l)
        BY <2>2, <2>3, <3>2
      <4> QED BY <2>1, <3>2, <4>1
    <3> QED BY <3>1, <3>2
  <2>5. opened'[l] = opened[l] - (IF l = m THEN 1 ELSE 0)
    BY <1>1, <1>3, <1>4, <2>1 DEF m
  <2> QED BY <1>2, <2>1, <2>4, <2>5
<1>9. CountInv'
  BY <1>2, <1>3, <1>5, <1>8 DEF CountInv
<1> QED BY <1>2, <1>6, <1>7, <1>9 DEF ServerInv

LEMMA GoneKeeps ==
  ASSUME ServerInv, Server!Gone
  PROVE  ServerInv'
<1>1. /\ stage = "destroy" /\ stage' = "gone" /\ plugins' = <<>> /\ UNCHANGED <<document, opened, handle, rawPlugin>>
      /\ \A i \in DOMAIN plugins : plugins[i].library = Nil
      /\ ServerTypes /\ LoadInv /\ CountInv
  BY DEF Server!Gone, Server!loading, ServerInv
<1>2. document' \in Server!Documents' /\ Server!Acceptable(document)'
  BY <1>1, SameDocument
<1>3. ServerTypes'
  BY <1>1, <1>2, EmptySeq DEF ServerTypes
<1>4. LoadInv'
  BY <1>1 DEF LoadInv
<1>5. ASSUME NEW l \in Libraries PROVE opened'[l] = Cardinality(Holding(l)') + (IF handle' = l THEN 1 ELSE 0)
  <2>1. Holding(l) = {} /\ Holding(l)' = {}
    BY <1>1, ServerAssumption DEF Holding
  <2> QED BY <1>1, <2>1 DEF CountInv
<1>6. DOMAIN plugins' = {}
  BY <1>1
<1>7. CountInv'
  BY <1>5, <1>6 DEF CountInv
<1> QED BY <1>1, <1>3, <1>4, <1>7 DEF ServerInv

LEMMA ServerKeeps ==
  ASSUME ServerInv, [Server!Next]_serverVars
  PROVE  ServerInv'
<1>1. CASE Server!Next
  BY <1>1, LifeKeeps, LibraryKeeps, StoreKeeps, BindKeeps, DestroyKeeps, UnloadPlugins, GoneKeeps DEF Server!Next
<1>2. CASE UNCHANGED serverVars
  <2>1. /\ UNCHANGED <<document, stage, opened, handle, rawPlugin, plugins, bound, table>>
        /\ ServerTypes /\ LoadInv /\ CountInv
    BY <1>2 DEF serverVars, ServerInv
  <2>2. ServerTypes' /\ LoadInv'
    BY <2>1, SameDocument DEF ServerTypes, LoadInv, Server!Nowhere
  <2>3. CountInv' /\ (stage \notin {"destroy", "gone"} => RouteInv')
    BY <2>1, StoredStay DEF ServerInv, RouteInv
  <2> QED BY <2>1, <2>2, <2>3 DEF ServerInv
<1> QED BY <1>1, <1>2

LEMMA ServerHeld ==
  ASSUME ServerInv
  PROVE  Server!PluginsAreHeld
<1>1. ServerTypes /\ LoadInv /\ CountInv
  BY DEF ServerInv
<1>2. Server!LibrariesAreHeld
  <2>1. ASSUME NEW l \in Libraries
        PROVE  opened[l] = Server!Cardinality({i \in DOMAIN plugins : plugins[i].library = l}) + (IF handle = l THEN 1 ELSE 0)
    BY <1>1, SameCount DEF CountInv, Holding
  <2>2. rawPlugin => handle # Nil
    BY <1>1, ServerAssumption DEF LoadInv
  <2> QED BY <1>1, <2>1, <2>2 DEF Server!LibrariesAreHeld, CountInv
<1>3. Server!RoutesAreServed
  <2>1. SUFFICES ASSUME stage \in {"built", "serving"}, NEW j \in DOMAIN document.routes.entries
                 PROVE  LET r == document.routes.entries[j]
                            to == Server!Dispatch(r.method, r.path)
                        IN /\ to.handler = r.handler /\ plugins[to.plugin].plugin
                           /\ document.plugins.entries[to.plugin].name = r.plugin
    BY DEF Server!RoutesAreServed
  <2>2. RouteInv /\ document.routes.entries \in Seq(Server!RouteEntries)
    BY <1>1, <2>1, DocumentIsWhole DEF ServerInv
  <2>3. j \in 1..Cardinality(DOMAIN table)
    BY <2>1, <2>2 DEF RouteInv
  <2>4. Bound(j) /\ \A i \in DOMAIN plugins : plugins[i].plugin
    BY <2>2, <2>3 DEF RouteInv
  <2> QED BY <2>4 DEF Bound, Server!Dispatch
<1>4. ASSUME stage \in {"refused", "gone"}, NEW l \in Libraries PROVE opened[l] = 0
  <2>1. Holding(l) = {} /\ handle = Nil
    BY <1>1, <1>4 DEF LoadInv, Holding
  <2> QED BY <1>1, <2>1, FS_EmptySet, ServerAssumption DEF CountInv
<1> QED BY <1>2, <1>3, <1>4 DEF Server!PluginsAreHeld

\* However the building of a server ends, its libraries are closed as often as
\* they were opened, each time after the plugin that came from there is
\* destroyed, and a server that was built serves its document
\* (ConfiguredServer::createFromFile and the destructor).  The handlers of a
\* plugin are not plugins: nothing is stated of when they go.
THEOREM LibrariesGoBack == PartsSpec => []PluginsAreHeld
<1> DEFINE I == part = "server" => ServerInv
<1>1. PartsInit => I
  BY ServerInit DEF PartsInit
<1>2. I /\ [PartsNext]_partsVars => I'
  BY PartStays, ServerAlone, ServerKeeps
<1>3. I => PluginsAreHeld
  BY ServerHeld DEF PluginsAreHeld
<1> QED BY <1>1, <1>2, <1>3, PTL DEF PartsSpec

-----------------------------------------------------------------------------
(***************************************************************************)
(* The position of the mouse.  While there is one watch thread, it writes  *)
(* into the buffer that is not shown, and what it has written there        *)
(* becomes visible with the sequence number, all at once.  The buffer that *)
(* was shown before stays as it is until the next update begins.           *)
(***************************************************************************)
LEMMA MouseAlone ==
  ASSUME [PartsNext]_partsVars, part = "mouse"
  PROVE  [Mouse!Next]_mouseVars
BY DEF PartsNext, partsVars, threadVars, CameraPart, OrderedPart, SafePart, LogPart, DisplayPart,
       UdevPart, MousePart, ParamPart, ServerPart, DmaPart, MemoryPart, ConfigPart, DevicesPart,
       HttpPart, JpegPart, ContextPart

\* The steps of the other parts leave the mouse alone.
LEMMA MouseRests ==
  ASSUME [PartsNext]_partsVars, part # "mouse"
  PROVE  UNCHANGED mouseVars
BY DEF PartsNext, partsVars, threadVars, dataVars, CameraPart, OrderedPart, SafePart, LogPart, DisplayPart,
       UdevPart, MousePart, ParamPart, ServerPart, DmaPart, MemoryPart, ConfigPart, DevicesPart,
       HttpPart, JpegPart, ContextPart, BesideTheCamera, BesideTheOrdered, BesideTheSafe, BesideTheLog,
       BesideTheDisplay, BesideTheUdev, BesideTheParam, BesideTheServer, BesideTheDma,
       BesideTheMemory, BesideTheConfig, BesideTheDevices, BesideTheHttp, BesideTheJpeg

WatchPlaces == {"gone", "top", "check", "wait", "asleep", "read", "load", "x", "y", "store"}

MouseTypes ==
  /\ events \in [{0, 1} -> [x : Int, y : Int, buttons : SUBSET Int]]
  /\ sequence \in Nat /\ latest \in [{0, 1} -> Int \X Int]
  /\ watch \in [Watchers -> [at : WatchPlaces, x : Int, y : Int, type : {"x", "y", "button"},
                             value : Int, seq : Nat]]
  /\ reader \in [Readers -> [at : {"idle", "x", "y", "done"}, seq : Nat, x : Int, y : Int]]
  /\ screenSize \in [w : Int, h : Int] /\ doubled \in BOOLEAN

Shown == events[sequence % 2]
Hidden == events[(sequence + 1) % 2]

ShownHolds == <<Shown.x, Shown.y>> = latest[sequence % 2]
HiddenHolds == <<Hidden.x, Hidden.y>> = latest[(sequence + 1) % 2]

\* What a watch thread has written so far is in the hidden buffer.
WriterHides(w) ==
  /\ watch[w].at \in {"x", "y", "store"} => watch[w].seq = sequence
  /\ watch[w].at \in {"y", "store"} => Hidden.x = watch[w].x
  /\ watch[w].at = "store" => Hidden.y = watch[w].y

\* A reader that is not overtaken has read half of what was published there.
ReaderSees(r) ==
  /\ reader[r].at \in {"x", "y"} => reader[r].seq <= sequence
  /\ reader[r].at = "y" /\ ~Mouse!Overtaken(r) => reader[r].x = latest[reader[r].seq % 2][1]

OneWriter ==
  /\ \A w, v \in Watchers : watch[w].at # "gone" /\ watch[v].at # "gone" => w = v
  /\ \A w \in Watchers : WriterHides(w)
  /\ ShownHolds
  /\ (\A w \in Watchers : watch[w].at \notin {"y", "store"}) => HiddenHolds
  /\ \A r \in Readers : ReaderSees(r)

MouseInv == MouseTypes /\ (~doubled => OneWriter)

LEMMA Halves ==
  \A n \in Nat : /\ n % 2 \in {0, 1} /\ (n + 1) % 2 \in {0, 1}
                 /\ n % 2 # (n + 1) % 2 /\ (n + 2) % 2 = n % 2
OBVIOUS

LEMMA MouseInit == Mouse!Init => MouseInv
<1> SUFFICES ASSUME Mouse!Init PROVE MouseInv
  OBVIOUS
<1>1. Mouse!Nowhere \in [at : WatchPlaces, x : Int, y : Int, type : {"x", "y", "button"},
                        value : Int, seq : Nat] /\ Mouse!Nowhere.at = "gone"
  BY DEF Mouse!Nowhere, WatchPlaces
<1>2. watch \in [Watchers -> [at : WatchPlaces, x : Int, y : Int, type : {"x", "y", "button"},
                             value : Int, seq : Nat]]
      /\ \A w \in Watchers : watch[w].at = "gone"
  BY <1>1 DEF Mouse!Init
<1>3. reader \in [Readers -> [at : {"idle", "x", "y", "done"}, seq : Nat, x : Int, y : Int]]
      /\ \A r \in Readers : reader[r].at = "idle"
  BY DEF Mouse!Init
<1>4. /\ events \in [{0, 1} -> [x : Int, y : Int, buttons : SUBSET Int]]
      /\ \A i \in {0, 1} : events[i].x = 0 /\ events[i].y = 0 /\ latest[i] = <<0, 0>>
      /\ sequence = 0 /\ latest = [i \in {0, 1} |-> <<0, 0>>] /\ screenSize = [w |-> 0, h |-> 0] /\ doubled = FALSE
  BY DEF Mouse!Init
<1>5. MouseTypes
  <2>1. screenSize \in [w : Int, h : Int] /\ sequence \in Nat
    BY <1>4
  <2>2. latest \in [{0, 1} -> Int \X Int]
    BY <1>4
  <2>3. doubled \in BOOLEAN
    BY <1>4
  <2> QED BY <1>2, <1>3, <1>4, <2>1, <2>2, <2>3 DEF MouseTypes
<1>6. OneWriter
  BY <1>2, <1>3, <1>4 DEF OneWriter, WriterHides, ReaderSees, ShownHolds, HiddenHolds, Shown, Hidden
<1> QED BY <1>5, <1>6 DEF MouseInv

\* The client, the hot-plug and the first steps of a watch thread publish nothing.
LEMMA StartsKeep ==
  ASSUME MouseInv, Mouse!StartThread,
         UNCHANGED <<events, sequence, latest, reader, screenSize>>
  PROVE  MouseInv'
<1>1. CASE watchRuns
  <2>1. watch' = watch /\ doubled' = doubled
    BY <1>1 DEF Mouse!StartThread
  <2> QED BY <2>1 DEF MouseInv, MouseTypes, OneWriter, WriterHides, ReaderSees, Shown, Hidden, ShownHolds,
                      HiddenHolds, Mouse!Overtaken
<1>2. CASE ~watchRuns
  <2> DEFINE Fresh == [Mouse!Nowhere EXCEPT !.at = "top"]
  <2>1. PICK w \in Watchers : watch[w].at = "gone" /\ watch' = [watch EXCEPT ![w] = Fresh]
    BY <1>2 DEF Mouse!StartThread, Mouse!Alive
  <2>2. doubled' = (doubled \/ Mouse!Alive # {})
    BY <1>2 DEF Mouse!StartThread
  <2>3. Fresh \in [at : WatchPlaces, x : Int, y : Int, type : {"x", "y", "button"},
                   value : Int, seq : Nat] /\ Fresh.at = "top"
    BY DEF Mouse!Nowhere, WatchPlaces
  <2> HIDE DEF Fresh
  <2>4. doubled' \in BOOLEAN
    BY <2>2, Zenon DEF MouseInv, MouseTypes
  <2>5. MouseTypes'
    BY <2>1, <2>3, <2>4 DEF MouseInv, MouseTypes
  <2>6. ASSUME ~doubled' PROVE OneWriter'
    <3>1. ~doubled /\ Mouse!Alive = {}
      BY <2>2, <2>6, Zenon
    <3>2. \A v \in Watchers : watch[v].at = "gone"
      BY <3>1 DEF Mouse!Alive
    <3>3. watch'[w].at = "top" /\ \A v \in Watchers \ {w} : watch'[v].at = "gone"
      BY <2>1, <2>3, <3>2 DEF MouseInv, MouseTypes
    <3>4. \A v \in Watchers : WriterHides(v)'
      BY <3>3 DEF WriterHides
    <3>5. \A r \in Readers : ReaderSees(r)'
      BY <3>1, <3>2, <3>3 DEF MouseInv, OneWriter, ReaderSees, Mouse!Overtaken
    <3>6. ShownHolds' /\ HiddenHolds'
      BY <3>1, <3>2 DEF MouseInv, OneWriter, ShownHolds, HiddenHolds, Shown, Hidden
    <3> QED BY <3>1, <3>3, <3>4, <3>5, <3>6 DEF OneWriter
  <2> QED BY <2>5, <2>6 DEF MouseInv
<1> QED BY <1>1, <1>2

LEMMA MouseStays ==
  ASSUME MouseInv, UNCHANGED <<events, sequence, latest, watch, reader, doubled>>,
         screenSize' \in [w : Int, h : Int]
  PROVE  MouseInv'
BY DEF MouseInv, MouseTypes, OneWriter, WriterHides, ReaderSees, Shown, Hidden, ShownHolds, HiddenHolds,
       Mouse!Overtaken

LEMMA CallsKeep ==
  ASSUME MouseInv, Mouse!ClientNext \/ \E h \in Handlers : Mouse!HotPauseAsk(h) \/ Mouse!HotPause(h) \/ Mouse!HotSwap(h)
  PROVE  MouseInv' /\ reader' = reader
<1>1. screenSize \in [w : Int, h : Int] /\ [w |-> Width, h |-> Height] \in [w : Int, h : Int]
  BY MouseAssumption DEF MouseInv, MouseTypes
<1>2. CASE \/ Mouse!Stop \/ Mouse!PauseAsk \/ Mouse!ResumeAsk \/ Mouse!PauseDo \/ Mouse!ResumeDo \/ Mouse!SetScreenSize
           \/ \E h \in Handlers : Mouse!HotPauseAsk(h) \/ Mouse!HotPause(h)
  <2>1. UNCHANGED <<events, sequence, latest, watch, reader, doubled>> /\ screenSize' \in [w : Int, h : Int]
    BY <1>1, <1>2 DEF Mouse!Stop, Mouse!PauseAsk, Mouse!ResumeAsk, Mouse!PauseDo, Mouse!ResumeDo,
       Mouse!SetScreenSize, Mouse!HotPauseAsk, Mouse!HotPause, Mouse!Calls, Mouse!switches,
       Mouse!buffersOf, Mouse!actors, Mouse!bounds
  <2> QED BY <2>1, MouseStays
<1>3. CASE Mouse!Start
  <2>1. Mouse!StartThread /\ UNCHANGED <<events, sequence, latest, reader, screenSize>>
    BY <1>3 DEF Mouse!Start, Mouse!buffersOf
  <2> QED BY <2>1, StartsKeep
<1>4. ASSUME NEW h \in Handlers, Mouse!HotSwap(h) PROVE MouseInv' /\ reader' = reader
  <2>1. UNCHANGED <<events, sequence, latest, reader, screenSize>>
    BY <1>4 DEF Mouse!HotSwap, Mouse!buffersOf
  <2>2. Mouse!StartThread \/ UNCHANGED <<watch, doubled>>
    BY <1>4 DEF Mouse!HotSwap
  <2>3. CASE UNCHANGED <<watch, doubled>>
    BY <1>1, <2>1, <2>3, MouseStays
  <2> QED BY <2>1, <2>2, <2>3, StartsKeep
<1> QED BY <1>2, <1>3, <1>4 DEF Mouse!ClientNext

\* updateMouseEvent, and the way round to it.
LEMMA WatcherKeeps ==
  ASSUME MouseInv, NEW w \in Watchers, Mouse!WatchNext(w)
  PROVE  MouseInv' /\ reader' = reader
<1> DEFINE Watch == [at : WatchPlaces, x : Int, y : Int, type : {"x", "y", "button"}, value : Int, seq : Nat]
           quiet == {"gone", "top", "check", "wait", "asleep", "read", "load"}
<1>1. /\ watch[w] \in Watch /\ watch \in [Watchers -> Watch]
      /\ events \in [{0, 1} -> [x : Int, y : Int, buttons : SUBSET Int]]
      /\ sequence \in Nat /\ latest \in [{0, 1} -> Int \X Int] /\ MouseTypes
  BY DEF MouseInv, MouseTypes
<1>2. watch[w].at # "gone" /\ reader' = reader /\ screenSize' = screenSize /\ doubled' = doubled
  BY DEF Mouse!WatchNext, Mouse!WatchTop, Mouse!WaitIfPaused, Mouse!ReadNothing, Mouse!ReadEvent,
     Mouse!LoadSequence, Mouse!WriteEvent, Mouse!StoreSequence, Mouse!At, Mouse!WatchKeeps
<1>3. ASSUME UNCHANGED <<events, sequence, latest>>, watch[w].at \notin {"x", "y", "store"},
             NEW me \in Watch, watch' = [watch EXCEPT ![w] = me],
             me.at \in quiet \/ (me.at = "x" /\ me.seq = sequence)
      PROVE  MouseInv'
  <2>1. watch' \in [Watchers -> Watch] /\ watch'[w] = me /\ \A v \in Watchers \ {w} : watch'[v] = watch[v]
    BY <1>1, <1>3
  <2>2. MouseTypes'
    BY <1>1, <1>2, <1>3, <2>1 DEF MouseTypes
  <2>3. ASSUME ~doubled PROVE OneWriter'
    <3>1. \A v, u \in Watchers : watch[v].at # "gone" /\ watch[u].at # "gone" => v = u
      BY <2>3 DEF MouseInv, OneWriter
    <3>2. \A v, u \in Watchers : watch'[v].at # "gone" /\ watch'[u].at # "gone" => v = u
      BY <1>2, <2>1, <3>1
    <3>3. \A v \in Watchers : WriterHides(v)'
      BY <1>2, <1>3, <2>1, <3>1 DEF WriterHides
    <3>4. ASSUME NEW r \in Readers PROVE ReaderSees(r)'
      <4>1. Mouse!Overtaken(r) => Mouse!Overtaken(r)'
        BY <1>2, <1>3, <2>1 DEF Mouse!Overtaken
      <4> QED BY <1>2, <1>3, <2>3, <4>1 DEF MouseInv, OneWriter, ReaderSees
    <3>5. ShownHolds'
      BY <1>3, <2>3 DEF MouseInv, OneWriter, Shown, ShownHolds
    <3>6. (\A v \in Watchers : watch'[v].at \notin {"y", "store"}) => HiddenHolds'
      <4>1. SUFFICES ASSUME \A v \in Watchers : watch'[v].at \notin {"y", "store"} PROVE HiddenHolds'
        OBVIOUS
      <4>2. \A v \in Watchers : watch[v].at \notin {"y", "store"}
        BY <1>3, <2>1, <4>1
      <4> QED BY <1>3, <2>3, <4>2 DEF MouseInv, OneWriter, Hidden, HiddenHolds
    <3> QED BY <3>2, <3>3, <3>4, <3>5, <3>6 DEF OneWriter
  <2> QED BY <1>2, <2>2, <2>3 DEF MouseInv
<1>4. CASE \/ Mouse!WatchTop(w) \/ Mouse!WaitIfPaused(w) \/ Mouse!ReadNothing(w)
  <2>1. UNCHANGED <<events, sequence, latest>> /\ watch[w].at \notin {"x", "y", "store"}
    BY <1>4 DEF Mouse!WatchTop, Mouse!WaitIfPaused, Mouse!ReadNothing, Mouse!buffersOf, Mouse!At
  <2>2. PICK spot \in quiet : watch' = [watch EXCEPT ![w].at = spot]
    BY <1>4 DEF Mouse!WatchTop, Mouse!WaitIfPaused, Mouse!ReadNothing, Mouse!WatchGoes
  <2>3. [watch[w] EXCEPT !.at = spot] \in Watch /\ [watch[w] EXCEPT !.at = spot].at = spot
    BY <1>1, <2>2 DEF WatchPlaces
  <2> QED BY <1>2, <1>3, <2>1, <2>2, <2>3
<1>5. CASE Mouse!ReadEvent(w)
  <2>1. PICK type \in {"x", "y", "button"}, value \in Values :
          watch' = [watch EXCEPT ![w] =
            [watch[w] EXCEPT !.at = "load", !.type = type, !.value = value,
               !.x = watch[w].x + (IF type = "x" THEN value ELSE 0),
               !.y = watch[w].y + (IF type = "y" THEN value ELSE 0)]]
    BY <1>5 DEF Mouse!ReadEvent
  <2> DEFINE x1 == watch[w].x + (IF type = "x" THEN value ELSE 0)
             y1 == watch[w].y + (IF type = "y" THEN value ELSE 0)
             me == [watch[w] EXCEPT !.at = "load", !.type = type, !.value = value, !.x = x1, !.y = y1]
  <2>2. x1 \in Int /\ y1 \in Int /\ value \in Int
    BY <1>1, MouseAssumption
  <2>3. watch' = [watch EXCEPT ![w] = me]
    BY <2>1
  <2> HIDE DEF x1, y1
  <2>4. me \in Watch /\ me.at = "load"
    BY <1>1, <2>2 DEF WatchPlaces
  <2>5. UNCHANGED <<events, sequence, latest>> /\ watch[w].at \notin {"x", "y", "store"}
    BY <1>5 DEF Mouse!ReadEvent, Mouse!buffersOf, Mouse!At
  <2> HIDE DEF me
  <2> QED BY <1>2, <1>3, <2>3, <2>4, <2>5
<1>6. CASE Mouse!LoadSequence(w)
  <2> DEFINE x1 == Mouse!Clamp(watch[w].x, 0, screenSize.w - 1)
             y1 == Mouse!Clamp(watch[w].y, 0, screenSize.h - 1)
             me == [watch[w] EXCEPT !.at = "x", !.seq = sequence, !.x = x1, !.y = y1]
  <2>1. UNCHANGED <<events, sequence, latest>> /\ watch[w].at \notin {"x", "y", "store"}
    BY <1>6 DEF Mouse!LoadSequence, Mouse!buffersOf, Mouse!At
  <2>2. watch' = [watch EXCEPT ![w] = me]
    BY <1>6 DEF Mouse!LoadSequence
  <2>3. x1 \in Int /\ y1 \in Int
    BY <1>1 DEF Mouse!Clamp, MouseTypes
  <2> HIDE DEF x1, y1
  <2>4. me \in Watch /\ me.at = "x" /\ me.seq = sequence
    BY <1>1, <2>3 DEF WatchPlaces
  <2> HIDE DEF me
  <2> QED BY <1>2, <1>3, <2>1, <2>2, <2>4
\* The invariant after a step that keeps this thread the one that writes.
<1>7. ASSUME NEW spot \in {"y", "store", "top"}, watch' = [watch EXCEPT ![w].at = spot],
             events' \in [{0, 1} -> [x : Int, y : Int, buttons : SUBSET Int]],
             sequence' \in Nat, latest' \in [{0, 1} -> Int \X Int],
             ~doubled => /\ WriterHides(w)' /\ ShownHolds'
                         /\ \/ /\ spot # "top" /\ watch[w].at \in {"x", "y"}
                               /\ UNCHANGED <<sequence, latest>>
                            \/ /\ spot = "top" /\ sequence' = sequence + 1 /\ HiddenHolds'
                               /\ latest'[sequence % 2] = latest[sequence % 2]
      PROVE  MouseInv'
  <2>1. /\ watch' \in [Watchers -> Watch] /\ watch'[w].at = spot
        /\ \A v \in Watchers \ {w} : watch'[v] = watch[v]
    BY <1>1, <1>7 DEF WatchPlaces
  <2>2. MouseTypes'
    BY <1>1, <1>2, <1>7, <2>1 DEF MouseTypes
  <2>3. ASSUME ~doubled PROVE OneWriter'
    <3>1. \A v, u \in Watchers : watch[v].at # "gone" /\ watch[u].at # "gone" => v = u
      BY <2>3 DEF MouseInv, OneWriter
    <3>2. \A v, u \in Watchers : watch'[v].at # "gone" /\ watch'[u].at # "gone" => v = u
      BY <1>2, <2>1, <3>1
    <3>3. \A v \in Watchers : WriterHides(v)'
      <4>1. ASSUME NEW v \in Watchers, v # w PROVE WriterHides(v)'
        BY <1>2, <2>1, <3>1, <4>1 DEF WriterHides
      <4> QED BY <1>7, <2>3, <4>1
    <3>4. ASSUME NEW r \in Readers PROVE ReaderSees(r)'
      <4>1. reader[r].seq \in Nat /\ ReaderSees(r)
        BY <2>3 DEF MouseInv, MouseTypes, OneWriter
      <4>2. CASE spot # "top"
        <5>1. Mouse!Overtaken(r) => Mouse!Overtaken(r)'
          BY <1>2, <1>7, <2>1, <2>3, <4>2 DEF Mouse!Overtaken
        <5> QED BY <1>2, <1>7, <2>3, <4>1, <4>2, <5>1 DEF ReaderSees
      <4>3. CASE spot = "top"
        <5>1. sequence' = sequence + 1 /\ latest'[sequence % 2] = latest[sequence % 2]
          BY <1>7, <2>3, <4>3
        <5>2. reader[r].at = "y" /\ ~Mouse!Overtaken(r)' => reader[r].seq = sequence
          BY <1>1, <1>2, <4>1, <5>1 DEF Mouse!Overtaken, ReaderSees
        <5>3. reader[r].seq = sequence => ~Mouse!Overtaken(r)
          BY <1>1, <4>1 DEF Mouse!Overtaken
        <5>4. reader[r].at \in {"x", "y"} => reader[r].seq <= sequence'
          BY <1>1, <4>1, <5>1 DEF ReaderSees
        <5> QED BY <1>2, <4>1, <5>1, <5>2, <5>3, <5>4 DEF ReaderSees
      <4> QED BY <4>2, <4>3
    <3>5. (\A v \in Watchers : watch'[v].at \notin {"y", "store"}) => HiddenHolds'
      BY <1>7, <2>1, <2>3
    <3> QED BY <1>7, <2>3, <3>2, <3>3, <3>4, <3>5 DEF OneWriter
  <2> QED BY <1>2, <2>2, <2>3 DEF MouseInv
<1>8. CASE Mouse!WriteEvent(w)
  <2> DEFINE into == Mouse!OtherIndex(watch[w].seq)
             old == events[into]
             pressed == IF watch[w].type = "button" THEN {watch[w].value} ELSE old.buttons
  <2>1. into \in {0, 1} /\ old \in [x : Int, y : Int, buttons : SUBSET Int] /\ pressed \in SUBSET Int
    BY <1>1 DEF Mouse!OtherIndex
  <2>2. sequence' = sequence /\ latest' = latest
    BY <1>8 DEF Mouse!WriteEvent
  <2>3. \/ /\ watch[w].at = "x" /\ watch' = [watch EXCEPT ![w].at = "y"]
           /\ events' = [events EXCEPT ![into].x = watch[w].x]
        \/ /\ watch[w].at = "y" /\ watch' = [watch EXCEPT ![w].at = "store"]
           /\ events' = [events EXCEPT ![into].y = watch[w].y,
                ![into].buttons = IF watch[w].type = "button" THEN {watch[w].value} ELSE @]
    BY <1>8 DEF Mouse!WriteEvent, Mouse!WatchGoes, Mouse!At
  <2>4. ~doubled => watch[w].seq = sequence /\ (watch[w].at = "y" => old.x = watch[w].x)
                    /\ (sequence + 1) % 2 \in {0, 1} /\ sequence % 2 \in {0, 1} /\ sequence % 2 # (sequence + 1) % 2
                    /\ into = (sequence + 1) % 2 /\ ShownHolds
    BY <1>1, <2>3, Halves DEF MouseInv, OneWriter, WriterHides, Hidden, Mouse!OtherIndex
  <2> HIDE DEF into
  <2>5. CASE watch[w].at = "x"
    <3>1. events' = [events EXCEPT ![into] = [x |-> watch[w].x, y |-> old.y, buttons |-> old.buttons]]
      BY <1>1, <2>1, <2>3, <2>5
    <3>2. /\ events' \in [{0, 1} -> [x : Int, y : Int, buttons : SUBSET Int]]
          /\ events'[into].x = watch[w].x /\ \A i \in {0, 1} \ {into} : events'[i] = events[i]
      BY <1>1, <2>1, <3>1
    <3>3. watch'[w].at = "y" /\ watch'[w].x = watch[w].x /\ watch'[w].seq = watch[w].seq
      BY <1>1, <2>3, <2>5
    <3>4. ~doubled => WriterHides(w)' /\ ShownHolds'
      BY <2>2, <2>4, <3>2, <3>3 DEF WriterHides, Hidden, Shown, ShownHolds
    <3> QED BY <1>1, <1>2, <1>7, <2>2, <2>3, <2>5, <3>2, <3>4
  <2>6. CASE watch[w].at = "y"
    <3>1. events' = [events EXCEPT ![into] = [x |-> old.x, y |-> watch[w].y, buttons |-> pressed]]
      BY <1>1, <2>1, <2>3, <2>6
    <3>2. /\ events' \in [{0, 1} -> [x : Int, y : Int, buttons : SUBSET Int]]
          /\ events'[into].x = old.x /\ events'[into].y = watch[w].y
          /\ \A i \in {0, 1} \ {into} : events'[i] = events[i]
      <4> HIDE DEF pressed
      <4> QED BY <1>1, <2>1, <3>1
    <3>3. /\ watch'[w].at = "store" /\ watch'[w].x = watch[w].x /\ watch'[w].y = watch[w].y
          /\ watch'[w].seq = watch[w].seq
      BY <1>1, <2>3, <2>6
    <3>4. ~doubled => WriterHides(w)' /\ ShownHolds'
      BY <2>2, <2>4, <2>6, <3>2, <3>3 DEF WriterHides, Hidden, Shown, ShownHolds
    <3> QED BY <1>1, <1>2, <1>7, <2>2, <2>3, <2>6, <3>2, <3>4
  <2> QED BY <2>3, <2>5, <2>6
<1>9. CASE Mouse!StoreSequence(w)
  <2> DEFINE into == Mouse!OtherIndex(watch[w].seq)
             here == <<watch[w].x, watch[w].y>>
  <2>1. /\ watch[w].at = "store" /\ watch' = [watch EXCEPT ![w].at = "top"] /\ events' = events
        /\ sequence' = watch[w].seq + 1 /\ latest' = [latest EXCEPT ![into] = here]
    BY <1>9 DEF Mouse!StoreSequence, Mouse!At, Mouse!WatchGoes
  <2>2. here \in Int \X Int /\ into \in {0, 1}
    BY <1>1 DEF Mouse!OtherIndex
  <2>3. /\ watch'[w].at = "top" /\ sequence' \in Nat /\ latest' \in [{0, 1} -> Int \X Int]
        /\ latest'[into] = here /\ \A i \in {0, 1} \ {into} : latest'[i] = latest[i]
    <3> HIDE DEF into, here
    <3> QED BY <1>1, <2>1, <2>2
  <2>4. CASE doubled
    <3>1. watch' \in [Watchers -> Watch]
      BY <1>1, <2>1 DEF WatchPlaces
    <3> QED BY <1>1, <1>2, <2>1, <2>3, <2>4, <3>1 DEF MouseInv, MouseTypes
  <2>5. CASE ~doubled
    <3>1. /\ watch[w].seq = sequence /\ Hidden.x = watch[w].x /\ Hidden.y = watch[w].y
          /\ ShownHolds
      BY <2>1, <2>5 DEF MouseInv, OneWriter, WriterHides
    <3>2. /\ sequence % 2 \in {0, 1} /\ sequence % 2 # into /\ into = (sequence + 1) % 2
          /\ sequence' = sequence + 1 /\ (sequence' + 1) % 2 = sequence % 2
      BY <1>1, <2>1, <3>1, Halves DEF Mouse!OtherIndex
    <3>3. latest'[sequence % 2] = latest[sequence % 2]
      BY <2>3, <3>2
    <3> HIDE DEF into
    <3>4. ShownHolds'
      BY <2>1, <2>3, <3>1, <3>2 DEF Hidden, Shown, ShownHolds
    <3>5. HiddenHolds'
      BY <2>1, <3>1, <3>2, <3>3 DEF Hidden, Shown, ShownHolds, HiddenHolds
    <3>6. WriterHides(w)'
      BY <2>3 DEF WriterHides
    <3>7. events' \in [{0, 1} -> [x : Int, y : Int, buttons : SUBSET Int]]
      BY <1>1, <2>1
    <3>8. MouseInv'
      BY <1>7, <2>1, <2>3, <3>2, <3>3, <3>4, <3>5, <3>6, <3>7
    <3> QED BY <1>2, <3>8
  <2> QED BY <2>4, <2>5
<1> QED BY <1>2, <1>4, <1>5, <1>6, <1>8, <1>9 DEF Mouse!WatchNext

\* A reader that is not overtaken returns what was published there.
LEMMA ReadersKeep ==
  ASSUME MouseInv, NEW r \in Readers, Mouse!ReaderNext(r)
  PROVE  /\ MouseInv'
         /\ \A q \in Readers :
              /\ reader[q].at = "y" /\ reader'[q].at = "done"
              /\ ~Mouse!Overtaken(q) /\ ~doubled
              => <<reader'[q].x, reader'[q].y>> = latest[reader[q].seq % 2]
<1> DEFINE Reads == [at : {"idle", "x", "y", "done"}, seq : Nat, x : Int, y : Int]
           from == events[reader[r].seq % 2]
<1>1. /\ reader \in [Readers -> Reads] /\ reader[r] \in Reads /\ sequence \in Nat
      /\ latest \in [{0, 1} -> Int \X Int] /\ from.x \in Int /\ from.y \in Int
      /\ reader[r].seq % 2 \in {0, 1}
  <2>0. reader[r].seq \in Nat
    BY DEF MouseInv, MouseTypes
  <2>1. reader[r].seq % 2 \in {0, 1}
    BY <2>0, Halves
  <2> QED BY <2>1 DEF MouseInv, MouseTypes
<1>2. UNCHANGED <<events, sequence, latest, watch, doubled, screenSize>>
  BY DEF Mouse!ReaderNext, Mouse!ReadSequence, Mouse!ReadPosition, Mouse!ReadKey, Mouse!buffersOf,
     Mouse!switches, Mouse!bounds
<1>3. \/ /\ reader[r].at = "idle" /\ sequence # 0
         /\ reader' = [reader EXCEPT ![r].at = "x", ![r].seq = sequence]
      \/ reader[r].at = "x" /\ reader' = [reader EXCEPT ![r].at = "y", ![r].x = from.x]
      \/ reader[r].at = "y" /\ reader' = [reader EXCEPT ![r].at = "done", ![r].y = from.y]
      \/ reader[r].at = "x" /\ reader' = [reader EXCEPT ![r].at = "idle"]
  BY DEF Mouse!ReaderNext, Mouse!ReadSequence, Mouse!ReadPosition, Mouse!ReadKey
<1> HIDE DEF from
<1>4. reader' \in [Readers -> Reads] /\ \A q \in Readers \ {r} : reader'[q] = reader[q]
  BY <1>1, <1>3
<1>5. \/ reader[r].at = "idle" /\ sequence # 0 /\ reader'[r].at = "x" /\ reader'[r].seq = sequence
      \/ /\ reader[r].at = "x" /\ reader'[r].at = "y" /\ reader'[r].x = from.x
         /\ reader'[r].seq = reader[r].seq
      \/ /\ reader[r].at = "y" /\ reader'[r].at = "done" /\ reader'[r].x = reader[r].x
         /\ reader'[r].y = from.y
      \/ reader'[r].at = "idle"
  BY <1>1, <1>3
<1>6. MouseTypes'
  BY <1>2, <1>4 DEF MouseInv, MouseTypes
<1>7. ASSUME ~doubled
      PROVE  /\ OneWriter'
             /\ reader[r].at = "y" /\ reader'[r].at = "done" /\ ~Mouse!Overtaken(r)
                => <<reader'[r].x, reader'[r].y>> = latest[reader[r].seq % 2]
  <2>1. /\ \A q \in Readers : ReaderSees(q)
        /\ ShownHolds /\ ((\A w \in Watchers : watch[w].at \notin {"y", "store"}) => HiddenHolds)
    BY <1>7 DEF MouseInv, OneWriter
  <2>2. ASSUME reader[r].at \in {"x", "y"}, ~Mouse!Overtaken(r)
        PROVE  <<from.x, from.y>> = latest[reader[r].seq % 2]
    <3>1. reader[r].seq \in Nat /\ reader[r].seq <= sequence /\ sequence <= reader[r].seq + 1
      BY <1>1, <2>1, <2>2 DEF ReaderSees, Mouse!Overtaken
    <3>2. CASE sequence = reader[r].seq
      BY <2>1, <3>2 DEF from, Shown, ShownHolds
    <3>3. CASE sequence = reader[r].seq + 1
      <4>1. (sequence + 1) % 2 = reader[r].seq % 2
        BY <3>1, <3>3, Halves
      <4>2. \A w \in Watchers : watch[w].at \notin {"y", "store"}
        BY <2>2, <3>3 DEF Mouse!Overtaken
      <4> QED BY <2>1, <4>1, <4>2 DEF from, Hidden, HiddenHolds
    <3> QED BY <1>1, <3>1, <3>2, <3>3
  <2>3. ReaderSees(r)'
    <3>1. reader[r].at = "x" => reader'[r].seq = reader[r].seq \/ reader'[r].at = "idle"
      BY <1>5
    <3>2. reader'[r].at = "y" => /\ reader[r].at = "x" /\ reader'[r].x = from.x
                                 /\ reader'[r].seq = reader[r].seq
      BY <1>5
    <3>3. reader'[r].at = "y" => (Mouse!Overtaken(r)' <=> Mouse!Overtaken(r))
      BY <1>2, <3>2 DEF Mouse!Overtaken
    <3>4. reader'[r].at \in {"x", "y"} => reader'[r].seq <= sequence
      BY <1>1, <1>5, <2>1 DEF ReaderSees
    <3>5. reader'[r].at = "y" /\ ~Mouse!Overtaken(r)' => reader'[r].x = latest[reader'[r].seq % 2][1]
      BY <2>2, <3>2, <3>3
    <3> QED BY <1>2, <3>4, <3>5 DEF ReaderSees
  <2>4. \A q \in Readers : ReaderSees(q)'
    <3>1. ASSUME NEW q \in Readers \ {r} PROVE ReaderSees(q)'
      BY <1>2, <1>4, <2>1 DEF ReaderSees, Mouse!Overtaken
    <3> QED BY <2>3, <3>1
  <2>5. OneWriter'
    BY <1>2, <1>7, <2>4 DEF MouseInv, OneWriter, WriterHides, Hidden, Shown, ShownHolds, HiddenHolds
  <2>6. ASSUME reader[r].at = "y", reader'[r].at = "done", ~Mouse!Overtaken(r)
        PROVE  <<reader'[r].x, reader'[r].y>> = latest[reader[r].seq % 2]
    <3>1. reader'[r].x = reader[r].x /\ reader'[r].y = from.y
      BY <1>5, <2>6
    <3>2. reader[r].x = latest[reader[r].seq % 2][1] /\ <<from.x, from.y>> = latest[reader[r].seq % 2]
      BY <2>1, <2>2, <2>6 DEF ReaderSees
    <3>3. latest[reader[r].seq % 2] \in Int \X Int
      BY <1>1
    <3> QED BY <3>1, <3>2, <3>3
  <2> QED BY <2>5, <2>6
<1>8. MouseInv'
  BY <1>2, <1>6, <1>7 DEF MouseInv
<1> QED BY <1>4, <1>7, <1>8

LEMMA MouseKeeps ==
  ASSUME MouseInv, [Mouse!Next]_mouseVars
  PROVE  MouseInv'
<1>1. CASE UNCHANGED mouseVars
  BY <1>1, MouseStays DEF mouseVars, MouseInv, MouseTypes
<1> QED BY <1>1, CallsKeep, WatcherKeeps, ReadersKeep DEF Mouse!Next

\* A reader returns the position that was published under the sequence number
\* it has loaded (getLatestPosition), also while the next update is written
\* and after it (updateMouseEvent): however many readers there are and whenever
\* the client or the hot-plug starts, stops and pauses, as long as there was
\* never more than one watch thread, and unless the update after the next one
\* begins before the reader is done.
THEOREM PositionsAreWhole == PartsSpec => PositionIsOne
<1> DEFINE SeenWhole ==
      \A r \in Readers :
        /\ reader[r].at = "y" /\ reader'[r].at = "done"
        /\ ~Mouse!Overtaken(r) /\ ~doubled
        => <<reader'[r].x, reader'[r].y>> = latest[reader[r].seq % 2]
<1>1. PartsInit => (part = "mouse" => MouseInv)
  BY MouseInit DEF PartsInit
<1>2. ASSUME part = "mouse" => MouseInv, [PartsNext]_partsVars
      PROVE  (part = "mouse" => MouseInv)'
  BY <1>2, PartStays, MouseAlone, MouseKeeps
<1>3. ASSUME part = "mouse" => MouseInv, [PartsNext]_partsVars
      PROVE  [SeenWhole]_(Mouse!mouseVars)
  <2>1. CASE part # "mouse"
    BY <1>3, <2>1, MouseRests DEF mouseVars, Mouse!mouseVars, Mouse!switches, Mouse!buffersOf,
       Mouse!actors, Mouse!bounds
  <2>2. CASE part = "mouse" /\ UNCHANGED mouseVars
    BY <2>2 DEF mouseVars, Mouse!mouseVars, Mouse!switches, Mouse!buffersOf, Mouse!actors, Mouse!bounds
  <2>3. CASE part = "mouse" /\ Mouse!Next
    <3>1. MouseInv
      BY <1>3, <2>3
    <3>2. CASE reader' = reader
      BY <3>2
    <3> QED BY <2>3, <3>1, <3>2, CallsKeep, WatcherKeeps, ReadersKeep DEF Mouse!Next
  <2> QED BY <1>3, <2>1, <2>2, <2>3, MouseAlone
<1>4. (part = "mouse" => MouseInv) /\ [PartsNext]_partsVars => [SeenWhole]_(Mouse!mouseVars)
  BY <1>3
<1> QED BY <1>1, <1>2, <1>4, PTL DEF PartsSpec, PositionIsOne, Mouse!PositionIsOne
=============================================================================
