---------------------------- MODULE GuestProofs ----------------------------
(***************************************************************************)
(* The memory of a board, for any devices and aliases: however long the    *)
(* chains of aliases are, the bus and the host windows show one memory;    *)
(* and a quantum stops for what the guest did.                             *)
(***************************************************************************)
EXTENDS Guest, SequenceTheorems, WellFoundedInduction, TLAPS

\* A nonempty set of naturals has a least element.
LEMMA HasLeast ==
    ASSUME NEW S, S \subseteq Nat, S # {}
    PROVE  \E least \in S : \A n \in S : least <= n
<1>1. PICK least \in S : \A n \in S : ~ (<<n, least>> \in OpToRel(<, Nat))
  BY NatLessThanWellFounded, WFMin
<1>2. \A n \in S : ~ (n < least)
  BY <1>1 DEF OpToRel
<1> QED BY <1>2

\* A property of 0 that goes on from each number to the next holds up to N; the
\* property is given by the set of the numbers that have it.
LEMMA UpTo ==
    ASSUME NEW N \in Nat, NEW S, 0 \in S,
           \A n \in 1..N : n - 1 \in S => n \in S
    PROVE  0..N \subseteq S
<1> DEFINE missing == (0..N) \ S
<1>1. SUFFICES ASSUME missing # {} PROVE FALSE
  OBVIOUS
<1>2. PICK least \in missing : \A n \in missing : least <= n
  <2>1. missing \subseteq Nat
    OBVIOUS
  <2> HIDE DEF missing
  <2> QED BY <1>1, <2>1, HasLeast
<1>3. least \in 1..N
  BY <1>2
<1>4. least - 1 \in S
  BY <1>2, <1>3
<1> QED BY <1>2, <1>3, <1>4

\* f starts at s and goes on by step.
Runs(f, N, s, step) == f[0] = s /\ \A n \in 1..N : f[n] = step[<<f[n - 1], n>>]

\* What starts in S and is not led out of it has a run in S.
LEMMA RunExists ==
    ASSUME NEW N \in Nat, NEW S, NEW s \in S, NEW step,
           \A x \in S, n \in 1..N : step[<<x, n>>] \in S
    PROVE  \E f \in [0..N -> S] : Runs(f, N, s, step)
<1> DEFINE T == {k \in 0..N : \E f \in [0..k -> S] : Runs(f, k, s, step)}
<1>1. 0 \in T
  <2> DEFINE g == [n \in 0..0 |-> s]
  <2>1. g \in [0..0 -> S] /\ g[0] = s /\ 0 \in 0..N
    OBVIOUS
  <2>2. \A n \in 1..0 : g[n] = step[<<g[n - 1], n>>]
    OBVIOUS
  <2> HIDE DEF g
  <2>3. Runs(g, 0, s, step)
    BY ONLY <2>1, <2>2 DEF Runs
  <2> QED BY ONLY <2>1, <2>3
<1>2. ASSUME NEW k \in 1..N, k - 1 \in T PROVE k \in T
  <2>1. PICK f \in [0..(k - 1) -> S] : Runs(f, k - 1, s, step)
    BY <1>2
  <2>0. k \in Nat /\ k >= 1 /\ k \in 0..N
    OBVIOUS
  <2> DEFINE g == [n \in 0..k |-> IF n = k THEN step[<<f[k - 1], k>>] ELSE f[n]]
  <2>2. f[k - 1] \in S
    BY ONLY <2>1, <2>0
  <2>3. step[<<f[k - 1], k>>] \in S
    BY <2>2
  <2>4. g \in [0..k -> S]
    BY ONLY <2>1, <2>3, <2>0
  <2>5. g[0] = s
    BY ONLY <2>1, <2>0 DEF Runs
  <2>6. ASSUME NEW n \in 1..k PROVE g[n] = step[<<g[n - 1], n>>]
    <3>1. CASE n = k
      <4>1. g[n] = step[<<f[k - 1], k>>] /\ g[n - 1] = f[k - 1]
        BY ONLY <3>1, <2>0
      <4> QED BY ONLY <3>1, <4>1
    <3>2. CASE n # k
      <4>1. n \in 1..(k - 1) /\ g[n] = f[n] /\ g[n - 1] = f[n - 1]
        BY ONLY <3>2, <2>0, n \in 1..k
      <4> QED BY ONLY <2>1, <4>1 DEF Runs
    <3> QED BY ONLY <3>1, <3>2
  <2>7. Runs(g, k, s, step)
    BY ONLY <2>5, <2>6 DEF Runs
  <2> HIDE DEF g
  <2> QED BY ONLY <2>4, <2>7, <2>0
<1>3. 0..N \subseteq T
  <2> HIDE DEF T
  <2> QED BY <1>1, <1>2, UpTo
<1> QED BY ONLY <1>3, N \in Nat

\* A run that is not led out of S stays in it.
LEMMA RunStays ==
    ASSUME NEW N \in Nat, NEW S, NEW f, f[0] \in S,
           \A n \in 1..N : f[n - 1] \in S => f[n] \in S
    PROVE  \A n \in 0..N : f[n] \in S
<1> DEFINE T == {n \in 0..N : f[n] \in S}
<1>1. 0 \in T
  OBVIOUS
<1>2. \A n \in 1..N : n - 1 \in T => n \in T
  OBVIOUS
<1>3. 0..N \subseteq T
  <2> HIDE DEF T
  <2> QED BY <1>1, <1>2, UpTo
<1> QED BY <1>3

-----------------------------------------------------------------------------
(* Regions and maps.                                                        *)

Region == [base : 0..(Top - 1), size : 1..(Top - 1), kind : {"ram", "rom", "mmio", "alias"},
           target : Nat, offset : Nat]

\* An alias is a window of one region that was put in before it.
Based(map, i) ==
    IF map[i].kind = "alias"
    THEN \E j \in 1..(i - 1) : /\ map[i].target = map[j].base
                               /\ map[i].offset + map[i].size <= map[j].size
                               /\ map[i].target + map[i].offset < Top
    ELSE map[i].target = 0 /\ map[i].offset = 0

Apart(map) == \A i, j \in DOMAIN map : i # j => ~ Overlaps(map[i], map[j])

WellFormed(map) == map \in Seq(Region) /\ Apart(map) /\ \A i \in DOMAIN map : Based(map, i)

LEMMA TopIsNat == Top \in Nat /\ Top > 0
  BY TopAssumption

LEMMA RegionFields ==
    ASSUME NEW r \in Region
    PROVE  /\ r.base \in Nat /\ r.base < Top /\ r.size \in Nat /\ 0 < r.size /\ r.size < Top
           /\ r.target \in Nat /\ r.offset \in Nat
  BY TopIsNat DEF Region

\* Below the last address sums do not saturate.
LEMMA HitsIsCovers ==
    ASSUME NEW r \in Region, NEW addr \in 0..Top
    PROVE  Hits(r, addr) <=> addr < Top /\ Covers(r, addr)
<1>1. r.base \in Nat /\ r.size \in Nat /\ Top \in Nat
  BY RegionFields, TopIsNat
<1> QED BY <1>1 DEF Hits, Covers, Sat

LEMMA CoveredTwice ==
    ASSUME NEW r \in Region, NEW s \in Region, NEW addr \in Nat,
           Covers(r, addr), Covers(s, addr)
    PROVE  Overlaps(r, s)
<1>1. /\ r.base \in Nat /\ r.size \in Nat /\ s.base \in Nat /\ s.size \in Nat
      /\ Top \in Nat /\ r.base < Top /\ s.base < Top
  BY RegionFields, TopIsNat
<1> QED BY <1>1 DEF Overlaps, Covers, Sat

LEMMA MapRegion ==
    ASSUME NEW map, WellFormed(map), NEW i \in DOMAIN map
    PROVE  map[i] \in Region /\ i \in 1..Len(map) /\ Len(map) \in Nat
  BY DEF WellFormed

\* At most one region of a map covers an address.
LEMMA CoveredOnce ==
    ASSUME NEW map, WellFormed(map), NEW addr \in Nat,
           NEW i \in DOMAIN map, Covers(map[i], addr),
           NEW j \in DOMAIN map, Covers(map[j], addr)
    PROVE  i = j
<1>1. map[i] \in Region /\ map[j] \in Region
  BY MapRegion
<1>2. Overlaps(map[i], map[j])
  BY <1>1, CoveredTwice
<1> QED BY ONLY <1>2, i \in DOMAIN map, j \in DOMAIN map, WellFormed(map) DEF WellFormed, Apart

LEMMA FirstFound ==
    ASSUME NEW found, found \subseteq Nat \ {0}
    PROVE  IF found = {} THEN First(found) = 0 ELSE First(found) \in found
<1>1. CASE found = {}
  BY <1>1 DEF First
<1>2. CASE found # {}
  <2>1. \E least \in found : \A n \in found : least <= n
    BY <1>2, HasLeast
  <2>2. Min(found) \in found
    BY ONLY <2>1 DEF Min
  <2> QED BY ONLY <1>2, <2>2 DEF First
<1> QED BY <1>1, <1>2

\* find_region finds the region that covers the address, if there is one.
LEMMA RegionFound ==
    ASSUME NEW map, WellFormed(map), NEW addr \in 0..Top
    PROVE  /\ FindRegion(map, addr) = 0
                 => addr = Top \/ \A i \in DOMAIN map : ~ Covers(map[i], addr)
           /\ FindRegion(map, addr) # 0
                 => /\ FindRegion(map, addr) \in DOMAIN map /\ addr < Top
                    /\ Covers(map[FindRegion(map, addr)], addr)
<1> DEFINE found == {i \in DOMAIN map : Hits(map[i], addr)}
<1>1. \A i \in DOMAIN map : map[i] \in Region /\ i \in Nat \ {0}
  BY MapRegion
<1>2. \A i \in DOMAIN map : Hits(map[i], addr) <=> addr < Top /\ Covers(map[i], addr)
  BY <1>1, HitsIsCovers
<1>3. found \subseteq Nat \ {0}
  BY ONLY <1>1
<1>4. FindRegion(map, addr) = First(found)
  BY DEF FindRegion
<1>5. addr = Top \/ addr < Top
  BY TopIsNat
<1>6. \A i \in found : i \in DOMAIN map /\ i # 0 /\ addr < Top /\ Covers(map[i], addr)
  BY ONLY <1>1, <1>2
<1>7. found = {} => addr = Top \/ \A i \in DOMAIN map : ~ Covers(map[i], addr)
  BY ONLY <1>2, <1>5
<1> HIDE DEF found
<1> QED BY ONLY <1>3, <1>4, <1>6, <1>7, FirstFound

LEMMA RegionFoundAt ==
    ASSUME NEW map, WellFormed(map), NEW addr \in 0..(Top - 1),
           NEW i \in DOMAIN map, Covers(map[i], addr)
    PROVE  FindRegion(map, addr) = i
<1>1. addr \in 0..Top /\ addr \in Nat /\ addr # Top
  BY TopIsNat
<1>2. FindRegion(map, addr) # 0
  BY <1>1, RegionFound
<1>3. FindRegion(map, addr) \in DOMAIN map /\ Covers(map[FindRegion(map, addr)], addr)
  BY <1>1, <1>2, RegionFound
<1> QED BY <1>1, <1>3, CoveredOnce

\* No two regions have the same base, so find_base finds the one meant.
LEMMA BaseFound ==
    ASSUME NEW map, WellFormed(map), NEW i \in DOMAIN map
    PROVE  FindBase(map, map[i].base) = i
<1> DEFINE found == {j \in DOMAIN map : map[j].base = map[i].base}
<1>1. \A j \in DOMAIN map : map[j] \in Region /\ j \in Nat \ {0}
  BY MapRegion
<1>2. ASSUME NEW j \in found PROVE j = i
  <2>1. /\ map[i].base \in Nat /\ map[i].size \in Nat \ {0} /\ map[j].size \in Nat \ {0}
        /\ map[j].base = map[i].base
    BY <1>1, <1>2, RegionFields
  <2>2. Covers(map[i], map[i].base) /\ Covers(map[j], map[i].base)
    BY ONLY <2>1 DEF Covers
  <2> QED BY <1>2, <2>1, <2>2, CoveredOnce
<1>3. i \in found /\ found \subseteq Nat \ {0}
  BY <1>1
<1>4. FindBase(map, map[i].base) = First(found)
  BY DEF FindBase
<1> HIDE DEF found
<1> QED BY ONLY <1>2, <1>3, <1>4, FirstFound

-----------------------------------------------------------------------------
(* The builder.                                                             *)

LEMMA MapNotFailed ==
    ASSUME NEW map \in Seq(Region)
    PROVE  map # Failed
<1>1. SUFFICES ASSUME map = Failed PROVE FALSE
  OBVIOUS
<1>2. 1 \in DOMAIN map /\ map[1] = [kind |-> "failed"]
  BY ONLY <1>1 DEF Failed
<1>3. map[1] \in Region
  BY ONLY map \in Seq(Region), <1>2
<1>4. map[1].kind # "failed"
  BY ONLY <1>3 DEF Region
<1> QED BY <1>2, <1>4

\* A map that is well formed stays so with a region more that overlaps none.
LEMMA Inserts ==
    ASSUME NEW map, WellFormed(map), NEW r \in Region, Inserted(map, r) # Failed,
           Based(Append(map, r), Len(map) + 1)
    PROVE  Inserted(map, r) = Append(map, r) /\ WellFormed(Append(map, r))
<1> DEFINE more == Append(map, r)
           N == Len(map)
<1>1. /\ map \in Seq(Region) /\ N \in Nat /\ DOMAIN map = 1..N
      /\ \A i \in 1..N : map[i] \in Region
  BY DEF WellFormed
<1>2. /\ more \in Seq(Region) /\ DOMAIN more = 1..(N + 1) /\ more[N + 1] = r
      /\ \A i \in 1..N : more[i] = map[i]
  BY ONLY <1>1, r \in Region
<1>3. more = Inserted(map, r) /\ \A i \in 1..N : ~ Overlaps(map[i], r)
  BY ONLY <1>1, Inserted(map, r) # Failed DEF Inserted
<1>4. Based(more, N + 1)
  OBVIOUS
<1> HIDE DEF more
<1>5. Apart(more)
  <2>1. SUFFICES ASSUME NEW i \in 1..(N + 1), NEW j \in 1..(N + 1), i # j
                 PROVE  ~ Overlaps(more[i], more[j])
    BY <1>2 DEF Apart
  <2>2. CASE i \in 1..N /\ j \in 1..N
    BY ONLY WellFormed(map), <1>1, <1>2, <2>1, <2>2 DEF WellFormed, Apart
  <2>3. CASE i = N + 1
    <3>1. j \in 1..N
      BY ONLY <1>1, <2>1, <2>3
    <3>2. ~ Overlaps(map[j], r)
      BY <1>3, <3>1
    <3> QED BY ONLY <1>2, <2>3, <3>1, <3>2 DEF Overlaps
  <2>4. CASE j = N + 1
    <3>1. i \in 1..N
      BY ONLY <1>1, <2>1, <2>4
    <3> QED BY ONLY <1>2, <1>3, <2>4, <3>1
  <2> QED BY ONLY <1>1, <2>1, <2>2, <2>3, <2>4
<1>6. ASSUME NEW i \in 1..(N + 1) PROVE Based(more, i)
  <2>1. CASE i = N + 1
    BY <1>4, <2>1
  <2>2. CASE i \in 1..N
    <3>1. Based(map, i)
      BY ONLY WellFormed(map), <1>1, <2>2 DEF WellFormed
    <3>2. \A j \in 1..(i - 1) : j \in 1..N
      BY ONLY <1>1, <2>2
    <3> QED BY ONLY <1>2, <2>2, <3>1, <3>2 DEF Based
  <2> QED BY ONLY <1>1, <1>6, <2>1, <2>2
<1> QED BY ONLY <1>2, <1>3, <1>5, <1>6 DEF WellFormed, more

LEMMA DeviceMapped ==
    ASSUME NEW map, WellFormed(map), NEW base \in 0..(Top - 1), NEW size \in 0..(Top - 1),
           NEW kind \in {"ram", "rom", "mmio"}, MapDevice(map, base, size, kind) # Failed
    PROVE  /\ MapDevice(map, base, size, kind) = Append(map, Device(base, size, kind))
           /\ WellFormed(MapDevice(map, base, size, kind))
<1> DEFINE r == Device(base, size, kind)
<1>1. /\ size # 0 /\ MapDevice(map, base, size, kind) = Inserted(map, r)
      /\ Inserted(map, r) # Failed
  BY DEF MapDevice
<1>2. r \in Region
  BY <1>1, TopIsNat DEF Region, Device
<1>3. r.kind # "alias" /\ r.target = 0 /\ r.offset = 0
  BY DEF Device
<1> HIDE DEF r
<1>4. map \in Seq(Region)
  BY DEF WellFormed
<1>5. Append(map, r)[Len(map) + 1] = r
  BY ONLY <1>4
<1>6. Based(Append(map, r), Len(map) + 1)
  BY ONLY <1>3, <1>5 DEF Based
<1>7. Inserted(map, r) = Append(map, r) /\ WellFormed(Append(map, r))
  BY <1>1, <1>2, <1>6, Inserts
<1> QED BY ONLY <1>1, <1>7 DEF r

LEMMA AliasMapped ==
    ASSUME NEW map, WellFormed(map), NEW base \in 0..(Top - 1), NEW size \in 0..(Top - 1),
           NEW target \in 0..Top, MapAlias(map, base, target, size) # Failed
    PROVE  /\ WellFormed(MapAlias(map, base, target, size))
           /\ \E j \in DOMAIN map :
                 /\ j = FindRegion(map, target) /\ target < Top /\ Covers(map[j], target)
                 /\ MapAlias(map, base, target, size)
                       = Append(map, Alias(base, size, map[j].base, target - map[j].base))
<1> DEFINE j == FindRegion(map, target)
           r == Alias(base, size, map[j].base, target - map[j].base)
<1>1. /\ size # 0 /\ j # 0 /\ ~ (Sat(target - map[j].base, size) > map[j].size)
      /\ MapAlias(map, base, target, size) = Inserted(map, r)
      /\ Inserted(map, r) # Failed
  BY DEF MapAlias
<1> HIDE DEF j
<1>2. j \in DOMAIN map /\ target < Top /\ Covers(map[j], target)
  BY <1>1, RegionFound DEF j
<1>3. /\ map \in Seq(Region) /\ Len(map) \in Nat /\ j \in 1..Len(map)
      /\ map[j].base \in Nat /\ map[j].size \in Nat /\ map[j].size < Top
      /\ map[j] \in Region
  BY <1>2, MapRegion, RegionFields DEF WellFormed
<1>4. map[j].base <= target /\ target \in Nat /\ size \in Nat /\ Top \in Nat
  BY ONLY <1>2, <1>3, TopIsNat, size \in 0..(Top - 1), target \in 0..Top DEF Covers
<1>5. target - map[j].base \in Nat /\ target - map[j].base + size <= map[j].size
  BY ONLY <1>1, <1>3, <1>4 DEF Sat
<1>6. /\ r.kind = "alias" /\ r.target = map[j].base /\ r.offset = target - map[j].base
      /\ r.size = size
  BY DEF Alias
<1>7. r \in Region
  <2>1. size \in 1..(Top - 1)
    BY ONLY <1>1, TopIsNat, size \in 0..(Top - 1)
  <2>2. map[j].base \in Nat /\ target - map[j].base \in Nat
    BY ONLY <1>3, <1>5
  <2> DEFINE b == map[j].base
             o == target - map[j].base
  <2> HIDE DEF b, o
  <2>3. b \in Nat /\ o \in Nat /\ r = Alias(base, size, b, o)
    BY ONLY <2>2 DEF b, o
  <2> HIDE DEF r
  <2> QED BY ONLY <2>1, <2>3, base \in 0..(Top - 1) DEF Region, Alias
<1> HIDE DEF r
<1>8. /\ Append(map, r)[Len(map) + 1] = r /\ Append(map, r)[j] = map[j]
      /\ j \in 1..((Len(map) + 1) - 1)
  BY ONLY <1>3, <1>7
<1>9. r.target + r.offset < Top
  BY ONLY <1>2, <1>3, <1>4, <1>6
<1>10. Based(Append(map, r), Len(map) + 1)
  BY ONLY <1>5, <1>6, <1>8, <1>9 DEF Based
<1>11. Inserted(map, r) = Append(map, r) /\ WellFormed(Append(map, r))
  BY <1>1, <1>7, <1>10, Inserts
<1>12. WellFormed(MapAlias(map, base, target, size))
  BY ONLY <1>1, <1>11
<1>13. MapAlias(map, base, target, size) = Append(map, r)
  BY ONLY <1>1, <1>11
<1> QED BY ONLY <1>2, <1>12, <1>13 DEF r, j

-----------------------------------------------------------------------------
(* The merge of two maps.                                                   *)

LEMMA PutKeepsForm ==
    ASSUME NEW map, map = Failed \/ WellFormed(map), NEW r \in Region
    PROVE  PutInto(map, r) = Failed \/ WellFormed(PutInto(map, r))
<1>1. SUFFICES ASSUME map # Failed, PutInto(map, r) # Failed
               PROVE  WellFormed(PutInto(map, r))
  BY DEF PutInto
<1>2. /\ r.base \in 0..(Top - 1) /\ r.size \in 0..(Top - 1)
      /\ r.kind \in {"ram", "rom", "mmio", "alias"}
  BY TopIsNat DEF Region
<1>3. Sat(r.target, r.offset) \in 0..Top
  BY RegionFields, TopIsNat DEF Sat
<1>4. CASE r.kind = "alias"
  <2>1. PutInto(map, r) = MapAlias(map, r.base, Sat(r.target, r.offset), r.size)
    BY <1>1, <1>4 DEF PutInto
  <2> QED BY <1>1, <1>2, <1>3, <2>1, AliasMapped
<1>5. CASE r.kind # "alias"
  <2>1. PutInto(map, r) = MapDevice(map, r.base, r.size, r.kind)
    BY <1>1, <1>5 DEF PutInto
  <2> QED BY <1>1, <1>2, <1>5, <2>1, DeviceMapped
<1> QED BY <1>4, <1>5

\* What a map ends with the regions that stood before r in another one, r is put into
\* it as it was.
LEMMA PutAsItWas ==
    ASSUME NEW map, WellFormed(map), NEW other, WellFormed(other),
           NEW n \in DOMAIN other, NEW K \in Nat, Len(map) = K + (n - 1),
           \A j \in 1..(n - 1) : map[K + j] = other[j],
           PutInto(map, other[n]) # Failed
    PROVE  PutInto(map, other[n]) = Append(map, other[n])
<1> DEFINE r == other[n]
<1>1. r \in Region /\ n \in 1..Len(other) /\ Len(other) \in Nat /\ Based(other, n)
  BY MapRegion DEF WellFormed
<1>2. map # Failed
  BY MapNotFailed DEF WellFormed
<1>3. /\ r.base \in 0..(Top - 1) /\ r.size \in 0..(Top - 1)
      /\ r.kind \in {"ram", "rom", "mmio", "alias"}
  BY <1>1, TopIsNat DEF Region
<1>4. CASE r.kind = "alias"
  <2> DEFINE target == Sat(r.target, r.offset)
  <2>1. PutInto(map, r) = MapAlias(map, r.base, target, r.size)
    BY <1>2, <1>4 DEF PutInto
  <2>2. PICK j \in 1..(n - 1) : /\ r.target = other[j].base
                                /\ r.offset + r.size <= other[j].size
                                /\ r.target + r.offset < Top
    BY <1>1, <1>4 DEF Based
  <2>3. j \in DOMAIN other /\ K + j \in DOMAIN map /\ map[K + j] = other[j]
    BY <1>1, <2>2 DEF WellFormed
  <2>4. /\ r.target \in Nat /\ r.offset \in Nat /\ r.size \in Nat /\ 0 < r.size
        /\ map[K + j].base = r.target /\ map[K + j].size \in Nat
        /\ r.offset + r.size <= map[K + j].size
    BY <1>1, <2>2, <2>3, RegionFields, MapRegion
  <2>5. target = r.target + r.offset /\ target \in 0..(Top - 1) /\ target \in 0..Top
    BY ONLY <2>2, <2>4, TopIsNat DEF Sat
  <2>6. Covers(map[K + j], target)
    BY ONLY <2>4, <2>5 DEF Covers
  <2> HIDE DEF target
  <2>7. FindRegion(map, target) = K + j
    BY <2>3, <2>5, <2>6, RegionFoundAt
  <2>8. MapAlias(map, r.base, target, r.size) # Failed
    BY <2>1
  <2>9. PutInto(map, r) = Append(map, Alias(r.base, r.size, map[K + j].base,
                                            target - map[K + j].base))
    BY ONLY WellFormed(map), <1>3, <2>1, <2>5, <2>7, <2>8, AliasMapped
  <2>10. map[K + j].base = r.target /\ target - map[K + j].base = r.offset
    BY ONLY <2>4, <2>5
  <2>11. Alias(r.base, r.size, r.target, r.offset) = r
    BY ONLY <1>1, <1>4 DEF Alias, Region
  <2> QED BY ONLY <2>9, <2>10, <2>11
<1>5. CASE r.kind # "alias"
  <2>1. PutInto(map, r) = MapDevice(map, r.base, r.size, r.kind)
    BY <1>2, <1>5 DEF PutInto
  <2>2. r.target = 0 /\ r.offset = 0
    BY <1>1, <1>5 DEF Based
  <2>3. Device(r.base, r.size, r.kind) = r
    BY ONLY <1>1, <2>2 DEF Device, Region
  <2>4. PutInto(map, r) = Append(map, Device(r.base, r.size, r.kind))
    BY <1>3, <1>5, <2>1, DeviceMapped
  <2> QED BY ONLY <2>3, <2>4
<1> QED BY <1>4, <1>5

LEMMA OneAppended ==
    ASSUME NEW S, NEW s \in Seq(S), NEW e \in S
    PROVE  /\ Len(Append(s, e)) = Len(s) + 1 /\ Append(s, e)[Len(s) + 1] = e
           /\ \A i \in 1..Len(s) : Append(s, e)[i] = s[i]
  OBVIOUS

\* A merge that succeeds is the one map followed by the other.
LEMMA MergedWhole ==
    ASSUME NEW map, WellFormed(map), NEW other, WellFormed(other), Merged(map, other) # Failed
    PROVE  Merged(map, other) = map \o other /\ WellFormed(map \o other)
<1> DEFINE N == Len(other)
           K == Len(map)
           F(f) == [n \in 0..Len(other) |-> IF n = 0 THEN map ELSE PutInto(f[n - 1], other[n])]
           upTo == CHOOSE f : f = F(f)
           Maps == {m \in Seq(Region) : WellFormed(m)} \cup {Failed}
           step == [p \in Maps \X (1..N) |-> PutInto(p[1], other[p[2]])]
<1>1. /\ N \in Nat /\ K \in Nat /\ map \in Seq(Region) /\ other \in Seq(Region)
      /\ DOMAIN other = 1..N /\ DOMAIN map = 1..K /\ \A n \in 1..N : other[n] \in Region
  BY DEF WellFormed
<1>2. \A m : m \in Maps <=> m = Failed \/ WellFormed(m)
  BY DEF WellFormed
<1> HIDE DEF Maps
<1>3. \A m \in Maps, n \in 1..N : PutInto(m, other[n]) \in Maps
  BY ONLY <1>1, <1>2, PutKeepsForm
<1>4. \A m \in Maps, n \in 1..N : step[<<m, n>>] = PutInto(m, other[n])
  OBVIOUS
<1> HIDE DEF step
<1>5. map \in Maps
  BY <1>2
<1>6. PICK g \in [0..N -> Maps] : Runs(g, N, map, step)
  <2>1. \A m \in Maps, n \in 1..N : step[<<m, n>>] \in Maps
    BY ONLY <1>3, <1>4
  <2> HIDE DEF N
  <2> QED BY ONLY <1>1, <1>5, <2>1, RunExists
<1>7. g = F(g)
  <2>1. ASSUME NEW n \in 1..N PROVE g[n] = PutInto(g[n - 1], other[n])
    <3>1. g[n - 1] \in Maps
      BY ONLY <1>1, <1>6
    <3>2. g[n] = step[<<g[n - 1], n>>]
      BY ONLY <1>6 DEF Runs
    <3> QED BY ONLY <1>4, <3>1, <3>2
  <2>2. g[0] = map
    BY ONLY <1>6 DEF Runs
  <2>3. ASSUME NEW n \in 0..N
        PROVE  g[n] = IF n = 0 THEN map ELSE PutInto(g[n - 1], other[n])
    <3>1. n = 0 \/ n \in 1..N
      BY ONLY <1>1
    <3> QED BY ONLY <1>1, <2>1, <2>2, <3>1
  <2> QED BY ONLY <1>6, <2>3
<1>8. upTo = F(upTo)
  <2> HIDE DEF F
  <2> QED BY <1>7
<1>9. Merged(map, other) = upTo[N]
  BY DEF Merged
<1> HIDE DEF upTo
<1>10. upTo[0] = map /\ \A n \in 1..N : upTo[n] = PutInto(upTo[n - 1], other[n])
  <2>1. \A n \in 0..N : upTo[n] = IF n = 0 THEN map ELSE PutInto(upTo[n - 1], other[n])
    BY ONLY <1>8
  <2> HIDE DEF N
  <2>2. 0 \in 0..N /\ \A n \in 1..N : n \in 0..N /\ n # 0
    BY ONLY <1>1
  <2> QED BY ONLY <2>1, <2>2
<1> HIDE DEF F
<1> DEFINE Goes(n, m) == /\ WellFormed(m) /\ Len(m) = K + n
                         /\ \A i \in 1..K : m[i] = map[i]
                         /\ \A j \in 1..n : m[K + j] = other[j]
           T == {n \in 0..N : upTo[n] = Failed \/ Goes(n, upTo[n])}
<1>11. 0 \in T
  <2>1. Goes(0, map)
    BY <1>1
  <2> HIDE DEF Goes
  <2> QED BY ONLY <1>1, <1>10, <2>1
<1>12. ASSUME NEW n \in 1..N, n - 1 \in T PROVE n \in T
  <2> DEFINE m == upTo[n - 1]
  <2>1. upTo[n] = PutInto(m, other[n]) /\ n \in 0..N /\ n \in Nat /\ n - 1 \in Nat
    BY ONLY <1>1, <1>10, n \in 1..N
  <2>2. SUFFICES ASSUME PutInto(m, other[n]) # Failed PROVE Goes(n, PutInto(m, other[n]))
    BY <2>1
  <2>3. m # Failed
    BY <2>2 DEF PutInto
  <2>4. Goes(n - 1, m)
    BY <1>12, <2>3
  <2> HIDE DEF m
  <2>5. PutInto(m, other[n]) = Append(m, other[n])
    <3>1. /\ WellFormed(m) /\ Len(m) = K + (n - 1) /\ n \in DOMAIN other
          /\ \A j \in 1..(n - 1) : m[K + j] = other[j]
      BY ONLY <1>1, <2>4, n \in 1..N
    <3> HIDE DEF K
    <3> QED BY ONLY <1>1, <2>2, <3>1, WellFormed(other), PutAsItWas
  <2>6. WellFormed(PutInto(m, other[n]))
    BY ONLY <1>1, <2>2, <2>4, n \in 1..N, PutKeepsForm
  <2>7. /\ m \in Seq(Region) /\ Len(m) = K + (n - 1) /\ other[n] \in Region
    BY ONLY <1>1, <2>4, n \in 1..N DEF WellFormed
  <2> DEFINE more == Append(m, other[n])
  <2>8. /\ Len(more) = K + n /\ more[K + n] = other[n]
        /\ \A i \in 1..(K + (n - 1)) : more[i] = m[i]
    <3>1. /\ Len(more) = Len(m) + 1 /\ more[Len(m) + 1] = other[n]
          /\ \A i \in 1..Len(m) : more[i] = m[i]
      BY ONLY <2>7, OneAppended
    <3>2. (K + (n - 1)) + 1 = K + n
      BY ONLY <1>1, <2>1
    <3> HIDE DEF more, K
    <3> QED BY ONLY <2>7, <3>1, <3>2
  <2> HIDE DEF more
  <2>9. \A i \in 1..K : more[i] = map[i]
    BY ONLY <1>1, <2>1, <2>4, <2>8
  <2>10. ASSUME NEW j \in 1..n PROVE more[K + j] = other[j]
    <3>1. CASE j = n
      BY ONLY <2>8, <3>1
    <3>2. CASE j # n
      <4>1. j \in 1..(n - 1) /\ K + j \in 1..(K + (n - 1))
        BY ONLY <1>1, <2>1, <3>2, j \in 1..n
      <4> QED BY ONLY <2>4, <2>8, <4>1
    <3> QED BY ONLY <3>1, <3>2
  <2>11. PutInto(m, other[n]) = more
    BY ONLY <2>5 DEF more
  <2> QED BY ONLY <2>6, <2>8, <2>9, <2>10, <2>11
<1>13. 0..N \subseteq T
  <2> HIDE DEF T, N
  <2> QED BY ONLY <1>1, <1>11, <1>12, UpTo
<1>14. Goes(N, upTo[N])
  <2> HIDE DEF Goes
  <2> QED BY ONLY <1>1, <1>9, <1>13, Merged(map, other) # Failed
<1>15. upTo[N] = map \o other
  <2>1. upTo[N] \in Seq(Region) /\ Len(upTo[N]) = K + N
    BY ONLY <1>14 DEF WellFormed
  <2> HIDE DEF upTo
  <2>2. \A i \in 1..(K + N) : upTo[N][i] = (map \o other)[i]
    <3>1. SUFFICES ASSUME NEW i \in 1..(K + N) PROVE upTo[N][i] = (map \o other)[i]
      OBVIOUS
    <3>2. CASE i \in 1..K
      BY ONLY <1>1, <1>14, <3>2
    <3>3. CASE i \notin 1..K
      <4>1. i - K \in 1..N /\ K + (i - K) = i
        BY ONLY <1>1, <3>3, i \in 1..(K + N)
      <4>2. upTo[N][i] = other[i - K]
        BY ONLY <1>14, <4>1
      <4> QED BY ONLY <1>1, <3>3, <4>1, <4>2
    <3> QED BY ONLY <3>2, <3>3
  <2>3. map \o other \in Seq(Region) /\ Len(map \o other) = K + N
    BY ONLY <1>1
  <2> DEFINE whole == map \o other
             got == upTo[N]
  <2> HIDE DEF whole, got
  <2>4. /\ whole \in Seq(Region) /\ Len(whole) = K + N
        /\ got \in Seq(Region) /\ Len(got) = K + N
        /\ \A i \in 1..(K + N) : got[i] = whole[i]
    BY ONLY <2>1, <2>2, <2>3 DEF whole, got
  <2>5. got = whole
    BY ONLY <2>4, SeqEqual
  <2> QED BY ONLY <2>5 DEF whole, got
<1> QED BY ONLY <1>9, <1>14, <1>15

-----------------------------------------------------------------------------
(* Chains of aliases.                                                       *)

\* Where region i of a map can be found in another: whole, from an offset on.
Place(map) == [at : DOMAIN map, offset : Nat]
Fits(map, i, p) == p \in Place(map) /\ p.offset + map[i].size <= map[p.at].size
Start(i) == [at |-> i, offset |-> 0]
Further(map, p) ==
    IF map[p.at].kind # "alias" THEN p
    ELSE [at |-> FindBase(map, map[p.at].target),
          offset |-> Sat(p.offset, map[p.at].offset)]

\* One alias further the region still fits, nearer to the beginning of the map.
LEMMA FurtherFits ==
    ASSUME NEW map, WellFormed(map), NEW i \in DOMAIN map, NEW p, Fits(map, i, p)
    PROVE  /\ Fits(map, i, Further(map, p))
           /\ map[p.at].kind = "alias" =>
                 /\ Further(map, p).at < p.at
                 /\ map[Further(map, p).at].base = map[p.at].target
                 /\ Further(map, p).offset = p.offset + map[p.at].offset
<1> DEFINE here == map[p.at]
<1>1. p.at \in DOMAIN map /\ p.offset \in Nat /\ p.offset + map[i].size <= here.size
  BY DEF Fits, Place
<1>2. CASE here.kind # "alias"
  BY <1>2 DEF Further
<1>3. CASE here.kind = "alias"
  <2>1. PICK j \in 1..(p.at - 1) : /\ here.target = map[j].base
                                   /\ here.offset + here.size <= map[j].size
    BY <1>1, <1>3 DEF WellFormed, Based
  <2>2. p.at \in 1..Len(map) /\ Len(map) \in Nat /\ here \in Region
    BY <1>1, MapRegion
  <2>3. j \in DOMAIN map /\ j < p.at
    BY <2>1, <2>2 DEF WellFormed
  <2>4. map[j] \in Region /\ map[i] \in Region
    BY <2>3, MapRegion
  <2>5. /\ here.offset \in Nat /\ here.size \in Nat /\ map[j].size \in Nat /\ map[j].size < Top
        /\ map[i].size \in Nat /\ Top \in Nat
    BY <2>2, <2>4, RegionFields, TopIsNat
  <2>6. FindBase(map, here.target) = j
    BY <2>1, <2>3, BaseFound
  <2> HIDE DEF here
  <2>7. /\ Sat(p.offset, here.offset) = p.offset + here.offset
        /\ p.offset + here.offset \in Nat
        /\ p.offset + here.offset + map[i].size <= map[j].size
    BY ONLY <1>1, <2>1, <2>5 DEF Sat
  <2>8. Further(map, p) = [at |-> j, offset |-> p.offset + here.offset]
    BY <1>3, <2>6, <2>7 DEF Further, here
  <2>9. Fits(map, i, Further(map, p))
    BY ONLY <2>3, <2>7, <2>8 DEF Fits, Place
  <2> QED BY ONLY <1>3, <2>1, <2>3, <2>8, <2>9 DEF here
<1> QED BY <1>2, <1>3

\* f walks from region i along its aliases.
Walks(f, map, i) ==
    /\ f[0] = Start(i)
    /\ \A n \in 1..Len(map) : f[n] = Further(map, f[n - 1])
    /\ \A n \in 0..Len(map) : Fits(map, i, f[n])

LEMMA StartFits ==
    ASSUME NEW map, WellFormed(map), NEW i \in DOMAIN map
    PROVE  Fits(map, i, Start(i))
<1>1. map[i].size \in Nat
  BY MapRegion, RegionFields
<1> QED BY <1>1 DEF Fits, Place, Start

\* Owner is where such a walk leads.
LEMMA OwnerWalks ==
    ASSUME NEW map, WellFormed(map), NEW i \in DOMAIN map
    PROVE  \E f : Walks(f, map, i) /\ Owner(map, i) = f[Len(map)]
<1> DEFINE N == Len(map)
           F(f) == [n \in 0..Len(map) |->
                      IF n = 0 THEN [at |-> i, offset |-> 0]
                      ELSE IF map[f[n - 1].at].kind # "alias" THEN f[n - 1]
                           ELSE [at |-> FindBase(map, map[f[n - 1].at].target),
                                 offset |-> Sat(f[n - 1].offset, map[f[n - 1].at].offset)]]
           G(f) == [n \in 0..N |-> IF n = 0 THEN Start(i) ELSE Further(map, f[n - 1])]
           walk == CHOOSE f : f = F(f)
           Places == {p \in Place(map) : Fits(map, i, p)}
           step == [p \in Places \X (1..N) |-> Further(map, p[1])]
<1>1. N \in Nat
  BY DEF WellFormed
<1>2. ASSUME NEW f PROVE F(f) = G(f)
  BY DEF Further, Start
<1>3. Owner(map, i) = walk[N]
  BY DEF Owner
<1>4. \A p : p \in Places <=> Fits(map, i, p)
  BY DEF Fits
<1> HIDE DEF Places
<1>5. Start(i) \in Places
  BY <1>4, StartFits
<1>6. \A p \in Places : Further(map, p) \in Places
  BY <1>4, FurtherFits
<1>7. \A p \in Places, n \in 1..N : step[<<p, n>>] = Further(map, p)
  OBVIOUS
<1> HIDE DEF step
<1>8. PICK g \in [0..N -> Places] : Runs(g, N, Start(i), step)
  <2>1. \A p \in Places, n \in 1..N : step[<<p, n>>] \in Places
    BY ONLY <1>6, <1>7
  <2> HIDE DEF N
  <2> QED BY ONLY <1>1, <1>5, <2>1, RunExists
<1>9. g = G(g)
  <2>1. ASSUME NEW n \in 1..N PROVE g[n] = Further(map, g[n - 1])
    <3>1. g[n - 1] \in Places
      BY ONLY <1>1, <1>8
    <3>2. g[n] = step[<<g[n - 1], n>>]
      BY ONLY <1>8 DEF Runs
    <3> QED BY ONLY <1>7, <3>1, <3>2
  <2>2. g[0] = Start(i)
    BY ONLY <1>8 DEF Runs
  <2>3. ASSUME NEW n \in 0..N
        PROVE  g[n] = IF n = 0 THEN Start(i) ELSE Further(map, g[n - 1])
    <3>1. n = 0 \/ n \in 1..N
      BY ONLY <1>1
    <3> QED BY ONLY <1>1, <2>1, <2>2, <3>1
  <2> QED BY ONLY <1>8, <2>3
<1>10. walk = G(walk)
  <2>1. g = F(g)
    BY <1>2, <1>9
  <2> HIDE DEF F, G
  <2>2. walk = F(walk)
    BY <2>1
  <2> QED BY <1>2, <2>2
<1> HIDE DEF walk, F
<1>11. walk[0] = Start(i) /\ \A n \in 1..N : walk[n] = Further(map, walk[n - 1])
  <2>1. \A n \in 0..N : walk[n] = IF n = 0 THEN Start(i) ELSE Further(map, walk[n - 1])
    BY ONLY <1>10
  <2> HIDE DEF N
  <2>2. 0 \in 0..N /\ \A n \in 1..N : n \in 0..N /\ n # 0
    BY ONLY <1>1
  <2> QED BY ONLY <2>1, <2>2
<1>12. \A n \in 0..N : walk[n] \in Places
  <2>1. walk[0] \in Places /\ \A n \in 1..N : walk[n - 1] \in Places => walk[n] \in Places
    BY ONLY <1>5, <1>6, <1>11
  <2> HIDE DEF N
  <2> QED BY ONLY <1>1, <2>1, RunStays
<1>13. Walks(walk, map, i)
  BY ONLY <1>4, <1>11, <1>12 DEF Walks
<1> QED BY ONLY <1>3, <1>13

\* The walk ends at a device: each alias leads to a region that was put in earlier.
LEMMA WalkEnds ==
    ASSUME NEW map, WellFormed(map), NEW i \in DOMAIN map, NEW f, Walks(f, map, i)
    PROVE  map[f[Len(map)].at].kind # "alias"
<1> DEFINE N == Len(map)
           Near(n) == map[f[n].at].kind # "alias" \/ f[n].at + n <= i
           T == {n \in 0..N : Near(n)}
<1>1. N \in Nat /\ i \in 1..N
  BY MapRegion
<1>2. \A n \in 0..N : f[n].at \in DOMAIN map /\ f[n].at \in 1..N
  BY MapRegion DEF Walks, Fits, Place
<1> HIDE DEF N
<1>3. 0 \in T
  <2>1. f[0].at = i
    BY DEF Walks, Start
  <2> QED BY ONLY <1>1, <2>1
<1>4. ASSUME NEW n \in 1..N, n - 1 \in T PROVE n \in T
  <2> DEFINE p == f[n - 1]
  <2>1. f[n] = Further(map, p) /\ Fits(map, i, p) /\ n - 1 \in 0..N /\ n \in 0..N /\ n \in Nat
    BY <1>1 DEF Walks, N
  <2>2. CASE map[p.at].kind # "alias"
    <3>1. f[n] = p
      BY ONLY <2>1, <2>2 DEF Further
    <3> QED BY ONLY <2>1, <2>2, <3>1
  <2>3. CASE map[p.at].kind = "alias"
    <3>1. f[n].at < p.at
      BY <2>1, <2>3, FurtherFits
    <3>2. p.at + (n - 1) <= i
      BY ONLY <1>4, <2>3
    <3>3. f[n].at \in Nat /\ p.at \in Nat
      BY ONLY <1>1, <1>2, <2>1
    <3>4. f[n].at + n <= i
      BY ONLY <1>1, <2>1, <3>1, <3>2, <3>3
    <3> QED BY ONLY <2>1, <3>4
  <2> QED BY ONLY <2>2, <2>3
<1>5. 0..N \subseteq T
  <2> HIDE DEF T
  <2> QED BY ONLY <1>1, <1>3, <1>4, UpTo
<1>6. Near(N) /\ f[N].at \in 1..N
  BY ONLY <1>1, <1>2, <1>5
<1>7. ~ (f[N].at + N <= i)
  BY ONLY <1>1, <1>6
<1> QED BY ONLY <1>6, <1>7 DEF N

\* What is known of the device a region is found in.
Found(map, i, o) == Fits(map, i, o) /\ map[o.at].kind # "alias"

LEMMA OwnerFound ==
    ASSUME NEW map, WellFormed(map), NEW i \in DOMAIN map
    PROVE  Found(map, i, Owner(map, i))
<1>1. PICK f : Walks(f, map, i) /\ Owner(map, i) = f[Len(map)]
  BY OwnerWalks
<1>2. Len(map) \in 0..Len(map)
  BY DEF WellFormed
<1>3. Fits(map, i, f[Len(map)])
  BY <1>1, <1>2 DEF Walks
<1>4. map[f[Len(map)].at].kind # "alias"
  BY <1>1, WalkEnds
<1> QED BY ONLY <1>1, <1>3, <1>4 DEF Found

-----------------------------------------------------------------------------
(* What the map means.                                                      *)

LEMMA OnTheWayOf ==
    ASSUME WellFormed(AllRegions), NEW addr \in Nat,
           NEW i \in DOMAIN AllRegions, Covers(AllRegions[i], addr)
    PROVE  OnTheWay(addr) =
              IF AllRegions[i].kind # "alias" THEN addr
              ELSE AllRegions[i].target + AllRegions[i].offset + (addr - AllRegions[i].base)
<1>1. i \in At(addr) /\ \A j \in At(addr) : j = i
  BY CoveredOnce DEF At
<1>2. (CHOOSE j \in At(addr) : TRUE) = i
  BY ONLY <1>1
<1> QED BY ONLY <1>1, <1>2 DEF OnTheWay

LEMMA OnTheWayTyped ==
    ASSUME WellFormed(AllRegions), NEW addr \in Nat
    PROVE  OnTheWay(addr) \in Nat
<1>1. CASE At(addr) = {}
  BY <1>1 DEF OnTheWay
<1>2. CASE At(addr) # {}
  <2>1. PICK i : i \in DOMAIN AllRegions /\ Covers(AllRegions[i], addr)
    BY <1>2 DEF At
  <2> DEFINE r == AllRegions[i]
  <2>2. r.base \in Nat /\ r.target \in Nat /\ r.offset \in Nat
    BY <2>1, MapRegion, RegionFields
  <2>3. OnTheWay(addr) = IF r.kind # "alias" THEN addr ELSE r.target + r.offset + (addr - r.base)
    BY <2>1, OnTheWayOf
  <2>4. r.base <= addr
    BY <2>1 DEF Covers
  <2> HIDE DEF r
  <2> QED BY ONLY <2>2, <2>3, <2>4, addr \in Nat
<1> QED BY <1>1, <1>2

LEMMA MeaningRuns ==
    ASSUME WellFormed(AllRegions), NEW addr \in Nat
    PROVE  \E w : /\ w[0] = addr /\ \A n \in 1..MaxRegions : w[n] = OnTheWay(w[n - 1])
                  /\ Meaning(addr) = w[MaxRegions]
<1> DEFINE F(w) == [n \in 0..MaxRegions |-> IF n = 0 THEN addr ELSE OnTheWay(w[n - 1])]
           way == CHOOSE w : w = F(w)
           step == [p \in Nat \X (1..MaxRegions) |-> OnTheWay(p[1])]
<1>1. MaxRegions \in Nat
  BY GuestAssumption
<1>2. \A x \in Nat, n \in 1..MaxRegions : step[<<x, n>>] = OnTheWay(x)
  OBVIOUS
<1> HIDE DEF step
<1>3. PICK g \in [0..MaxRegions -> Nat] : Runs(g, MaxRegions, addr, step)
  <2>1. \A x \in Nat : OnTheWay(x) \in Nat
    BY OnTheWayTyped
  <2>2. \A x \in Nat, n \in 1..MaxRegions : step[<<x, n>>] \in Nat
    BY ONLY <1>2, <2>1
  <2> QED BY ONLY <1>1, <2>2, addr \in Nat, RunExists
<1>4. g = F(g)
  <2>1. ASSUME NEW n \in 1..MaxRegions PROVE g[n] = OnTheWay(g[n - 1])
    <3>1. g[n - 1] \in Nat
      BY ONLY <1>1, <1>3
    <3>2. g[n] = step[<<g[n - 1], n>>]
      BY ONLY <1>3 DEF Runs
    <3> QED BY ONLY <1>2, <3>1, <3>2
  <2>2. g[0] = addr
    BY ONLY <1>3 DEF Runs
  <2>3. ASSUME NEW n \in 0..MaxRegions
        PROVE  g[n] = IF n = 0 THEN addr ELSE OnTheWay(g[n - 1])
    <3>1. n = 0 \/ n \in 1..MaxRegions
      BY ONLY <1>1
    <3> QED BY ONLY <1>1, <2>1, <2>2, <3>1
  <2> QED BY ONLY <1>3, <2>3
<1>5. way = F(way)
  <2> HIDE DEF F
  <2> QED BY <1>4
<1>6. Meaning(addr) = way[MaxRegions]
  BY DEF Meaning
<1> HIDE DEF way
<1>7. \A n \in 0..MaxRegions : way[n] = IF n = 0 THEN addr ELSE OnTheWay(way[n - 1])
  BY ONLY <1>5
<1>8. 0 \in 0..MaxRegions /\ \A n \in 1..MaxRegions : n \in 0..MaxRegions /\ n # 0
  BY ONLY <1>1
<1> QED BY ONLY <1>6, <1>7, <1>8

\* A covered address means the cell of the device that the chain of aliases leads to.
LEMMA MeaningOf ==
    ASSUME WellFormed(AllRegions), Len(AllRegions) <= MaxRegions,
           NEW i \in DOMAIN AllRegions, NEW addr \in Nat, Covers(AllRegions[i], addr)
    PROVE  Meaning(addr) = AllRegions[Owner(AllRegions, i).at].base
                             + Owner(AllRegions, i).offset + (addr - AllRegions[i].base)
<1> DEFINE map == AllRegions
           N == Len(map)
           inside == addr - map[i].base
           Cell(p) == map[p.at].base + p.offset + inside
<1>1. PICK f : Walks(f, map, i) /\ Owner(map, i) = f[N]
  BY OwnerWalks
<1>2. PICK w : /\ w[0] = addr /\ \A n \in 1..MaxRegions : w[n] = OnTheWay(w[n - 1])
               /\ Meaning(addr) = w[MaxRegions]
  BY MeaningRuns
<1>3. N \in Nat /\ MaxRegions \in Nat /\ N <= MaxRegions
  BY GuestAssumption DEF WellFormed
<1>4. map[i].base \in Nat /\ map[i].size \in Nat /\ map[i].base <= addr
      /\ addr < map[i].base + map[i].size
  BY MapRegion, RegionFields DEF Covers
<1>5. inside \in Nat /\ inside < map[i].size
  BY ONLY <1>4, addr \in Nat
\* The cell at which a place shows the address is covered by the region of the place.
<1>6. ASSUME NEW p, Fits(map, i, p)
      PROVE  /\ p.at \in DOMAIN map /\ p.offset \in Nat /\ map[p.at].base \in Nat
             /\ Cell(p) \in Nat /\ Covers(map[p.at], Cell(p))
  <2>1. p.at \in DOMAIN map /\ p.offset \in Nat /\ p.offset + map[i].size <= map[p.at].size
    BY <1>6 DEF Fits, Place
  <2>2. map[p.at].base \in Nat /\ map[p.at].size \in Nat
    BY <2>1, MapRegion, RegionFields
  <2> HIDE DEF inside, map
  <2>3. Cell(p) \in Nat /\ Covers(map[p.at], Cell(p))
    BY ONLY <1>4, <1>5, <2>1, <2>2 DEF Covers
  <2> QED BY ONLY <2>1, <2>2, <2>3
<1>7. ASSUME NEW p, Fits(map, i, p) PROVE OnTheWay(Cell(p)) = Cell(Further(map, p))
  <2> DEFINE here == map[p.at]
             q == Further(map, p)
  <2>1. OnTheWay(Cell(p)) = IF here.kind # "alias" THEN Cell(p)
                            ELSE here.target + here.offset + (Cell(p) - here.base)
    BY <1>6, <1>7, OnTheWayOf
  <2>2. CASE here.kind # "alias"
    BY ONLY <2>1, <2>2 DEF Further
  <2>3. CASE here.kind = "alias"
    <3>1. map[q.at].base = here.target /\ q.offset = p.offset + here.offset
      BY <1>7, <2>3, FurtherFits
    <3>2. here.offset \in Nat /\ here.target \in Nat /\ here.base \in Nat /\ p.offset \in Nat
      BY <1>6, <1>7, MapRegion, RegionFields
    <3> HIDE DEF map, q, inside
    <3>3. here.target + here.offset + (Cell(p) - here.base) = Cell(q)
      BY ONLY <1>5, <3>1, <3>2
    <3> QED BY ONLY <2>1, <2>3, <3>3 DEF q
  <2> QED BY ONLY <2>2, <2>3
<1>8. /\ f[0] = Start(i) /\ \A n \in 1..N : f[n] = Further(map, f[n - 1])
      /\ \A n \in 0..N : Fits(map, i, f[n])
  BY ONLY <1>1 DEF Walks
<1>9. Cell(Start(i)) = addr
  BY ONLY <1>4, addr \in Nat DEF Start
<1> HIDE DEF Cell, N, map
<1> DEFINE T == {n \in 0..N : w[n] = Cell(f[n])}
<1>10. 0 \in T
  BY ONLY <1>2, <1>3, <1>8, <1>9
<1>11. ASSUME NEW n \in 1..N, n - 1 \in T PROVE n \in T
  <2>1. n - 1 \in 0..N /\ n \in 0..N /\ n \in 1..MaxRegions /\ w[n - 1] = Cell(f[n - 1])
    BY ONLY <1>3, <1>11
  <2>2. w[n] = OnTheWay(w[n - 1]) /\ f[n] = Further(map, f[n - 1]) /\ Fits(map, i, f[n - 1])
    BY ONLY <1>2, <1>8, <2>1, n \in 1..N
  <2>3. OnTheWay(Cell(f[n - 1])) = Cell(Further(map, f[n - 1]))
    BY ONLY <1>7, <2>2
  <2> QED BY ONLY <2>1, <2>2, <2>3
<1>12. w[N] = Cell(f[N])
  <2>1. 0..N \subseteq T
    <3> HIDE DEF T
    <3> QED BY ONLY <1>3, <1>10, <1>11, UpTo
  <2> QED BY ONLY <1>3, <2>1
\* There the way stands still.
<1>13. OnTheWay(Cell(f[N])) = Cell(f[N])
  <2>1. map[f[N].at].kind # "alias"
    BY <1>1, WalkEnds DEF map, N
  <2>2. Further(map, f[N]) = f[N]
    BY ONLY <2>1 DEF Further
  <2>3. Fits(map, i, f[N])
    BY ONLY <1>3, <1>8
  <2> QED BY ONLY <1>7, <2>2, <2>3
<1> DEFINE K == MaxRegions - N
           U == {n \in 0..K : w[N + n] = Cell(f[N])}
<1>14. K \in Nat /\ N + K = MaxRegions
  BY ONLY <1>3
<1>15. 0 \in U
  BY ONLY <1>3, <1>12, <1>14
<1>16. ASSUME NEW n \in 1..K, n - 1 \in U PROVE n \in U
  <2>1. /\ N + n \in 1..MaxRegions /\ (N + n) - 1 = N + (n - 1) /\ n \in 0..K
        /\ w[N + (n - 1)] = Cell(f[N])
    BY ONLY <1>3, <1>14, <1>16
  <2>2. w[N + n] = OnTheWay(w[N + (n - 1)])
    BY ONLY <1>2, <2>1
  <2> QED BY ONLY <1>13, <2>1, <2>2
<1>17. w[MaxRegions] = Cell(f[N])
  <2>1. 0..K \subseteq U
    <3> HIDE DEF U, K
    <3> QED BY ONLY <1>14, <1>15, <1>16, UpTo
  <2> QED BY ONLY <1>14, <2>1
<1> QED BY ONLY <1>1, <1>2, <1>17 DEF Cell, map, N

-----------------------------------------------------------------------------
(* The bus and the windows of the host.                                     *)

\* The bus has the regions of the map, each alias as a window of its device.
Shows(regions, map) ==
    /\ DOMAIN regions = DOMAIN map
    /\ \A i \in DOMAIN map :
          /\ regions[i].base = map[i].base /\ regions[i].size = map[i].size
          /\ regions[i].kind = map[i].kind
          /\ map[i].kind = "alias" => /\ regions[i].target = map[Owner(map, i).at].base
                                      /\ regions[i].offset = Owner(map, i).offset

LEMMA FlattenedShows ==
    ASSUME NEW map, Flattened(map) # Failed, \A i \in DOMAIN map : map[i] \in Region
    PROVE  Shows(Flattened(map), map)
<1> DEFINE flat == [i \in DOMAIN map |->
                      IF map[i].kind # "alias" THEN map[i]
                      ELSE [map[i] EXCEPT !.target = map[Owner(map, i).at].base,
                                          !.offset = Owner(map, i).offset]]
<1>1. Flattened(map) = flat
  BY DEF Flattened
<1>2. ASSUME NEW i \in DOMAIN map
      PROVE  /\ flat[i].base = map[i].base /\ flat[i].size = map[i].size
             /\ flat[i].kind = map[i].kind
             /\ map[i].kind = "alias" => /\ flat[i].target = map[Owner(map, i).at].base
                                         /\ flat[i].offset = Owner(map, i).offset
  <2>1. map[i] \in Region
    OBVIOUS
  <2>2. flat[i] = IF map[i].kind # "alias" THEN map[i]
                  ELSE [map[i] EXCEPT !.target = map[Owner(map, i).at].base,
                                      !.offset = Owner(map, i).offset]
    OBVIOUS
  <2> HIDE DEF flat
  <2> QED BY ONLY <2>1, <2>2 DEF Region
<1>3. DOMAIN flat = DOMAIN map
  OBVIOUS
<1> HIDE DEF flat
<1> QED BY ONLY <1>1, <1>2, <1>3 DEF Shows

\* The windows of the regions that the host has memory for.
Window(regions, i) == [base |-> regions[i].base, size |-> regions[i].size,
                       pointer |-> Head(HostPointer(regions, i))]
Windows(regions) ==
    {Window(regions, i) : i \in {j \in DOMAIN regions : HostPointer(regions, j) # Nothing}}

LEMMA HostKeepsWindows ==
    ASSUME NEW regions, NEW windows \in SUBSET Windows(regions), NEW i \in DOMAIN regions
    PROVE  WithHost(windows, regions, i) \in SUBSET Windows(regions)
<1>1. CASE HostPointer(regions, i) = Nothing
  BY <1>1 DEF WithHost
<1>2. CASE HostPointer(regions, i) # Nothing
  <2>1. Window(regions, i) \in Windows(regions)
    BY <1>2 DEF Windows
  <2>2. WithHost(windows, regions, i) \subseteq windows \cup {Window(regions, i)}
    BY <1>2 DEF WithHost, MapHostRegion, Window
  <2> QED BY <2>1, <2>2
<1> QED BY <1>1, <1>2

LEMMA BindsWindows ==
    ASSUME NEW regions, Len(regions) \in Nat, DOMAIN regions = 1..Len(regions), Bind(regions)
    PROVE  hosts' \subseteq Windows(regions)
<1> DEFINE N == Len(regions)
           S == SUBSET Windows(regions)
           F(f) == [n \in 0..Len(regions) |->
                      IF n = 0 THEN {} ELSE WithHost(f[n - 1], regions, n)]
           windows == CHOOSE f : f = F(f)
           step == [p \in S \X (1..N) |-> WithHost(p[1], regions, p[2])]
<1>1. N \in Nat /\ {} \in S
  OBVIOUS
<1>2. \A x \in S, n \in 1..N : WithHost(x, regions, n) \in S
  BY HostKeepsWindows
<1> HIDE DEF S
<1>3. \A x \in S, n \in 1..N : step[<<x, n>>] = WithHost(x, regions, n)
  OBVIOUS
<1> HIDE DEF step
<1>4. PICK g \in [0..N -> S] : Runs(g, N, {}, step)
  <2>1. \A x \in S, n \in 1..N : step[<<x, n>>] \in S
    BY ONLY <1>2, <1>3
  <2> HIDE DEF N
  <2> QED BY ONLY <1>1, <2>1, RunExists
<1>5. g = F(g)
  <2>1. ASSUME NEW n \in 1..N PROVE g[n] = WithHost(g[n - 1], regions, n)
    <3>1. g[n - 1] \in S
      BY ONLY <1>1, <1>4
    <3>2. g[n] = step[<<g[n - 1], n>>]
      BY ONLY <1>4 DEF Runs
    <3> QED BY ONLY <1>3, <3>1, <3>2
  <2>2. g[0] = {}
    BY ONLY <1>4 DEF Runs
  <2>3. ASSUME NEW n \in 0..N
        PROVE  g[n] = IF n = 0 THEN {} ELSE WithHost(g[n - 1], regions, n)
    <3>1. n = 0 \/ n \in 1..N
      BY ONLY <1>1
    <3> QED BY ONLY <1>1, <2>1, <2>2, <3>1
  <2> QED BY ONLY <1>4, <2>3
<1>6. windows = F(windows)
  <2> HIDE DEF F
  <2> QED BY <1>5
<1>7. hosts' = windows[N]
  BY DEF Bind
<1> HIDE DEF windows
<1>8. windows[0] = {} /\ \A n \in 1..N : windows[n] = WithHost(windows[n - 1], regions, n)
  <2>1. \A n \in 0..N : windows[n] = IF n = 0 THEN {} ELSE WithHost(windows[n - 1], regions, n)
    BY ONLY <1>6
  <2> HIDE DEF N
  <2>2. 0 \in 0..N /\ \A n \in 1..N : n \in 0..N /\ n # 0
    BY ONLY <1>1
  <2> QED BY ONLY <2>1, <2>2
<1>9. windows[N] \in S
  <2>1. windows[0] \in S /\ \A n \in 1..N : windows[n - 1] \in S => windows[n] \in S
    BY ONLY <1>1, <1>2, <1>8
  <2>2. N \in 0..N
    BY ONLY <1>1
  <2> HIDE DEF N
  <2> QED BY ONLY <1>1, <2>1, <2>2, RunStays
<1> QED BY ONLY <1>7, <1>9 DEF S

-----------------------------------------------------------------------------
(* The board is put together.                                               *)

Parts == {"core", "package"}
PartsOk ==
    /\ parts \in [Parts -> Seq(Region)]
    /\ WellFormed(parts["core"]) /\ WellFormed(parts["package"])
    /\ Len(parts["core"]) + Len(parts["package"]) <= MaxRegions

BusOk ==
    bus # Nothing => /\ WellFormed(AllRegions) /\ Len(AllRegions) <= MaxRegions
                     /\ Shows(bus, AllRegions) /\ hosts \subseteq Windows(bus)

MapInv == PartsOk /\ BusOk

LEMMA OneMore ==
    ASSUME NEW a \in Nat, NEW b \in Nat, NEW c \in Nat, a + b < c, NEW d
    PROVE  (d = a + 1 => d + b <= c) /\ (d = b + 1 => a + d <= c)
  OBVIOUS

LEMMA ExtendKeepsMap ==
    ASSUME MapInv, NEW part \in Parts, NEW map, Extend(part, map),
           WellFormed(map), Len(map) = Len(parts[part]) + 1
    PROVE  MapInv'
<1>1. bus' = Nothing
  BY DEF Extend
<1>2. BusOk'
  BY ONLY <1>1 DEF BusOk, Nothing
<1>3. /\ parts \in [Parts -> Seq(Region)] /\ WellFormed(parts["core"])
      /\ WellFormed(parts["package"])
  BY DEF MapInv, PartsOk
<1>4. parts' = [parts EXCEPT ![part] = map]
      /\ Len(parts["core"]) + Len(parts["package"]) < MaxRegions /\ MaxRegions \in Nat
  BY GuestAssumption DEF Extend
<1>5. map \in Seq(Region)
  BY DEF WellFormed
<1>6. /\ Len(parts["core"]) \in Nat /\ Len(parts["package"]) \in Nat
  BY ONLY <1>3 DEF Parts
<1>7. parts' \in [Parts -> Seq(Region)]
  BY ONLY <1>3, <1>4, <1>5
<1>8. CASE part = "core"
  <2>1. parts'["core"] = map /\ parts'["package"] = parts["package"]
    BY ONLY <1>3, <1>4, <1>8 DEF Parts
  <2>2. Len(parts'["core"]) + Len(parts'["package"]) <= MaxRegions
    <3>1. Len(map) = Len(parts["core"]) + 1
      BY ONLY <1>8, Len(map) = Len(parts[part]) + 1
    <3>2. Len(map) + Len(parts["package"]) <= MaxRegions
      BY ONLY <1>4, <1>6, <3>1, OneMore
    <3> QED BY ONLY <2>1, <3>2
  <2> QED BY ONLY <1>2, <1>3, <1>7, <2>1, <2>2, WellFormed(map) DEF MapInv, PartsOk
<1>9. CASE part = "package"
  <2>1. parts'["package"] = map /\ parts'["core"] = parts["core"]
    BY ONLY <1>3, <1>4, <1>9 DEF Parts
  <2>2. Len(parts'["core"]) + Len(parts'["package"]) <= MaxRegions
    <3>1. Len(map) = Len(parts["package"]) + 1
      BY ONLY <1>9, Len(map) = Len(parts[part]) + 1
    <3>2. Len(parts["core"]) + Len(map) <= MaxRegions
      BY ONLY <1>4, <1>6, <3>1, OneMore
    <3> QED BY ONLY <2>1, <3>2
  <2> QED BY ONLY <1>2, <1>3, <1>7, <2>1, <2>2, WellFormed(map) DEF MapInv, PartsOk
<1> QED BY <1>8, <1>9 DEF Parts

LEMMA DeviceKeepsMap == ASSUME MapInv, NEW part \in Parts, AddDevice(part) PROVE MapInv'
<1>1. PICK d \in Devices : Extend(part, MapDevice(parts[part], d[1], d[2], d[3]))
  BY DEF AddDevice
<1>2. d[1] \in 0..(Top - 1) /\ d[2] \in 0..(Top - 1) /\ d[3] \in {"ram", "rom", "mmio"}
  BY GuestAssumption
<1> DEFINE map == MapDevice(parts[part], d[1], d[2], d[3])
           r == Device(d[1], d[2], d[3])
<1>3. map # Failed
  BY <1>1 DEF Extend
<1>4. WellFormed(parts[part])
  BY DEF MapInv, PartsOk, Parts
<1>5. map = Append(parts[part], r) /\ WellFormed(map)
  BY ONLY <1>2, <1>3, <1>4, DeviceMapped
<1>6. parts[part] \in Seq(Region)
  BY <1>4 DEF WellFormed
<1> HIDE DEF r, map
<1>7. Len(map) = Len(parts[part]) + 1
  BY ONLY <1>5, <1>6
<1>8. Extend(part, map)
  BY ONLY <1>1 DEF map
<1> QED BY ONLY MapInv, part \in Parts, <1>5, <1>7, <1>8, ExtendKeepsMap

LEMMA AliasKeepsMap == ASSUME MapInv, NEW part \in Parts, AddAlias(part) PROVE MapInv'
<1>1. PICK a \in Aliases : Extend(part, MapAlias(parts[part], a[1], a[2], a[3]))
  BY DEF AddAlias
<1>2. a[1] \in 0..(Top - 1) /\ a[2] \in 0..Top /\ a[3] \in 0..(Top - 1)
  BY GuestAssumption
<1> DEFINE map == MapAlias(parts[part], a[1], a[2], a[3])
<1>3. map # Failed
  BY <1>1 DEF Extend
<1>4. WellFormed(parts[part])
  BY DEF MapInv, PartsOk, Parts
<1>5. WellFormed(map) /\ \E r : map = Append(parts[part], r)
  <2>1. /\ WellFormed(map)
        /\ \E j \in DOMAIN parts[part] :
              map = Append(parts[part], Alias(a[1], a[3], parts[part][j].base,
                                              a[2] - parts[part][j].base))
    BY ONLY <1>2, <1>3, <1>4, AliasMapped
  <2> HIDE DEF map
  <2> QED BY ONLY <2>1
<1>6. parts[part] \in Seq(Region)
  BY <1>4 DEF WellFormed
<1> HIDE DEF map
<1>7. Len(map) = Len(parts[part]) + 1
  BY ONLY <1>5, <1>6
<1>8. Extend(part, map)
  BY ONLY <1>1 DEF map
<1> QED BY ONLY MapInv, part \in Parts, <1>5, <1>7, <1>8, ExtendKeepsMap

LEMMA BuildKeepsMap == ASSUME MapInv, Build PROVE MapInv'
<1> DEFINE map == Merged(parts.core, parts.package)
<1>1. /\ map # Failed /\ Flattened(map) # Failed /\ bus' = Flattened(map)
      /\ Bind(Flattened(map)) /\ UNCHANGED parts
  BY DEF Build
<1>2. /\ parts["core"] \in Seq(Region) /\ parts["package"] \in Seq(Region)
      /\ WellFormed(parts["core"]) /\ WellFormed(parts["package"])
      /\ Len(parts["core"]) + Len(parts["package"]) <= MaxRegions
  BY DEF MapInv, PartsOk, Parts
<1>3. map = AllRegions /\ WellFormed(AllRegions)
  BY <1>1, <1>2, MergedWhole DEF AllRegions
<1> HIDE DEF map
<1>4. PartsOk'
  BY <1>1 DEF MapInv, PartsOk
<1>5. AllRegions' = AllRegions
  BY <1>1 DEF AllRegions
<1>6. Len(AllRegions) = Len(parts["core"]) + Len(parts["package"])
  BY ONLY <1>2 DEF AllRegions
<1>7. Shows(bus', AllRegions)
  <2>1. \A i \in DOMAIN AllRegions : AllRegions[i] \in Region
    BY <1>3, MapRegion
  <2> QED BY <1>1, <1>3, <2>1, FlattenedShows
<1>8. hosts' \subseteq Windows(bus')
  <2>1. DOMAIN bus' = DOMAIN AllRegions /\ DOMAIN AllRegions = 1..Len(AllRegions)
        /\ Len(AllRegions) \in Nat
    BY <1>3, <1>7 DEF Shows, WellFormed
  <2>2. Len(bus') = Len(AllRegions)
    BY ONLY <2>1
  <2> QED BY <1>1, <2>1, <2>2, BindsWindows
<1>9. WellFormed(AllRegions)' /\ Shows(bus, AllRegions)' /\ (Len(AllRegions) <= MaxRegions)'
  BY <1>2, <1>3, <1>5, <1>6, <1>7
<1> QED BY ONLY <1>4, <1>8, <1>9 DEF MapInv, BusOk

LEMMA StepKeepsMap == ASSUME MapInv, [Next]_guestVars PROVE MapInv'
<1>1. CASE \E part \in Parts : AddDevice(part) \/ AddAlias(part)
  BY <1>1, DeviceKeepsMap, AliasKeepsMap
<1>2. CASE Build
  BY <1>2, BuildKeepsMap
<1>3. CASE UNCHANGED <<parts, bus, hosts>>
  BY <1>3 DEF MapInv, PartsOk, BusOk, AllRegions
<1>4. EndQuantum => UNCHANGED <<parts, bus, hosts>>
  BY DEF EndQuantum
<1>5. ASSUME NEW op, NEW addr, NEW len, GuestAccess(op, addr, len) \/ InspectAccess(op, addr, len)
      PROVE  UNCHANGED <<parts, bus, hosts>>
  BY <1>5 DEF GuestAccess, InspectAccess, accessed
<1>6. UNCHANGED guestVars => UNCHANGED <<parts, bus, hosts>>
  BY DEF guestVars
<1> QED BY <1>1, <1>2, <1>3, <1>4, <1>5, <1>6 DEF Next, Parts

LEMMA EmptyIsWellFormed == WellFormed(<<>>)
  BY DEF WellFormed, Apart

LEMMA InitMap == Init => MapInv
<1> SUFFICES ASSUME Init PROVE MapInv
  OBVIOUS
<1>1. parts = [part \in Parts |-> <<>>] /\ bus = Nothing
  BY DEF Init, Parts
<1>2. BusOk
  BY ONLY <1>1 DEF BusOk
<1>3. parts \in [Parts -> Seq(Region)] /\ parts["core"] = <<>> /\ parts["package"] = <<>>
  BY ONLY <1>1 DEF Parts
<1>4. MaxRegions \in Nat
  BY GuestAssumption
<1>5. Len(parts["core"]) + Len(parts["package"]) <= MaxRegions
  BY ONLY <1>3, <1>4
<1> QED BY ONLY <1>2, <1>3, <1>5, EmptyIsWellFormed DEF MapInv, PartsOk

-----------------------------------------------------------------------------
(* What is read through the bus, and through the windows of the host.       *)

\* Where the bus finds the cell that a region has at an address.
CellOf(map, i, addr) ==
    map[Owner(map, i).at].base + Owner(map, i).offset + (addr - map[i].base)

LEMMA OwnerOfDevice ==
    ASSUME NEW map, WellFormed(map), NEW i \in DOMAIN map, map[i].kind # "alias"
    PROVE  Owner(map, i) = Start(i)
<1>1. PICK f : Walks(f, map, i) /\ Owner(map, i) = f[Len(map)]
  BY OwnerWalks
<1> DEFINE N == Len(map)
           T == {n \in 0..N : f[n] = Start(i)}
<1>2. N \in Nat
  BY DEF WellFormed
<1>3. f[0] = Start(i) /\ \A n \in 1..N : f[n] = Further(map, f[n - 1])
  BY <1>1 DEF Walks
<1>4. Further(map, Start(i)) = Start(i)
  BY DEF Further, Start
<1> HIDE DEF N
<1>5. 0 \in T /\ \A n \in 1..N : n - 1 \in T => n \in T
  BY ONLY <1>2, <1>3, <1>4
<1>6. 0..N \subseteq T
  <2> HIDE DEF T
  <2> QED BY ONLY <1>2, <1>5, UpTo
<1> QED BY ONLY <1>1, <1>2, <1>6 DEF N

\* The bus finds the cell of the region that covers an address.
LEMMA BusCell ==
    ASSUME NEW map, WellFormed(map), NEW regions, Shows(regions, map),
           NEW addr \in 0..(Top - 1), NEW len \in Nat \ {0}
    PROVE  LET hit == Resolve(regions, addr, len) IN
           /\ hit.result = "Unmapped" <=> \A i \in DOMAIN map : ~ Covers(map[i], addr)
           /\ hit.result = "ok" <=> \E i \in DOMAIN map : /\ Covers(map[i], addr)
                                                         /\ Covers(map[i], addr + len - 1)
           /\ hit.result = "ok" => \A i \in DOMAIN map : Covers(map[i], addr) =>
                                      hit.device + hit.offset = CellOf(map, i, addr)
<1> DEFINE hit == Resolve(regions, addr, len)
           j == FindRegion(regions, addr)
<1>1. j = FindRegion(map, addr)
  <2>1. \A i \in DOMAIN map : Hits(regions[i], addr) <=> Hits(map[i], addr)
    BY DEF Shows, Hits
  <2>2. {i \in DOMAIN regions : Hits(regions[i], addr)} = {i \in DOMAIN map : Hits(map[i], addr)}
    BY ONLY <2>1, Shows(regions, map) DEF Shows
  <2> QED BY ONLY <2>2 DEF FindRegion
<1>2. addr \in 0..Top /\ addr \in Nat /\ addr # Top /\ Top \in Nat
  BY TopIsNat
<1>3. j = 0 => \A i \in DOMAIN map : ~ Covers(map[i], addr)
  BY <1>1, <1>2, RegionFound
<1>4. j # 0 => j \in DOMAIN map /\ Covers(map[j], addr)
  BY <1>1, <1>2, RegionFound
<1>5. CASE j = 0
  <2>1. hit = [result |-> "Unmapped"]
    BY <1>5 DEF Resolve
  <2> QED BY ONLY <1>3, <1>5, <2>1
<1>6. CASE j # 0
  <2> DEFINE r == map[j]
             b == regions[j]
             in == addr - r.base
             o == Owner(map, j)
  <2>1. j \in DOMAIN map /\ Covers(r, addr)
    BY <1>4, <1>6
  <2>2. \A i \in DOMAIN map : Covers(map[i], addr) => i = j
    BY <1>2, <2>1, CoveredOnce
  <2>3. /\ b.base = r.base /\ b.size = r.size /\ b.kind = r.kind
        /\ r.kind = "alias" => b.target = map[o.at].base /\ b.offset = o.offset
    BY <2>1 DEF Shows
  <2>4. /\ r.base \in Nat /\ r.size \in Nat /\ r.size < Top /\ r.base <= addr
        /\ addr < r.base + r.size
    BY <2>1, MapRegion, RegionFields DEF Covers
  <2>5. in \in Nat /\ in < r.size /\ addr = r.base + in
    BY ONLY <1>2, <2>4
  <2>6. /\ o.at \in DOMAIN map /\ o.offset \in Nat /\ o.offset + r.size <= map[o.at].size
        /\ map[o.at].base \in Nat /\ map[o.at].size \in Nat /\ map[o.at].size < Top
    BY <2>1, OwnerFound, MapRegion, RegionFields DEF Found, Fits, Place
  <2>7. hit = IF Sat(in, len) > b.size THEN [result |-> "OutOfRange"]
              ELSE IF b.kind # "alias"
                   THEN [result |-> "ok", device |-> b.base, offset |-> in]
              ELSE [result |-> "ok", device |-> b.target, offset |-> Sat(b.offset, in)]
    BY <1>6, <2>3 DEF Resolve
  <2>8. r.kind # "alias" => o = Start(j)
    BY <2>1, OwnerOfDevice
  <2> HIDE DEF hit, r, b, in, o, j
  <2>9. Sat(in, len) > r.size <=> ~ Covers(r, addr + len - 1)
    BY ONLY <1>2, <2>4, <2>5, len \in Nat \ {0} DEF Sat, Covers
  <2>10. Sat(o.offset, in) = o.offset + in
    BY ONLY <1>2, <2>4, <2>5, <2>6 DEF Sat
  <2>11. CellOf(map, j, addr) = map[o.at].base + o.offset + in
    BY ONLY TRUE DEF CellOf, o, in, r
  <2>12. hit.result = "Unmapped" <=> \A i \in DOMAIN map : ~ Covers(map[i], addr)
    <3>1. hit.result # "Unmapped"
      BY ONLY <2>7
    <3>2. \E i \in DOMAIN map : Covers(map[i], addr)
      BY ONLY <2>1 DEF r
    <3> QED BY ONLY <3>1, <3>2
  <2>13. hit.result = "ok" <=> Covers(r, addr + len - 1)
    BY ONLY <2>3, <2>7, <2>9
  <2>14. hit.result = "ok" <=> \E i \in DOMAIN map : /\ Covers(map[i], addr)
                                                    /\ Covers(map[i], addr + len - 1)
    BY ONLY <2>1, <2>2, <2>13 DEF r
  <2>15. ASSUME hit.result = "ok" PROVE hit.device + hit.offset = CellOf(map, j, addr)
    <3>1. ~ (Sat(in, len) > b.size)
      BY ONLY <2>3, <2>9, <2>13, <2>15
    <3>2. CASE r.kind # "alias"
      <4>1. hit.device = r.base /\ hit.offset = in
        BY ONLY <2>3, <2>7, <3>1, <3>2
      <4>2. map[o.at].base = r.base /\ o.offset = 0
        BY ONLY <2>8, <3>2 DEF Start, r
      <4> QED BY ONLY <2>4, <2>5, <2>11, <4>1, <4>2
    <3>3. CASE r.kind = "alias"
      <4>1. hit.device = map[o.at].base /\ hit.offset = o.offset + in
        BY ONLY <2>3, <2>7, <2>10, <3>1, <3>3
      <4> QED BY ONLY <2>5, <2>6, <2>11, <4>1
    <3> QED BY ONLY <3>2, <3>3
  <2>16. hit.result = "ok" => \A i \in DOMAIN map : Covers(map[i], addr) =>
                                 hit.device + hit.offset = CellOf(map, i, addr)
    BY ONLY <2>2, <2>15
  <2> QED BY ONLY <2>12, <2>14, <2>16 DEF hit
<1> QED BY ONLY <1>5, <1>6

\* So does a window of the host.
LEMMA HostCell ==
    ASSUME NEW map, WellFormed(map), NEW regions, Shows(regions, map),
           NEW addr \in 0..(Top - 1), NEW w \in Windows(regions),
           addr >= w.base, addr < Sat(w.base, w.size)
    PROVE  \E i \in DOMAIN map :
              /\ Covers(map[i], addr)
              /\ w.pointer.device + w.pointer.offset + (addr - w.base) = CellOf(map, i, addr)
<1>1. PICK i \in DOMAIN regions : HostPointer(regions, i) # Nothing /\ w = Window(regions, i)
  BY DEF Windows
<1> DEFINE r == map[i]
           b == regions[i]
           o == Owner(map, i)
           device == IF b.kind = "alias" THEN regions[FindBase(regions, b.target)] ELSE b
<1>2. i \in DOMAIN map
  BY <1>1 DEF Shows
<1>3. /\ b.base = r.base /\ b.size = r.size /\ b.kind = r.kind
      /\ r.kind = "alias" => b.target = map[o.at].base /\ b.offset = o.offset
  BY <1>2 DEF Shows
<1>4. o.at \in DOMAIN map /\ o.offset \in Nat /\ map[o.at].base \in Nat
  BY <1>2, OwnerFound, MapRegion, RegionFields DEF Found, Fits, Place
<1>5. r.base \in Nat /\ r.size \in Nat
  BY <1>2, MapRegion, RegionFields
<1>6. HostPointer(regions, i) = <<[device |-> device.base,
                                   offset |-> IF b.kind = "alias" THEN b.offset ELSE 0]>>
  BY <1>1 DEF HostPointer, Nothing
<1>7. /\ w.base = b.base /\ w.size = b.size /\ w.pointer.device = device.base
      /\ w.pointer.offset = IF b.kind = "alias" THEN b.offset ELSE 0
  BY ONLY <1>1, <1>6 DEF Window
<1>8. r.kind = "alias" => device.base = map[o.at].base
  <2>1. SUFFICES ASSUME r.kind = "alias" PROVE device.base = map[o.at].base
    OBVIOUS
  <2>2. \A x : FindBase(regions, x) = FindBase(map, x)
    <3>1. SUFFICES ASSUME NEW x PROVE FindBase(regions, x) = FindBase(map, x)
      OBVIOUS
    <3>2. {j \in DOMAIN regions : regions[j].base = x} = {j \in DOMAIN map : map[j].base = x}
      BY DEF Shows
    <3> QED BY ONLY <3>2 DEF FindBase
  <2>3. FindBase(regions, b.target) = o.at
    BY <1>3, <1>4, <2>1, <2>2, BaseFound
  <2>4. device = regions[o.at]
    BY <1>3, <2>1, <2>3
  <2>5. regions[o.at].base = map[o.at].base
    BY <1>4 DEF Shows
  <2> QED BY ONLY <2>4, <2>5
<1>9. r.kind # "alias" => device.base = r.base /\ o = Start(i)
  BY <1>2, <1>3, OwnerOfDevice
<1> HIDE DEF device, b, o
<1>10. Covers(r, addr)
  BY ONLY <1>3, <1>5, <1>7, addr >= w.base, addr < Sat(w.base, w.size), TopIsNat,
          addr \in 0..(Top - 1)
     DEF Covers, Sat
<1>11. CellOf(map, i, addr) = map[o.at].base + o.offset + (addr - r.base)
  BY ONLY TRUE DEF CellOf, o
<1>12. w.pointer.device + w.pointer.offset + (addr - w.base) = CellOf(map, i, addr)
  <2>1. CASE r.kind = "alias"
    BY ONLY <1>3, <1>7, <1>8, <1>11, <2>1
  <2>2. CASE r.kind # "alias"
    <3>1. map[o.at].base = r.base /\ o.offset = 0
      BY ONLY <1>9, <2>2 DEF Start
    <3> QED BY ONLY <1>3, <1>7, <1>9, <1>11, <2>2, <3>1
  <2> QED BY ONLY <2>1, <2>2
<1> QED BY ONLY <1>2, <1>10, <1>12

LEMMA MapIsOneMemory == MapInv => OneMemory
<1>1. SUFFICES ASSUME MapInv, bus # Nothing, NEW addr \in 0..(Top - 1)
      PROVE  /\ \A len \in 1..PageSize :
                   LET hit == Resolve(bus, addr, len) IN
                   /\ hit.result = "Unmapped" <=> At(addr) = {}
                   /\ hit.result = "ok"
                         <=> \E i \in At(addr) : Covers(AllRegions[i], addr + len - 1)
                   /\ hit.result = "ok" => \A k \in 0..(len - 1) :
                                              hit.device + hit.offset + k = Meaning(addr + k)
             /\ \A w \in HostWindows(addr) :
                   w.pointer.device + w.pointer.offset + (addr - w.base) = Meaning(addr)
  BY DEF OneMemory
<1> DEFINE map == AllRegions
<1>2. /\ WellFormed(map) /\ Len(map) <= MaxRegions
      /\ Shows(bus, map) /\ hosts \subseteq Windows(bus)
  BY <1>1 DEF MapInv, BusOk
<1>3. addr \in Nat
  BY <1>1, TopIsNat
<1>4. ASSUME NEW i \in DOMAIN map, NEW a \in Nat, Covers(map[i], a)
      PROVE  Meaning(a) = CellOf(map, i, a)
  BY <1>2, <1>4, MeaningOf DEF CellOf
<1>5. \A i : i \in At(addr) <=> i \in DOMAIN map /\ Covers(map[i], addr)
  BY DEF At
<1>6. ASSUME NEW len \in 1..PageSize
      PROVE  LET hit == Resolve(bus, addr, len) IN
             /\ hit.result = "Unmapped" <=> At(addr) = {}
             /\ hit.result = "ok" <=> \E i \in At(addr) : Covers(map[i], addr + len - 1)
             /\ hit.result = "ok" => \A k \in 0..(len - 1) :
                                        hit.device + hit.offset + k = Meaning(addr + k)
  <2> DEFINE hit == Resolve(bus, addr, len)
  <2>1. len \in Nat \ {0}
    BY GuestAssumption
  <2> HIDE DEF map
  <2>2. /\ hit.result = "Unmapped" <=> \A i \in DOMAIN map : ~ Covers(map[i], addr)
        /\ hit.result = "ok" <=> \E i \in DOMAIN map : /\ Covers(map[i], addr)
                                                      /\ Covers(map[i], addr + len - 1)
        /\ hit.result = "ok" => \A i \in DOMAIN map : Covers(map[i], addr) =>
                                   hit.device + hit.offset = CellOf(map, i, addr)
    BY ONLY <1>1, <1>2, <2>1, BusCell
  <2> HIDE DEF hit
  <2>3. ASSUME hit.result = "ok", NEW k \in 0..(len - 1)
        PROVE  hit.device + hit.offset + k = Meaning(addr + k)
    <3>1. PICK i \in DOMAIN map : Covers(map[i], addr) /\ Covers(map[i], addr + len - 1)
      BY ONLY <2>2, <2>3
    <3>2. map[i].base \in Nat /\ map[i].size \in Nat /\ k \in Nat /\ addr + k \in Nat
      BY <1>2, <1>3, <2>1, MapRegion, RegionFields
    <3>3. Covers(map[i], addr + k)
      BY ONLY <1>3, <2>1, <3>1, <3>2, k \in 0..(len - 1) DEF Covers
    <3>4. Meaning(addr + k) = CellOf(map, i, addr + k)
      BY ONLY <1>4, <3>2, <3>3
    <3>5. hit.device + hit.offset = CellOf(map, i, addr)
      BY ONLY <2>2, <2>3, <3>1
    <3>6. CellOf(map, i, addr + k) = CellOf(map, i, addr) + k
      <4>1. /\ map[Owner(map, i).at].base \in Nat /\ Owner(map, i).offset \in Nat
        BY <1>2, OwnerFound, MapRegion, RegionFields DEF Found, Fits, Place
      <4> QED BY ONLY <1>3, <3>2, <4>1 DEF CellOf
    <3> QED BY ONLY <3>4, <3>5, <3>6
  <2>4. hit.result = "Unmapped" <=> At(addr) = {}
    BY ONLY <1>5, <2>2
  <2>5. hit.result = "ok" <=> \E i \in At(addr) : Covers(map[i], addr + len - 1)
    BY ONLY <1>5, <2>2
  <2> QED BY ONLY <2>3, <2>4, <2>5 DEF hit
<1>7. ASSUME NEW w \in HostWindows(addr)
      PROVE  w.pointer.device + w.pointer.offset + (addr - w.base) = Meaning(addr)
  <2>1. w \in Windows(bus) /\ addr >= w.base /\ addr < Sat(w.base, w.size)
    BY <1>2 DEF HostWindows
  <2> HIDE DEF map
  <2>2. PICK i \in DOMAIN map :
           /\ Covers(map[i], addr)
           /\ w.pointer.device + w.pointer.offset + (addr - w.base) = CellOf(map, i, addr)
    BY ONLY <1>1, <1>2, <2>1, HostCell
  <2> QED BY ONLY <1>3, <1>4, <2>2
<1> QED BY ONLY <1>6, <1>7

\* One memory: what the bus gives a debugger at an address, and what the host windows give
\* the guest, is the cell that the map as it was put together means, for any devices,
\* windows and chains of aliases; and an access succeeds unless it leaves its window.
THEOREM MemoryIsOne == Spec => []OneMemory
<1>1. Spec => []MapInv
  BY InitMap, StepKeepsMap, PTL DEF Spec
<1> QED BY <1>1, MapIsOneMemory, PTL

-----------------------------------------------------------------------------
(* The stop of a quantum.                                                   *)

\* What is latched is the first access of the guest that failed.
StopInv ==
    /\ failed \in Seq(Addresses)
    /\ latch = (IF failed = <<>> THEN Nothing ELSE <<Head(failed)>>)
    /\ policy = "Log" => trap = Nothing

LEMMA StepKeepsStop == ASSUME StopInv, [Next]_guestVars PROVE StopInv'
<1>1. CASE UNCHANGED <<failed, latch, policy, trap>>
  BY <1>1 DEF StopInv
<1>2. ASSUME NEW part, AddDevice(part) \/ AddAlias(part)
      PROVE  UNCHANGED <<failed, latch, policy, trap>>
  BY <1>2 DEF AddDevice, AddAlias, Extend, building
<1>3. Build => UNCHANGED <<failed, latch, policy, trap>>
  BY DEF Build, building
<1>4. ASSUME EndQuantum PROVE StopInv'
  <2>1. failed' = <<>> /\ latch' = Nothing /\ trap' = Nothing
    BY <1>4 DEF EndQuantum
  <2> QED BY <2>1 DEF StopInv
<1>5. ASSUME NEW op, NEW addr \in Addresses, NEW len,
             GuestAccess(op, addr, len) \/ InspectAccess(op, addr, len)
      PROVE  StopInv'
  <2>1. /\ trap' = TrapAfter(Accessed(bus, op, addr, len), addr) /\ policy' = policy
        /\ \/ UNCHANGED <<latch, failed>>
           \/ latch' = RequestStop(addr) /\ failed' = Append(failed, addr)
    BY <1>5 DEF GuestAccess, InspectAccess, accessed
  <2>2. policy' = "Log" => trap' = Nothing
    BY <2>1 DEF TrapAfter, StopInv
  <2>3. CASE UNCHANGED <<latch, failed>>
    BY <2>2, <2>3 DEF StopInv
  <2>4. CASE latch' = RequestStop(addr) /\ failed' = Append(failed, addr)
    <3>1. failed \in Seq(Addresses)
      BY DEF StopInv
    <3>2. failed' \in Seq(Addresses) /\ failed' # <<>>
      BY ONLY <2>4, <3>1, addr \in Addresses
    <3>3. latch' = <<Head(failed')>>
      <4>1. CASE failed = <<>>
        <5>1. latch' = <<addr>>
          BY <2>4, <4>1 DEF RequestStop, StopInv
        <5>2. Head(failed') = addr
          BY ONLY <2>4, <4>1, addr \in Addresses
        <5> QED BY ONLY <5>1, <5>2
      <4>2. CASE failed # <<>>
        <5>1. latch = <<Head(failed)>>
          BY <4>2 DEF StopInv
        <5>2. latch # Nothing
          BY ONLY <5>1 DEF Nothing
        <5>3. latch' = latch
          BY <2>4, <5>2 DEF RequestStop
        <5>4. Head(failed') = Head(failed)
          BY ONLY <2>4, <3>1, <4>2, addr \in Addresses
        <5> QED BY ONLY <5>1, <5>3, <5>4
      <4> QED BY ONLY <4>1, <4>2
    <3> QED BY ONLY <2>2, <3>2, <3>3 DEF StopInv
  <2> QED BY ONLY <2>1, <2>3, <2>4
<1>6. UNCHANGED guestVars => UNCHANGED <<failed, latch, policy, trap>>
  BY DEF guestVars
<1> QED BY <1>1, <1>2, <1>3, <1>4, <1>5, <1>6 DEF Next

LEMMA StepStops ==
    ASSUME StopInv, [Next]_guestVars
    PROVE  [ quanta' # quanta =>
               /\ failed # <<>> => stop' # Nothing
               /\ policy = "Log" =>
                     stop' = (IF failed = <<>> THEN Nothing ELSE <<Head(failed)>>) ]_guestVars
<1>1. SUFFICES ASSUME quanta' # quanta
      PROVE  /\ failed # <<>> => stop' # Nothing
             /\ policy = "Log" =>
                   stop' = (IF failed = <<>> THEN Nothing ELSE <<Head(failed)>>)
  OBVIOUS
<1>2. ASSUME NEW part, AddDevice(part) \/ AddAlias(part) PROVE UNCHANGED quanta
  BY <1>2 DEF AddDevice, AddAlias, Extend, building
<1>3. Build => UNCHANGED quanta
  BY DEF Build, building
<1>4. ASSUME NEW op, NEW addr, NEW len, GuestAccess(op, addr, len) \/ InspectAccess(op, addr, len)
      PROVE  UNCHANGED quanta
  BY <1>4 DEF GuestAccess, InspectAccess, accessed
<1>5. UNCHANGED guestVars => UNCHANGED quanta
  BY DEF guestVars
<1>6. EndQuantum
  BY <1>1, <1>2, <1>3, <1>4, <1>5 DEF Next
<1>7. stop' = IF trap # Nothing THEN trap ELSE latch
  BY <1>6 DEF EndQuantum
<1>8. /\ latch = (IF failed = <<>> THEN Nothing ELSE <<Head(failed)>>)
      /\ policy = "Log" => trap = Nothing
  BY DEF StopInv
<1>9. <<Head(failed)>> # Nothing
  BY ONLY TRUE DEF Nothing
<1> QED BY ONLY <1>7, <1>8, <1>9

\* A quantum in which an access of the guest failed reports a stop; unless unmapped
\* accesses trap, it is the first access that failed, and never one of a debugger.
THEOREM GuestStopsItself == Spec => StopIsGuests
<1>1. Init => StopInv
  BY DEF Init, StopInv
<1> QED BY <1>1, StepKeepsStop, StepStops, PTL DEF Spec, StopIsGuests
=============================================================================
