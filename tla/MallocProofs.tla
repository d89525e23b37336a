---------------------------- MODULE MallocProofs ----------------------------
(* Theorems about malloc, free, calloc and realloc, for every value of the   *)
(* constants of Malloc that keeps requests away from the end of an unsigned  *)
(* long.                                                                     *)
EXTENDS Malloc, TLAPS

(* A request more than a header and a page below 2^64, the only kind whose   *)
(* MapTotal does not wrap around.                                            *)
Fair(n) == n \in Nat /\ n + HDR_SZ + PAGE <= WORD

(* No request is within a header and a page of the end of unsigned long.     *)
NoWrap ==
  /\ \A n \in Sizes : Fair(n)
  /\ \A n \in Counts, sz \in Sizes : Fair((n * sz) % WORD)

(* free takes a mapped block for mapped: its header is not below the limit. *)
MapHeaders == \A s \in Live : slot[s].at \in MapSites => hdr[slot[s].at] >= MMAP_LIMIT

(* A damaged brk heap vouches for no header.                                *)
NoTags == ~intact => \A b \in BrkSites : hdr[b] = 0

(* The inductive invariant of ownership.                                     *)
MInv == TypeOK /\ Owned /\ RoomForRequest /\ MapHeaders /\ NoTags

-----------------------------------------------------------------------------
(* Sizes.                                                                   *)

(* ALIGN_UP rounds up by less than the unit when it does not wrap around.    *)
LEMMA AlignUpFacts ==
  ASSUME NEW n \in Nat, NEW a \in Nat, a > 0, n + a <= WORD
  PROVE  /\ AlignUp(n, a) \in Nat
         /\ AlignUp(n, a) >= n /\ AlignUp(n, a) < n + a
<1> DEFINE x == n + a - 1
           q == x \div a
<1>1. x \in Nat /\ x < WORD /\ WORD \in Nat
  BY MallocAssumption
<1>2. x % WORD = x
  BY <1>1
<1>3. q \in Nat /\ q * a <= x /\ x < q * a + a
  BY <1>1
<1>4. q * a \in Nat
  BY <1>3
<1>5. AlignUp(n, a) = q * a
  BY <1>2 DEF AlignUp
<1> QED BY <1>1, <1>3, <1>4, <1>5

(* What malloc takes for a request fits into an unsigned long, has room for  *)
(* it and, for a large one, is not below MMAP_LIMIT.                         *)
LEMMA TotalFacts ==
  ASSUME NEW n, Fair(n), n # 0
  PROVE  /\ n >= MMAP_LIMIT =>
              /\ MapTotal(n) \in 1 .. WORD
              /\ MapTotal(n) >= n + HDR_SZ /\ MapTotal(n) >= MMAP_LIMIT
         /\ n < MMAP_LIMIT =>
              \A t \in BrkTotals(n) : t \in 1 .. WORD /\ t >= n + OVERHEAD
<1>1. n \in Nat /\ n > 0 /\ n + 2 + PAGE <= WORD
  BY DEF Fair, HDR_SZ
<1>2. /\ PAGE \in Nat /\ PAGE > 0 /\ WORD \in Nat /\ MMAP_LIMIT \in Nat
      /\ WORD >= MMAP_LIMIT + PAGE + 16
  BY MallocAssumption DEF OVERHEAD
<1>3. (n + HDR_SZ) % WORD = n + 2 /\ n + 2 \in Nat
  BY <1>1, <1>2 DEF HDR_SZ
<1>4. /\ AlignUp(n + 2, PAGE) \in Nat
      /\ AlignUp(n + 2, PAGE) >= n + 2 /\ AlignUp(n + 2, PAGE) < n + 2 + PAGE
  BY <1>1, <1>2, <1>3, AlignUpFacts
<1>5. MapTotal(n) = AlignUp(n + 2, PAGE)
  BY <1>3 DEF MapTotal
<1>6. n >= MMAP_LIMIT =>
        /\ MapTotal(n) \in 1 .. WORD
        /\ MapTotal(n) >= n + HDR_SZ /\ MapTotal(n) >= MMAP_LIMIT
  BY <1>1, <1>2, <1>4, <1>5 DEF HDR_SZ
<1>7. ASSUME n < MMAP_LIMIT, NEW t \in BrkTotals(n)
      PROVE  t \in 1 .. WORD /\ t >= n + OVERHEAD
  <2> DEFINE need == OVERHEAD + AlignUp(n, ALIGN)
  <2>1. /\ AlignUp(n, 4) \in Nat
        /\ AlignUp(n, 4) >= n /\ AlignUp(n, 4) < n + 4
    BY <1>1, <1>2, <1>7, AlignUpFacts
  <2>2. need \in Nat /\ need >= n + 4 /\ need < n + 8
    BY <2>1, <1>1 DEF ALIGN, OVERHEAD
  <2> HIDE DEF need
  <2>3. /\ AlignUp(need, PAGE) \in Nat
        /\ AlignUp(need, PAGE) >= need /\ AlignUp(need, PAGE) < need + PAGE
    BY <1>1, <1>2, <1>7, <2>2, AlignUpFacts
  <2>4. t = need \/ t = need + ALIGN \/ t = AlignUp(need, PAGE)
    BY <1>7 DEF BrkTotals, GrownTotal, need
  <2> QED BY <1>1, <1>2, <1>7, <2>2, <2>3, <2>4 DEF ALIGN, OVERHEAD
<1> QED BY <1>6, <1>7

(* An answer of malloc that is a block: a mapping was free and is large      *)
(* enough, and so was a block of a brk heap whose tags are sound.            *)
LEMMA OutcomeFacts ==
  ASSUME NEW n, Fair(n), NEW o \in Outcomes(n), o.at \in Sites
  PROVE  /\ o.total \in 0 .. WORD /\ n # 0
         /\ Reliable(o.at, intact) => o.total # 0
         /\ o.at \in MapSites => /\ mapping[o.at] = 0
                                 /\ o.total >= n + HDR_SZ /\ o.total >= MMAP_LIMIT
         /\ o.at \in BrkSites /\ intact => hdr[o.at] = 0 /\ o.total >= n + OVERHEAD
<1>1. n # 0 /\ o.at # NoSite /\ o.at # Fault /\ BrkSites \cap MapSites = {}
  BY MallocAssumption DEF Outcomes, MapOutcomes, BrkOutcomes
<1>2. n \in Nat /\ MMAP_LIMIT \in Nat /\ WORD \in Nat
  BY MallocAssumption DEF Fair
<1>3. CASE n >= MMAP_LIMIT
  <2>1. o.at \in MapSites /\ mapping[o.at] = 0 /\ o.total = MapTotal(n)
    BY <1>1, <1>3 DEF Outcomes, MapOutcomes
  <2> QED BY <1>1, <1>2, <1>3, <2>1, TotalFacts
<1>4. CASE n < MMAP_LIMIT
  <2>1. o.at \in BrkSites
    BY <1>1, <1>2, <1>4 DEF Outcomes, BrkOutcomes
  <2>2. CASE intact
    <3>1. hdr[o.at] = 0 /\ o.total \in BrkTotals(n)
      BY <1>1, <1>2, <1>4, <2>2 DEF Outcomes, BrkOutcomes
    <3> QED BY <1>1, <1>2, <1>4, <2>1, <3>1, TotalFacts
  <2>3. CASE ~intact
    <3>1. o.total = 0
      BY <1>1, <1>2, <1>4, <2>3 DEF Outcomes, BrkOutcomes
    <3> QED BY <1>1, <1>2, <2>1, <2>3, <3>1 DEF Reliable
  <2> QED BY <2>2, <2>3
<1> QED BY <1>2, <1>3, <1>4

(* The site of such an answer is no other variable's.                        *)
LEMMA OutcomeIsNew ==
  ASSUME MInv, NEW n, Fair(n), NEW o \in Outcomes(n), o.at \in Sites,
         NEW t \in Live, Reliable(slot[t].at, intact)
  PROVE  slot[t].at # o.at
<1>1. /\ hdr[slot[t].at] # 0
      /\ slot[t].at \in MapSites => mapping[slot[t].at] = hdr[slot[t].at]
  BY DEF MInv, Owned
<1>2. SUFFICES ASSUME slot[t].at = o.at PROVE FALSE
  OBVIOUS
<1>3. /\ o.at \in MapSites => mapping[o.at] = 0
      /\ o.at \in BrkSites /\ intact => hdr[o.at] = 0
  BY OutcomeFacts
<1> QED BY <1>1, <1>2, <1>3 DEF Sites, Reliable

(* What a step that sets the headers may do besides: damage the tags of the  *)
(* brk heap, and then none of its headers is vouched for any more.           *)
LEMMA SetHeadersFacts ==
  ASSUME MInv, NEW h \in [Sites -> 0 .. WORD], NEW d, SetHeaders(h, d)
  PROVE  /\ hdr' \in [Sites -> 0 .. WORD] /\ intact' \in BOOLEAN
         /\ intact' => intact
         /\ \A a \in Sites : Reliable(a, intact') => hdr'[a] = h[a]
         /\ \A b \in BrkSites : hdr'[b] # 0 => intact'
         /\ NoTags'
<1>1. intact \in BOOLEAN /\ WORD \in Nat /\ BrkSites \cap MapSites = {}
  BY MallocAssumption DEF MInv, TypeOK
<1>2. intact' \in BOOLEAN /\ (intact' => intact)
  BY <1>1, Zenon DEF SetHeaders
<1>3. hdr' = [a \in Sites |-> IF a \in BrkSites /\ ~intact' THEN 0 ELSE h[a]]
  BY DEF SetHeaders
<1>4. hdr' \in [Sites -> 0 .. WORD]
  BY <1>1, <1>3
<1>5. \A a \in Sites : Reliable(a, intact') => hdr'[a] = h[a]
  BY <1>1, <1>3 DEF Reliable
<1>6. \A b \in BrkSites : hdr'[b] # 0 => intact'
  BY <1>3 DEF Sites
<1> QED BY <1>2, <1>4, <1>5, <1>6 DEF NoTags

-----------------------------------------------------------------------------
(* One lemma per way in which the blocks change.                            *)

(* malloc or calloc hands a new block to an empty variable.                  *)
LEMMA PlaceStep ==
  ASSUME MInv, NEW s \in Slots, s \notin Live, NEW n, Fair(n),
         NEW o \in Outcomes(n), o.at \in Sites,
         NEW l \in 0 .. n, NEW k \in 0 .. n, NEW d,
         SetHeaders(Placed(o), d), mapping' = Granted(o), Assign(s, o, l, k), alive' = alive
  PROVE  MInv'
<1>1. TypeOK /\ Owned /\ RoomForRequest /\ MapHeaders
  BY DEF MInv
<1> DEFINE v == [at |-> o.at, len |-> l, kept |-> k]
<1>2. o.at # NoSite /\ n \in Nat /\ n <= WORD /\ BrkSites \cap MapSites = {}
      /\ NoSite \notin Sites /\ WORD \in Nat
  BY MallocAssumption DEF Fair, HDR_SZ
<1>3. slot' = [slot EXCEPT ![s] = v]
  BY <1>2 DEF Assign
<1>4. /\ slot'[s] = v /\ s \in Live'
      /\ \A t \in Slots : t # s => slot'[t] = slot[t] /\ (t \in Live' <=> t \in Live)
  <2>1. slot'[s] = v /\ \A t \in Slots : t # s => slot'[t] = slot[t]
    BY <1>1, <1>3 DEF TypeOK
  <2> QED BY <2>1, <1>2 DEF Live
<1>5. /\ o.total \in 0 .. WORD
      /\ Reliable(o.at, intact) => o.total # 0
      /\ o.at \in MapSites => /\ mapping[o.at] = 0
                              /\ o.total >= n + HDR_SZ /\ o.total >= MMAP_LIMIT
      /\ o.at \in BrkSites /\ intact => hdr[o.at] = 0 /\ o.total >= n + OVERHEAD
  BY OutcomeFacts
<1>6. /\ Placed(o) \in [Sites -> 0 .. WORD] /\ Placed(o)[o.at] = o.total
      /\ \A a \in Sites : a # o.at => Placed(o)[a] = hdr[a]
  BY <1>1, <1>5 DEF Placed, TypeOK
<1>7. /\ mapping' \in [MapSites -> 0 .. WORD]
      /\ o.at \in MapSites => mapping'[o.at] = o.total
      /\ \A m \in MapSites : m # o.at => mapping'[m] = mapping[m]
  BY <1>1, <1>5 DEF Granted, TypeOK
<1>8. /\ hdr' \in [Sites -> 0 .. WORD] /\ intact' \in BOOLEAN
      /\ intact' => intact
      /\ \A a \in Sites : Reliable(a, intact') => hdr'[a] = Placed(o)[a]
      /\ \A b \in BrkSites : hdr'[b] # 0 => intact'
      /\ NoTags'
  BY <1>6, SetHeadersFacts
<1>9. \A t \in Live : /\ slot[t].at \in Sites
                      /\ Reliable(slot[t].at, intact) => slot[t].at # o.at
  BY <1>1, OutcomeIsNew DEF TypeOK, Live
<1>10. \A a : Reliable(a, intact') => Reliable(a, intact)
  BY <1>8 DEF Reliable
<1>11. TypeOK'
  <2>1. v \in [at : Sites \cup {NoSite}, len : 0 .. WORD, kept : 0 .. WORD]
    BY <1>2
  <2>2. slot' \in [Slots -> [at : Sites \cup {NoSite}, len : 0 .. WORD, kept : 0 .. WORD]]
    BY <2>1, <1>1, <1>3 DEF TypeOK
  <2> QED BY <2>2, <1>1, <1>7, <1>8 DEF TypeOK
<1> HIDE DEF v
<1>12. v.at = o.at /\ v.len = l
  BY DEF v
<1>13. \A t \in Live' : t # s =>
         /\ t \in Live /\ slot'[t] = slot[t] /\ slot[t].at \in Sites
         /\ Reliable(slot[t].at, intact') =>
              Reliable(slot[t].at, intact) /\ slot[t].at # o.at
              /\ hdr'[slot[t].at] = hdr[slot[t].at]
  <2> SUFFICES ASSUME NEW t \in Live', t # s
               PROVE  /\ t \in Live /\ slot'[t] = slot[t] /\ slot[t].at \in Sites
                      /\ Reliable(slot[t].at, intact') =>
                           Reliable(slot[t].at, intact) /\ slot[t].at # o.at
                           /\ hdr'[slot[t].at] = hdr[slot[t].at]
    OBVIOUS
  <2>1. t \in Live /\ slot'[t] = slot[t]
    BY <1>4 DEF Live
  <2> QED BY <2>1, <1>6, <1>8, <1>9, <1>10
<1>14. Owned'
  <2>1. \A t \in Live' : Reliable(slot'[t].at, intact') =>
            /\ hdr'[slot'[t].at] # 0
            /\ slot'[t].at \in MapSites => mapping'[slot'[t].at] = hdr'[slot'[t].at]
    <3> SUFFICES ASSUME NEW t \in Live', Reliable(slot'[t].at, intact')
                 PROVE  /\ hdr'[slot'[t].at] # 0
                        /\ slot'[t].at \in MapSites => mapping'[slot'[t].at] = hdr'[slot'[t].at]
      OBVIOUS
    <3>1. CASE t = s
      BY <3>1, <1>4, <1>5, <1>6, <1>7, <1>8, <1>10, <1>12
    <3>2. CASE t # s
      <4>1. /\ hdr[slot[t].at] # 0
            /\ slot[t].at \in MapSites => mapping[slot[t].at] = hdr[slot[t].at]
        BY <3>2, <1>1, <1>13 DEF Owned
      <4> QED BY <3>2, <4>1, <1>7, <1>13
    <3> QED BY <3>1, <3>2
  <2>2. \A t, u \in Live' : Reliable(slot'[t].at, intact') /\ slot'[u].at = slot'[t].at => u = t
    <3> SUFFICES ASSUME NEW t \in Live', NEW u \in Live', u # t, Reliable(slot'[t].at, intact')
                 PROVE  slot'[u].at # slot'[t].at
      OBVIOUS
    <3>1. t # s /\ u # s => slot[u].at # slot[t].at
      BY <1>1, <1>13 DEF Owned
    <3> QED BY <3>1, <1>4, <1>12, <1>13
  <2>3. ASSUME NEW b \in BrkSites, hdr'[b] # 0 PROVE \E t \in Live' : slot'[t].at = b
    <3>1. CASE b = o.at
      BY <3>1, <1>4, <1>12
    <3>2. CASE b # o.at
      <4>1. hdr[b] # 0
        BY <2>3, <3>2, <1>6, <1>8 DEF Sites, Reliable
      <4>2. PICK t \in Live : slot[t].at = b
        BY <4>1, <1>1 DEF Owned
      <4> QED BY <4>2, <1>4 DEF Live
    <3> QED BY <3>1, <3>2
  <2>4. ASSUME NEW m \in MapSites, mapping'[m] # 0 PROVE \E t \in Live' : slot'[t].at = m
    <3>1. CASE m = o.at
      BY <3>1, <1>4, <1>12
    <3>2. CASE m # o.at
      <4>1. PICK t \in Live : slot[t].at = m
        BY <2>4, <3>2, <1>1, <1>7 DEF Owned
      <4> QED BY <4>1, <1>4 DEF Live
    <3> QED BY <3>1, <3>2
  <2> QED BY <2>1, <2>2, <2>3, <2>4 DEF Owned
<1>15. RoomForRequest' /\ MapHeaders'
  <2>1. ASSUME NEW t \in Live', Reliable(slot'[t].at, intact')
        PROVE  /\ slot'[t].len <= Room(hdr', slot'[t].at)
               /\ slot'[t].at \in MapSites => hdr'[slot'[t].at] >= MMAP_LIMIT
    <3>1. CASE t = s
      <4>1. slot'[t].at = o.at /\ slot'[t].len = l /\ hdr'[o.at] = o.total /\ l <= n
        BY <2>1, <3>1, <1>2, <1>4, <1>6, <1>8, <1>12
      <4>2. o.at \in MapSites \/ intact
        BY <2>1, <4>1, <1>8 DEF Reliable
      <4> QED BY <4>1, <4>2, <1>2, <1>5 DEF Room, Sites, HDR_SZ, OVERHEAD
    <3>2. CASE t # s
      BY <2>1, <3>2, <1>1, <1>13 DEF RoomForRequest, MapHeaders, Room
    <3> QED BY <3>1, <3>2
  <2> QED BY <2>1 DEF RoomForRequest, MapHeaders, Reliable
<1> QED BY <1>8, <1>11, <1>14, <1>15 DEF MInv

(* free finds the tier a block came from, whatever else has been allocated   *)
(* in between and whatever the tags of the brk heap say: it empties the site *)
(* and unmaps a mapping as a whole.                                          *)
LEMMA ReleaseFacts ==
  ASSUME MInv, NEW s \in Live, NEW at, at = slot[s].at, NEW v \in HeaderSizes(s),
         NEW h \in [Sites -> 0 .. WORD], NEW m \in [MapSites -> 0 .. WORD],
         at \in MapSites => m[at] = hdr[at]
  PROVE  /\ at \in Sites
         /\ Released(h, at, v) \in [Sites -> 0 .. WORD] /\ Released(h, at, v)[at] = 0
         /\ \A a \in Sites : a # at => Released(h, at, v)[a] = h[a]
         /\ Unmapped(m, at, v) \in [MapSites -> 0 .. WORD]
         /\ at \in MapSites => Unmapped(m, at, v)[at] = 0
         /\ \A a \in MapSites : a # at => Unmapped(m, at, v)[a] = m[a]
<1>1. /\ at \in Sites /\ BrkSites \cap MapSites = {} /\ WORD \in Nat
      /\ hdr \in [Sites -> 0 .. WORD]
  BY MallocAssumption DEF MInv, TypeOK, Live
<1>2. at \in MapSites => v = hdr[at] /\ IsMapped(at, v)
  BY <1>1 DEF MInv, MapHeaders, IsMapped, HeaderSizes
<1>3. at \notin MapSites => ~IsMapped(at, v)
  BY <1>1 DEF IsMapped, Sites
<1>4. Released(h, at, v) = [h EXCEPT ![at] = 0]
  BY <1>3 DEF Released
<1>5. at \in MapSites => Unmapped(m, at, v) = [m EXCEPT ![at] = m[at] - hdr[at]]
  BY <1>2 DEF Unmapped
<1>6. at \notin MapSites => Unmapped(m, at, v) = m
  BY <1>3 DEF Unmapped
<1>7. at \in MapSites => m[at] - hdr[at] = 0 /\ 0 \in 0 .. WORD
  BY <1>1
<1>8. /\ Released(h, at, v) \in [Sites -> 0 .. WORD] /\ Released(h, at, v)[at] = 0
      /\ \A a \in Sites : a # at => Released(h, at, v)[a] = h[a]
  BY <1>1, <1>4
<1>9. CASE at \in MapSites
  BY <1>1, <1>5, <1>7, <1>8, <1>9
<1>10. CASE at \notin MapSites
  BY <1>1, <1>6, <1>8, <1>10
<1> QED BY <1>9, <1>10

(* free gives the block back and forgets the pointer.                        *)
LEMMA FreeStep ==
  ASSUME MInv, NEW s \in Slots, Free(s)
  PROVE  MInv'
<1>0. PICK a : a = slot[s].at
  OBVIOUS
<1>1. /\ a = slot[s].at
      /\ \E v \in HeaderSizes(s) :
           /\ SetHeaders(Released(hdr, a, v), Returns(a))
           /\ mapping' = Unmapped(mapping, a, v)
  BY <1>0 DEF Free
<1>1a. PICK v \in HeaderSizes(s) :
        SetHeaders(Released(hdr, a, v), Returns(a)) /\ mapping' = Unmapped(mapping, a, v)
  BY <1>1
<1>2. slot' = [slot EXCEPT ![s] = NULL] /\ alive' = alive
  BY DEF Free
<1>3. TypeOK /\ Owned /\ RoomForRequest /\ MapHeaders /\ s \in Live
  BY <1>1a DEF MInv, HeaderSizes
<1>4. /\ hdr \in [Sites -> 0 .. WORD] /\ mapping \in [MapSites -> 0 .. WORD]
      /\ a \in MapSites => mapping[a] = hdr[a]
  BY <1>1, <1>3 DEF TypeOK, Owned, Reliable
<1>5. /\ a \in Sites
      /\ Released(hdr, a, v) \in [Sites -> 0 .. WORD] /\ Released(hdr, a, v)[a] = 0
      /\ \A x \in Sites : x # a => Released(hdr, a, v)[x] = hdr[x]
      /\ mapping' \in [MapSites -> 0 .. WORD]
      /\ a \in MapSites => mapping'[a] = 0
      /\ \A x \in MapSites : x # a => mapping'[x] = mapping[x]
  BY <1>1, <1>1a, <1>3, <1>4, ReleaseFacts
<1>6. PICK h \in [Sites -> 0 .. WORD] :
        /\ h = Released(hdr, a, v)
        /\ h[a] = 0 /\ \A x \in Sites : x # a => h[x] = hdr[x]
  BY <1>5
<1>7. /\ hdr' \in [Sites -> 0 .. WORD] /\ intact' \in BOOLEAN
      /\ intact' => intact
      /\ \A x \in Sites : Reliable(x, intact') => hdr'[x] = h[x]
      /\ \A b \in BrkSites : hdr'[b] # 0 => intact'
      /\ NoTags'
  BY <1>1a, <1>6, SetHeadersFacts
<1>8. /\ slot'[s] = NULL
      /\ \A t \in Slots : t # s => slot'[t] = slot[t]
  BY <1>2, <1>3 DEF TypeOK
<1>9. \A t \in Live' : t \in Live /\ t # s /\ slot'[t] = slot[t] /\ slot[t].at \in Sites
  BY <1>3, <1>8 DEF Live, NULL, TypeOK
<1>10. \A t \in Live : t # s => t \in Live'
  BY <1>8 DEF Live
<1>11. \A t \in Live' : Reliable(slot[t].at, intact') =>
         /\ Reliable(slot[t].at, intact) /\ slot[t].at # a
         /\ hdr'[slot[t].at] = hdr[slot[t].at]
  <2> SUFFICES ASSUME NEW t \in Live', Reliable(slot[t].at, intact')
               PROVE  /\ Reliable(slot[t].at, intact) /\ slot[t].at # a
                      /\ hdr'[slot[t].at] = hdr[slot[t].at]
    OBVIOUS
  <2>1. Reliable(slot[t].at, intact)
    BY <1>7 DEF Reliable
  <2>2. slot[t].at # a
    BY <2>1, <1>1, <1>3, <1>9 DEF Owned
  <2> QED BY <2>1, <2>2, <1>6, <1>7, <1>9
<1>12. TypeOK'
  <2>1. NULL \in [at : Sites \cup {NoSite}, len : 0 .. WORD, kept : 0 .. WORD]
    BY MallocAssumption DEF NULL
  <2> QED BY <2>1, <1>2, <1>3, <1>5, <1>7 DEF TypeOK
<1>13. Owned'
  <2>1. \A t \in Live' : Reliable(slot'[t].at, intact') =>
            /\ hdr'[slot'[t].at] # 0
            /\ slot'[t].at \in MapSites => mapping'[slot'[t].at] = hdr'[slot'[t].at]
    BY <1>3, <1>5, <1>9, <1>11 DEF Owned
  <2>2. \A t, u \in Live' : Reliable(slot'[t].at, intact') /\ slot'[u].at = slot'[t].at => u = t
    BY <1>3, <1>9, <1>11 DEF Owned
  <2>3. ASSUME NEW b \in BrkSites, hdr'[b] # 0 PROVE \E t \in Live' : slot'[t].at = b
    <3>1. hdr'[b] = h[b]
      BY <2>3, <1>7 DEF Sites, Reliable
    <3>2. b # a /\ hdr[b] # 0
      BY <2>3, <3>1, <1>6 DEF Sites
    <3>3. PICK t \in Live : slot[t].at = b
      BY <3>2, <1>3 DEF Owned
    <3> QED BY <3>2, <3>3, <1>1, <1>8, <1>10 DEF Live
  <2>4. ASSUME NEW m \in MapSites, mapping'[m] # 0 PROVE \E t \in Live' : slot'[t].at = m
    <3>1. m # a /\ mapping[m] # 0
      BY <2>4, <1>5
    <3>2. PICK t \in Live : slot[t].at = m
      BY <3>1, <1>3 DEF Owned
    <3> QED BY <3>1, <3>2, <1>1, <1>8, <1>10 DEF Live
  <2> QED BY <2>1, <2>2, <2>3, <2>4 DEF Owned
<1>14. RoomForRequest' /\ MapHeaders'
  <2>1. RoomForRequest'
    BY <1>3, <1>9, <1>11 DEF RoomForRequest, Room
  <2>2. MapHeaders'
    BY <1>3, <1>9, <1>11 DEF MapHeaders, Reliable
  <2> QED BY <2>1, <2>2
<1> QED BY <1>7, <1>12, <1>13, <1>14 DEF MInv

(* A step that moves no block and keeps the sizes the clients count on       *)
(* within their blocks.                                                      *)
LEMMA StayStep ==
  ASSUME MInv, NEW s \in Live, NEW n \in 0 .. WORD, NEW k \in 0 .. WORD,
         Reliable(slot[s].at, intact) => n <= Room(hdr, slot[s].at),
         slot' = [slot EXCEPT ![s] = [at |-> slot[s].at, len |-> n, kept |-> k]],
         UNCHANGED <<hdr, mapping, alive, intact>>
  PROVE  MInv'
<1>1. TypeOK /\ Owned /\ RoomForRequest /\ MapHeaders /\ NoTags /\ s \in Slots
  BY DEF MInv, Live
<1>2. /\ \A t \in Slots : slot'[t].at = slot[t].at
      /\ slot'[s].len = n
      /\ \A t \in Slots : t # s => slot'[t] = slot[t]
  BY <1>1 DEF TypeOK
<1>3. Live' = Live
  BY <1>2 DEF Live
<1>4. TypeOK'
  <2>1. [at |-> slot[s].at, len |-> n, kept |-> k]
          \in [at : Sites \cup {NoSite}, len : 0 .. WORD, kept : 0 .. WORD]
    BY <1>1 DEF TypeOK
  <2>2. slot' \in [Slots -> [at : Sites \cup {NoSite}, len : 0 .. WORD, kept : 0 .. WORD]]
    BY <2>1, <1>1 DEF TypeOK
  <2>3. intact' \in BOOLEAN
    BY <1>1, Zenon DEF TypeOK
  <2> QED BY <2>2, <2>3, <1>1 DEF TypeOK
<1>5. \A t \in Live : t \in Slots
  BY DEF Live
<1>6. Owned'
  BY <1>1, <1>2, <1>3, <1>5 DEF Owned
<1>7. MapHeaders' /\ NoTags'
  BY <1>1, <1>2, <1>3, <1>5 DEF MapHeaders, NoTags
<1>8. RoomForRequest'
  BY <1>1, <1>2, <1>3, <1>5 DEF RoomForRequest
<1> QED BY <1>4, <1>6, <1>7, <1>8 DEF MInv

(* realloc puts a variable on a new block and releases the old one: while    *)
(* both exist nothing else changes hands.                                    *)
LEMMA MoveStep ==
  ASSUME MInv, NEW s \in Live, NEW v \in HeaderSizes(s),
         NEW n, Fair(n), NEW o \in Outcomes(n), o.at \in Sites,
         NEW k \in 0 .. n, NEW d,
         SetHeaders(Released(Placed(o), slot[s].at, v), d),
         mapping' = Unmapped(Granted(o), slot[s].at, v),
         Assign(s, o, n, k), alive' = alive
  PROVE  MInv'
<1> DEFINE w == [at |-> o.at, len |-> n, kept |-> k]
<1>1. TypeOK /\ Owned /\ RoomForRequest /\ MapHeaders /\ s \in Slots
  BY DEF MInv, Live
<1>2. o.at # NoSite /\ n \in Nat /\ n <= WORD /\ BrkSites \cap MapSites = {}
      /\ NoSite \notin Sites /\ WORD \in Nat
  BY MallocAssumption DEF Fair, HDR_SZ
<1>3. slot' = [slot EXCEPT ![s] = w]
  BY <1>2 DEF Assign
<1>4. /\ slot'[s] = w /\ s \in Live'
      /\ \A t \in Slots : t # s => slot'[t] = slot[t] /\ (t \in Live' <=> t \in Live)
  <2>1. slot'[s] = w /\ \A t \in Slots : t # s => slot'[t] = slot[t]
    BY <1>1, <1>3 DEF TypeOK
  <2> QED BY <2>1, <1>1, <1>2 DEF Live
<1>5. /\ o.total \in 0 .. WORD
      /\ Reliable(o.at, intact) => o.total # 0
      /\ o.at \in MapSites => /\ mapping[o.at] = 0
                              /\ o.total >= n + HDR_SZ /\ o.total >= MMAP_LIMIT
      /\ o.at \in BrkSites /\ intact => hdr[o.at] = 0 /\ o.total >= n + OVERHEAD
  BY OutcomeFacts
<1>6. \A t \in Live : /\ slot[t].at \in Sites
                      /\ Reliable(slot[t].at, intact) => slot[t].at # o.at
  BY <1>1, OutcomeIsNew DEF TypeOK, Live
<1>7. PICK a \in Sites : a = slot[s].at /\ (Reliable(a, intact) => a # o.at)
  BY <1>6
<1>8. /\ Placed(o) \in [Sites -> 0 .. WORD] /\ Placed(o)[o.at] = o.total
      /\ \A x \in Sites : x # o.at => Placed(o)[x] = hdr[x]
      /\ Granted(o) \in [MapSites -> 0 .. WORD]
      /\ o.at \in MapSites => Granted(o)[o.at] = o.total
      /\ \A x \in MapSites : x # o.at => Granted(o)[x] = mapping[x]
      /\ a \in MapSites => Granted(o)[a] = hdr[a]
  <2>1. a \in MapSites => mapping[a] = hdr[a] /\ a # o.at
    BY <1>1, <1>7 DEF Owned, Reliable
  <2> QED BY <2>1, <1>1, <1>5, <1>7 DEF Placed, Granted, TypeOK
<1>9. PICK p \in [Sites -> 0 .. WORD], g \in [MapSites -> 0 .. WORD] :
        p = Placed(o) /\ g = Granted(o)
  BY <1>8
<1>10. /\ Released(p, a, v) \in [Sites -> 0 .. WORD] /\ Released(p, a, v)[a] = 0
       /\ \A x \in Sites : x # a => Released(p, a, v)[x] = p[x]
       /\ mapping' \in [MapSites -> 0 .. WORD]
       /\ a \in MapSites => mapping'[a] = 0
       /\ \A x \in MapSites : x # a => mapping'[x] = g[x]
  BY <1>7, <1>8, <1>9, ReleaseFacts
<1>11. PICK h \in [Sites -> 0 .. WORD] :
         /\ h = Released(p, a, v)
         /\ h[a] = 0 /\ \A x \in Sites : x # a => h[x] = p[x]
  BY <1>10
<1>12. /\ hdr' \in [Sites -> 0 .. WORD] /\ intact' \in BOOLEAN
       /\ intact' => intact
       /\ \A x \in Sites : Reliable(x, intact') => hdr'[x] = h[x]
       /\ \A b \in BrkSites : hdr'[b] # 0 => intact'
       /\ NoTags'
  BY <1>7, <1>9, <1>11, SetHeadersFacts
<1>13. /\ Reliable(o.at, intact') => o.at # a /\ hdr'[o.at] = o.total /\ Reliable(o.at, intact)
       /\ \A x \in Sites : x # a /\ x # o.at /\ Reliable(x, intact') => hdr'[x] = hdr[x]
       /\ o.at \in MapSites => mapping'[o.at] = o.total
       /\ \A x \in MapSites : x # a /\ x # o.at => mapping'[x] = mapping[x]
  <2>1. \A x : Reliable(x, intact') => Reliable(x, intact)
    BY <1>12 DEF Reliable
  <2>2. o.at \in MapSites => Reliable(o.at, intact)
    BY DEF Reliable
  <2>3. Reliable(o.at, intact') => o.at # a /\ hdr'[o.at] = o.total /\ Reliable(o.at, intact)
    BY <2>1, <1>7, <1>8, <1>9, <1>11, <1>12
  <2>4. \A x \in Sites : x # a /\ x # o.at /\ Reliable(x, intact') => hdr'[x] = hdr[x]
    BY <1>8, <1>9, <1>11, <1>12
  <2>5. o.at \in MapSites => mapping'[o.at] = o.total
    BY <2>2, <1>7, <1>8, <1>9, <1>10
  <2> QED BY <2>3, <2>4, <2>5, <1>8, <1>9, <1>10
<1>14. \A t \in Live' : t # s =>
         /\ t \in Live /\ slot'[t] = slot[t] /\ slot[t].at \in Sites
         /\ Reliable(slot[t].at, intact') =>
              Reliable(slot[t].at, intact) /\ slot[t].at # a /\ slot[t].at # o.at
  <2> SUFFICES ASSUME NEW t \in Live', t # s
               PROVE  /\ t \in Live /\ slot'[t] = slot[t] /\ slot[t].at \in Sites
                      /\ Reliable(slot[t].at, intact') =>
                           Reliable(slot[t].at, intact) /\ slot[t].at # a /\ slot[t].at # o.at
    OBVIOUS
  <2>1. t \in Live /\ slot'[t] = slot[t]
    BY <1>4 DEF Live
  <2>2. Reliable(slot[t].at, intact') => Reliable(slot[t].at, intact)
    BY <1>12 DEF Reliable
  <2>3. Reliable(slot[t].at, intact) => slot[t].at # a
    BY <2>1, <1>1, <1>7 DEF Owned
  <2> QED BY <2>1, <2>2, <2>3, <1>6
<1>15. TypeOK'
  <2>1. w \in [at : Sites \cup {NoSite}, len : 0 .. WORD, kept : 0 .. WORD]
    BY <1>2
  <2>2. slot' \in [Slots -> [at : Sites \cup {NoSite}, len : 0 .. WORD, kept : 0 .. WORD]]
    BY <2>1, <1>1, <1>3 DEF TypeOK
  <2> QED BY <2>2, <1>1, <1>10, <1>12 DEF TypeOK
<1> HIDE DEF w
<1>16. w.at = o.at /\ w.len = n
  BY DEF w
<1>17. Owned'
  <2>1. \A t \in Live' : Reliable(slot'[t].at, intact') =>
            /\ hdr'[slot'[t].at] # 0
            /\ slot'[t].at \in MapSites => mapping'[slot'[t].at] = hdr'[slot'[t].at]
    <3> SUFFICES ASSUME NEW t \in Live', Reliable(slot'[t].at, intact')
                 PROVE  /\ hdr'[slot'[t].at] # 0
                        /\ slot'[t].at \in MapSites => mapping'[slot'[t].at] = hdr'[slot'[t].at]
      OBVIOUS
    <3>1. CASE t = s
      BY <3>1, <1>4, <1>5, <1>13, <1>16
    <3>2. CASE t # s
      BY <3>2, <1>1, <1>13, <1>14 DEF Owned
    <3> QED BY <3>1, <3>2
  <2>2. \A t, u \in Live' : Reliable(slot'[t].at, intact') /\ slot'[u].at = slot'[t].at => u = t
    <3> SUFFICES ASSUME NEW t \in Live', NEW u \in Live', u # t, Reliable(slot'[t].at, intact')
                 PROVE  slot'[u].at # slot'[t].at
      OBVIOUS
    <3>1. t # s /\ u # s => slot[u].at # slot[t].at
      BY <1>1, <1>14 DEF Owned
    <3> QED BY <3>1, <1>4, <1>14, <1>16
  <2>3. ASSUME NEW b \in BrkSites, hdr'[b] # 0 PROVE \E t \in Live' : slot'[t].at = b
    <3>1. CASE b = o.at
      BY <3>1, <1>4, <1>16
    <3>2. CASE b # o.at
      <4>1. hdr'[b] = h[b] /\ hdr'[b] # 0
        BY <2>3, <1>12 DEF Sites, Reliable
      <4>2. b # a /\ hdr[b] # 0
        BY <4>1, <3>2, <1>8, <1>9, <1>11 DEF Sites
      <4>3. PICK t \in Live : slot[t].at = b
        BY <4>2, <1>1 DEF Owned
      <4> QED BY <4>2, <4>3, <1>4, <1>7 DEF Live
    <3> QED BY <3>1, <3>2
  <2>4. ASSUME NEW m \in MapSites, mapping'[m] # 0 PROVE \E t \in Live' : slot'[t].at = m
    <3>1. CASE m = o.at
      BY <3>1, <1>4, <1>16
    <3>2. CASE m # o.at
      <4>1. m # a /\ mapping[m] # 0
        BY <2>4, <3>2, <1>10, <1>13
      <4>2. PICK t \in Live : slot[t].at = m
        BY <4>1, <1>1 DEF Owned
      <4> QED BY <4>1, <4>2, <1>4, <1>7 DEF Live
    <3> QED BY <3>1, <3>2
  <2> QED BY <2>1, <2>2, <2>3, <2>4 DEF Owned
<1>18. RoomForRequest' /\ MapHeaders'
  <2>1. ASSUME NEW t \in Live', Reliable(slot'[t].at, intact')
        PROVE  /\ slot'[t].len <= Room(hdr', slot'[t].at)
               /\ slot'[t].at \in MapSites => hdr'[slot'[t].at] >= MMAP_LIMIT
    <3>1. CASE t = s
      <4>1. slot'[t].at = o.at /\ slot'[t].len = n /\ hdr'[o.at] = o.total
        BY <2>1, <3>1, <1>4, <1>13, <1>16
      <4>2. o.at \in MapSites \/ intact
        BY <2>1, <4>1, <1>12 DEF Reliable
      <4> QED BY <4>1, <4>2, <1>2, <1>5 DEF Room, Sites, HDR_SZ, OVERHEAD
    <3>2. CASE t # s
      BY <2>1, <3>2, <1>1, <1>13, <1>14 DEF RoomForRequest, MapHeaders, Room
    <3> QED BY <3>1, <3>2
  <2> QED BY <2>1 DEF RoomForRequest, MapHeaders, Reliable
<1> QED BY <1>12, <1>15, <1>17, <1>18 DEF MInv

(* The overflow check of calloc is exact: what passes it has not wrapped.    *)
LEMMA CallocProduct ==
  ASSUME NEW n \in Nat, NEW sz \in Nat, ~Overflows(n, sz)
  PROVE  (n * sz) % WORD = n * sz
<1> DEFINE p == n * sz
           t == p % WORD
<1>1. p \in Nat /\ WORD \in Nat /\ WORD > 0
  BY MallocAssumption DEF OVERHEAD
<1>2. t \in Nat /\ t <= p
  BY <1>1
<1>3. CASE n = 0
  <2>1. p = 0
    BY <1>3
  <2> QED BY <2>1, <1>1
<1>4. CASE n # 0
  <2>1. t \div n = sz
    BY <1>4 DEF Overflows
  <2>2. n * (t \div n) <= t
    BY <1>2, <1>4
  <2>3. p <= t
    BY <2>1, <2>2
  <2> QED BY <2>3, <1>1, <1>2
<1> QED BY <1>3, <1>4

(* Steps that change nothing the invariant reads: NULL, and the death of the *)
(* process, which is never followed by another step.                         *)
LEMMA SameStep ==
  ASSUME MInv, UNCHANGED <<hdr, mapping, slot, intact>>, alive' \in BOOLEAN
  PROVE  MInv'
<1>1. Live' = Live
  BY DEF Live
<1>2. TypeOK'
  <2>1. intact' \in BOOLEAN
    BY Zenon DEF MInv, TypeOK
  <2> QED BY <2>1 DEF MInv, TypeOK
<1>3. Owned' /\ RoomForRequest' /\ MapHeaders' /\ NoTags'
  BY <1>1 DEF MInv, Owned, RoomForRequest, MapHeaders, NoTags
<1> QED BY <1>2, <1>3 DEF MInv

(* A malloc that answers NULL to an empty variable changes nothing.          *)
LEMMA NullStep ==
  ASSUME MInv, NEW s \in Slots, s \notin Live, NEW o, o.at = NoSite, NEW n, NEW k,
         Assign(s, o, n, k), SetHeaders(Placed(o), FALSE), mapping' = Granted(o), alive' = alive
  PROVE  MInv'
<1>1. slot[s].at = NoSite /\ TypeOK /\ NoTags
  BY DEF Live, MInv
<1>2. Placed(o) = hdr /\ mapping' = mapping /\ hdr \in [Sites -> 0 .. WORD]
  BY <1>1, MallocAssumption DEF Placed, Granted, Sites, TypeOK
<1>3. intact' = intact /\ intact' \in BOOLEAN
  BY <1>1, Zenon DEF SetHeaders, TypeOK
<1>4. hdr' = hdr
  <2>1. hdr' = [a \in Sites |-> IF a \in BrkSites /\ ~intact THEN 0 ELSE hdr[a]]
    BY <1>2, <1>3 DEF SetHeaders
  <2> QED BY <2>1, <1>1, <1>2 DEF NoTags
<1>5. slot' = [slot EXCEPT ![s] = NULL]
  BY DEF Assign
<1>6. TypeOK' /\ Live' = Live /\ \A t \in Live : slot'[t] = slot[t]
  <2>1. NULL \in [at : Sites \cup {NoSite}, len : 0 .. WORD, kept : 0 .. WORD]
    BY MallocAssumption DEF NULL
  <2>2. TypeOK'
    BY <2>1, <1>1, <1>2, <1>3, <1>4, <1>5 DEF TypeOK
  <2>3. /\ slot'[s].at = NoSite
        /\ \A t \in Slots : t # s => slot'[t] = slot[t]
    BY <1>1, <1>5 DEF TypeOK, NULL
  <2> QED BY <2>2, <2>3, <1>1 DEF Live
<1> QED BY <1>2, <1>3, <1>4, <1>6 DEF MInv, Owned, RoomForRequest, MapHeaders, NoTags

(* Malloc and Calloc: every answer.                                          *)
LEMMA AnswerStep ==
  ASSUME MInv, NEW s \in Slots, s \notin Live, NEW n, Fair(n), NEW o \in Outcomes(n),
         NEW l \in 0 .. n, NEW k \in 0 .. n, Answer(s, n, o, l, k)
  PROVE  MInv'
<1>1. CASE o.at = Fault /\ Die
  BY <1>1, SameStep DEF Die
<1>2. CASE /\ o.at # Fault
           /\ Assign(s, o, l, k)
           /\ SetHeaders(Placed(o), Grows(n, o)) /\ mapping' = Granted(o) /\ UNCHANGED alive
  <2>1. o.at \in Sites \/ o.at = NoSite
    BY <1>2 DEF Outcomes, MapOutcomes, BrkOutcomes, Sites
  <2>2. CASE o.at \in Sites
    BY <1>2, <2>2, PlaceStep
  <2>3. CASE o.at = NoSite
    <3>1. Grows(n, o) = FALSE
      BY <2>3, MallocAssumption DEF Grows, Sites
    <3> QED BY <1>2, <2>3, <3>1, NullStep
  <2> QED BY <2>1, <2>2, <2>3
<1> QED BY <1>1, <1>2 DEF Answer

(* What realloc reads as a size, and what it makes of it.                    *)
LEMMA ReadFacts ==
  ASSUME MInv, NEW s, NEW v \in HeaderSizes(s)
  PROVE  /\ s \in Live /\ s \in Slots /\ slot[s].at \in Sites
         /\ v \in 0 .. WORD /\ OldSize(v) \in Nat
         /\ Reliable(slot[s].at, intact) => v = hdr[slot[s].at]
         /\ OldSize(v) < MMAP_LIMIT => OldSize(v) = v - OVERHEAD
<1>1. s \in Live /\ s \in Slots /\ slot[s].at \in Sites
  BY DEF HeaderSizes, MInv, TypeOK, Live
<1>2. /\ WORD \in Nat /\ MMAP_LIMIT \in Nat /\ WORD >= MMAP_LIMIT + 4 /\ WORD >= 4
      /\ BrkSites \cap MapSites = {} /\ AnySizes \subseteq 0 .. WORD - 1
  BY MallocAssumption DEF OVERHEAD
<1>3. Reliable(slot[s].at, intact) => v = hdr[slot[s].at]
  BY <1>1, <1>2 DEF HeaderSizes, Reliable
<1>4. v \in AnySizes \/ v = hdr[slot[s].at]
  BY <1>1 DEF HeaderSizes
<1>5. hdr[slot[s].at] \in 0 .. WORD
  BY <1>1 DEF MInv, TypeOK
<1>6. v \in 0 .. WORD
  <2>1. \A x \in AnySizes : x \in 0 .. WORD
    BY <1>2
  <2> QED BY <2>1, <1>4, <1>5
<1>7. OldSize(v) \in Nat /\ (OldSize(v) < MMAP_LIMIT => OldSize(v) = v - OVERHEAD)
  BY <1>2, <1>6 DEF OldSize, OVERHEAD
<1> QED BY <1>1, <1>3, <1>6, <1>7

(* realloc to a new block copies no more than the client asked for, whatever *)
(* it takes the old size for.                                                *)
LEMMA CopiedFits ==
  ASSUME MInv, NEW s, NEW v \in HeaderSizes(s), NEW n \in Nat, ~InPlace(v, n)
  PROVE  /\ Copied(v, n) \in Nat /\ Copied(v, n) <= n
         /\ Copied(v, n) = OldSize(v) \/ Copied(v, n) = n
<1>1. OldSize(v) \in Nat /\ MMAP_LIMIT \in Nat
  BY ReadFacts, MallocAssumption
<1> QED BY <1>1 DEF Copied, InPlace, Least

(* Every step of the four functions, and of the client, keeps the invariant. *)
LEMMA NextMInv == ASSUME NoWrap, MInv, [Next]_vars PROVE MInv'
<1>1. /\ Sizes \subseteq Nat /\ Counts \subseteq Nat /\ WORD \in Nat /\ WORD > 0
      /\ MMAP_LIMIT \in Nat /\ alive \in BOOLEAN
  BY MallocAssumption DEF OVERHEAD, MInv, TypeOK
<1>2. CASE UNCHANGED vars
  <2>1. alive' \in BOOLEAN
    BY <1>1, <1>2, Zenon DEF vars
  <2> QED BY <2>1, <1>2, SameStep DEF vars
<1>3. ASSUME NEW s \in Slots, Free(s) PROVE MInv'
  BY <1>3, FreeStep
<1>4. ASSUME NEW s \in Slots, Fill(s) PROVE MInv'
  <2> DEFINE n == slot[s].len
  <2>1. s \in Live /\ n \in 0 .. WORD
        /\ (Reliable(slot[s].at, intact) => n <= Room(hdr, slot[s].at))
        /\ UNCHANGED <<hdr, mapping, alive, intact>>
    BY <1>4 DEF Fill, MInv, TypeOK, RoomForRequest
  <2>2. slot' = [slot EXCEPT ![s] = [at |-> slot[s].at, len |-> n, kept |-> n]]
    <3>1. slot[s] \in [at : Sites \cup {NoSite}, len : 0 .. WORD, kept : 0 .. WORD]
      BY DEF MInv, TypeOK
    <3>2. [slot[s] EXCEPT !.kept = n] = [at |-> slot[s].at, len |-> n, kept |-> n]
      BY <3>1
    <3>3. slot' = [slot EXCEPT ![s] = [slot[s] EXCEPT !.kept = n]]
      BY <1>4 DEF Fill
    <3> QED BY <3>2, <3>3
  <2> QED BY <2>1, <2>2, StayStep
<1>5. ASSUME NEW s \in Slots, NEW n \in Sizes, Malloc(s, n) PROVE MInv'
  <2>1. PICK o \in Outcomes(n) : Answer(s, n, o, n, 0)
    BY <1>5 DEF Malloc
  <2>2. s \notin Live /\ Fair(n) /\ 0 \in 0 .. n /\ n \in 0 .. n
    BY <1>1, <1>5 DEF Malloc, NoWrap
  <2> QED BY <2>1, <2>2, AnswerStep
<1>6. ASSUME NEW s \in Slots, NEW n \in Sizes, NEW v \in HeaderSizes(s), ReallocInPlace(s, n, v)
      PROVE  MInv'
  <2> DEFINE k == Least(slot[s].kept, n)
  <2>1. UNCHANGED <<hdr, mapping, alive, intact>> /\ InPlace(v, n)
    BY <1>6 DEF ReallocInPlace
  <2>2. /\ s \in Live /\ v \in 0 .. WORD
        /\ Reliable(slot[s].at, intact) => v = hdr[slot[s].at]
        /\ OldSize(v) < MMAP_LIMIT => OldSize(v) = v - OVERHEAD
    BY ReadFacts
  <2>3. slot' = [slot EXCEPT ![s] = [at |-> slot[s].at, len |-> n, kept |-> k]]
    <3>1. slot[s].at # NoSite
      BY <2>2 DEF Live
    <3> QED BY <3>1, <1>6 DEF ReallocInPlace, Assign
  <2>4. slot[s].kept \in 0 .. WORD
    BY DEF MInv, TypeOK
  <2>5. n \in 0 .. WORD /\ k \in 0 .. WORD
    BY <1>1, <2>4, MallocAssumption DEF NoWrap, Fair, HDR_SZ, Least
  <2>6. Reliable(slot[s].at, intact) => n <= Room(hdr, slot[s].at)
    BY <1>1, <2>1, <2>2 DEF InPlace, Room, OVERHEAD, HDR_SZ
  <2> HIDE DEF k
  <2> QED BY <2>1, <2>2, <2>3, <2>5, <2>6, StayStep
<1>7. ASSUME NEW s \in Slots, NEW n \in Sizes, NEW v \in HeaderSizes(s), ReallocNull(s, n, v)
      PROVE  MInv'
  BY <1>2, <1>7 DEF ReallocNull
<1>8. ASSUME NEW s \in Slots, NEW n \in Sizes, NEW v \in HeaderSizes(s), ReallocMove(s, n, v)
      PROVE  MInv'
  <2> DEFINE k == Least(Least(slot[s].kept, Copied(v, n)), n)
  <2>1. PICK o \in Outcomes(n) :
          \/ o.at = Fault /\ Die
          \/ /\ o.at \in Sites /\ Assign(s, o, n, k)
             /\ SetHeaders(Released(Placed(o), slot[s].at, v),
                           Grows(n, o) \/ Returns(slot[s].at))
             /\ mapping' = Unmapped(Granted(o), slot[s].at, v) /\ UNCHANGED alive
    BY <1>8 DEF ReallocMove
  <2>2. CASE o.at = Fault /\ Die
    BY <2>2, SameStep DEF Die
  <2>3. CASE o.at \in Sites /\ Assign(s, o, n, k)
             /\ SetHeaders(Released(Placed(o), slot[s].at, v),
                           Grows(n, o) \/ Returns(slot[s].at))
             /\ mapping' = Unmapped(Granted(o), slot[s].at, v) /\ UNCHANGED alive
    <3>1. s \in Live /\ Fair(n) /\ n \in Nat /\ ~InPlace(v, n)
      BY <1>1, <1>8, ReadFacts DEF ReallocMove, NoWrap
    <3>2. slot[s].kept \in Nat
      BY <1>1 DEF MInv, TypeOK
    <3>3. Copied(v, n) \in Nat
      BY <3>1, CopiedFits
    <3>4. k \in 0 .. n
      BY <3>1, <3>2, <3>3 DEF Least
    <3> HIDE DEF k
    <3> QED BY <2>3, <3>1, <3>4, MoveStep
  <2> QED BY <2>1, <2>2, <2>3
<1>9. ASSUME NEW s \in Slots, NEW n \in Counts, NEW sz \in Sizes, Calloc(s, n, sz) PROVE MInv'
  <2>1. CASE UNCHANGED vars
    BY <2>1, <1>2
  <2>2. CASE ~Overflows(n, sz)
    <3> DEFINE p == (n * sz) % WORD
    <3>1. p = n * sz /\ Fair(p) /\ p \in Nat
      BY <1>1, <2>2, CallocProduct DEF NoWrap, Fair
    <3>2. \/ UNCHANGED vars
          \/ \E o \in Outcomes(p) : Answer(s, p, o, n * sz, p)
      BY <1>9, <2>2 DEF Calloc
    <3>3. s \notin Live
      BY <1>9 DEF Calloc
    <3>4. CASE \E o \in Outcomes(p) : Answer(s, p, o, n * sz, p)
      <4>1. PICK o \in Outcomes(p) : Answer(s, p, o, p, p)
        BY <3>1, <3>4
      <4> HIDE DEF p
      <4>2. p \in 0 .. p
        BY <3>1
      <4> QED BY <3>1, <3>3, <4>1, <4>2, AnswerStep
    <3> QED BY <3>2, <3>4, <1>2
  <2> QED BY <1>9, <2>1, <2>2 DEF Calloc
<1>10. CASE Next
  <2>1. PICK s \in Slots :
          \/ Free(s) \/ Fill(s)
          \/ \E n \in Sizes : Malloc(s, n)
          \/ \E n \in Sizes, v \in HeaderSizes(s) :
               ReallocInPlace(s, n, v) \/ ReallocNull(s, n, v) \/ ReallocMove(s, n, v)
          \/ \E n \in Counts, sz \in Sizes : Calloc(s, n, sz)
    BY <1>10 DEF Next
  <2> QED BY <2>1, <1>3, <1>4, <1>5, <1>6, <1>7, <1>8, <1>9
<1> QED BY <1>2, <1>10

-----------------------------------------------------------------------------
(* The invariant holds of every run without requests near 2^64.              *)
THEOREM ApiInvariant == ASSUME NoWrap PROVE Spec => []MInv
<1>1. Init => MInv
  <2> SUFFICES ASSUME Init PROVE MInv
    OBVIOUS
  <2>1. Live = {} /\ hdr = [a \in Sites |-> 0] /\ mapping = [m \in MapSites |-> 0]
    BY DEF Init, Live, NULL
  <2>2. TypeOK
    <3>1. alive \in BOOLEAN /\ intact \in BOOLEAN
      BY Zenon DEF Init
    <3> QED BY <3>1, MallocAssumption DEF Init, NULL, TypeOK, OVERHEAD
  <2>3. Owned
    BY <2>1 DEF Owned, Sites
  <2>4. RoomForRequest /\ MapHeaders
    BY <2>1 DEF RoomForRequest, MapHeaders
  <2>5. NoTags
    BY <2>1 DEF NoTags, Sites
  <2> QED BY <2>2, <2>3, <2>4, <2>5 DEF MInv
<1>2. MInv /\ [Next]_vars => MInv'
  BY NextMInv
<1> QED BY <1>1, <1>2, PTL DEF Spec

(* Of the memory that mmap gives out, malloc, free, calloc and realloc lose  *)
(* nothing and leave no pointer without its own, whatever has become of the  *)
(* brk heap; of the brk heap, as long as its tags are sound.                 *)
THEOREM NothingLeaks == ASSUME NoWrap PROVE Spec => []Owned
<1>1. MInv => Owned
  BY DEF MInv
<1> QED BY ApiInvariant, <1>1, PTL

(* A block is never smaller than its holder counts on: malloc's rounding,    *)
(* calloc's product and realloc's decision to stay in place are right.       *)
THEOREM EnoughRoom == ASSUME NoWrap PROVE Spec => []RoomForRequest
<1>1. MInv => RoomForRequest
  BY DEF MInv
<1> QED BY ApiInvariant, <1>1, PTL

(* Headers and mappings count no more than an unsigned long does.            *)
THEOREM MallocTyped == ASSUME NoWrap PROVE Spec => []TypeOK
<1>1. MInv => TypeOK
  BY DEF MInv
<1> QED BY ApiInvariant, <1>1, PTL

-----------------------------------------------------------------------------
(* What a block holds.                                                       *)

(* Nothing is stored beyond the size the client counts on.                   *)
KeptInv == \A s \in Live : slot[s].kept <= slot[s].len

(* An answer of malloc takes the place of a variable; the others stay.       *)
LEMMA AssignFacts ==
  ASSUME TypeOK, NEW s \in Slots, NEW o, NEW n, NEW k, Assign(s, o, n, k)
  PROVE  /\ \A t \in Slots : t # s => slot'[t] = slot[t] /\ (t \in Live' <=> t \in Live)
         /\ s \in Live' <=> o.at # NoSite
         /\ o.at # NoSite => /\ slot'[s] = [at |-> o.at, len |-> n, kept |-> k]
                             /\ slot'[s].len = n /\ slot'[s].kept = k
<1>1. /\ \A t \in Slots : t # s => slot'[t] = slot[t]
      /\ o.at = NoSite => slot'[s] = NULL
      /\ o.at # NoSite => slot'[s] = [at |-> o.at, len |-> n, kept |-> k]
  BY DEF TypeOK, Assign
<1> QED BY <1>1 DEF Live, NULL

(* One step of a variable that keeps a block: a client's fill, realloc in    *)
(* place, or realloc to a new block.                                         *)
LEMMA StaysLive ==
  ASSUME NoWrap, MInv, [Next]_vars, NEW s \in Live, s \in Live', slot'[s] # slot[s]
  PROVE  \/ slot'[s].len = slot[s].len /\ slot'[s].kept = slot[s].len
         \/ \E n \in Sizes, v \in HeaderSizes(s) :
              /\ InPlace(v, n) /\ slot'[s].len = n
              /\ slot'[s].kept = Least(slot[s].kept, n)
         \/ \E n \in Sizes, v \in HeaderSizes(s) :
              /\ ~InPlace(v, n) /\ slot'[s].len = n
              /\ slot'[s].kept = Least(Least(slot[s].kept, Copied(v, n)), n)
<1>1. TypeOK /\ s \in Slots /\ slot[s].at # NoSite
  BY DEF MInv, Live
<1>2. Next
  BY DEF vars
<1>3. PICK t \in Slots :
        \/ Free(t) \/ Fill(t)
        \/ \E n \in Sizes : Malloc(t, n)
        \/ \E n \in Sizes, v \in HeaderSizes(t) :
             ReallocInPlace(t, n, v) \/ ReallocNull(t, n, v) \/ ReallocMove(t, n, v)
        \/ \E n \in Counts, sz \in Sizes : Calloc(t, n, sz)
  BY <1>2 DEF Next
<1>4. CASE Free(t)
  <2>1. slot' = [slot EXCEPT ![t] = NULL]
    BY <1>4 DEF Free
  <2>2. t # s
    BY <2>1, <1>1 DEF TypeOK, Live, NULL
  <2> QED BY <2>1, <2>2, <1>1 DEF TypeOK
<1>5. CASE Fill(t)
  <2>1. slot' = [slot EXCEPT ![t].kept = slot[t].len]
    BY <1>5 DEF Fill
  <2>2. slot[s] \in [at : Sites \cup {NoSite}, len : 0 .. WORD, kept : 0 .. WORD]
    BY <1>1 DEF TypeOK
  <2>3. t = s
    BY <2>1, <1>1 DEF TypeOK
  <2>4. slot'[s] = [slot[s] EXCEPT !.kept = slot[s].len]
    BY <2>1, <2>3, <1>1 DEF TypeOK
  <2> QED BY <2>2, <2>4
<1>6. ASSUME NEW n \in Sizes, Malloc(t, n) PROVE FALSE
  <2>1. t \notin Live /\ (slot' = slot \/ \E o \in Outcomes(n) : Assign(t, o, n, 0))
    BY <1>6 DEF Malloc, Answer, Die
  <2> QED BY <2>1, <1>1, AssignFacts
<1>7. ASSUME NEW n \in Sizes, NEW v \in HeaderSizes(t), ReallocInPlace(t, n, v)
      PROVE  /\ t = s
             /\ InPlace(v, n) /\ slot'[s].len = n
             /\ slot'[s].kept = Least(slot[s].kept, n)
  <2>0. PICK o, k : o = slot[t] /\ k = Least(slot[t].kept, n)
    OBVIOUS
  <2>1. InPlace(v, n) /\ Assign(t, o, n, k)
    BY <1>7, <2>0 DEF ReallocInPlace
  <2>2. t = s
    BY <2>1, <1>1, AssignFacts
  <2>3. o.at # NoSite
    BY <2>0, <2>2, <1>1
  <2>4. slot'[t].len = n /\ slot'[t].kept = k
    BY <2>1, <2>3, <1>1 DEF Assign, TypeOK
  <2> QED BY <2>0, <2>1, <2>2, <2>4
<1>8. ASSUME NEW n \in Sizes, NEW v \in HeaderSizes(t), ReallocNull(t, n, v) PROVE FALSE
  BY <1>8 DEF ReallocNull, vars
<1>9. ASSUME NEW n \in Sizes, NEW v \in HeaderSizes(t), ReallocMove(t, n, v)
      PROVE  /\ t = s
             /\ ~InPlace(v, n) /\ slot'[s].len = n
             /\ slot'[s].kept = Least(Least(slot[s].kept, Copied(v, n)), n)
  <2> DEFINE k == Least(Least(slot[t].kept, Copied(v, n)), n)
  <2>1. ~InPlace(v, n) /\ (slot' = slot \/ \E o \in Outcomes(n) : Assign(t, o, n, k))
    BY <1>9 DEF ReallocMove, Die
  <2>2. PICK o \in Outcomes(n) : Assign(t, o, n, k)
    BY <2>1
  <2> HIDE DEF k
  <2>3. t = s
    BY <2>2, <1>1, AssignFacts
  <2>4. slot'[s].len = n /\ slot'[s].kept = k
    BY <2>2, <2>3, <1>1, AssignFacts
  <2> QED BY <2>1, <2>3, <2>4 DEF k
<1>10. ASSUME NEW n \in Counts, NEW sz \in Sizes, Calloc(t, n, sz) PROVE FALSE
  <2>1. t \notin Live /\ (slot' = slot \/ \E o, m, k : Assign(t, o, m, k))
    BY <1>10 DEF Calloc, Answer, Die, vars
  <2> QED BY <2>1, <1>1, AssignFacts
<1> QED BY <1>3, <1>4, <1>5, <1>6, <1>7, <1>8, <1>9, <1>10

(* A block that a variable gets from malloc or calloc is filled no further   *)
(* than the client counts on.                                                *)
LEMMA BecomesLive ==
  ASSUME NoWrap, MInv, [Next]_vars, NEW s \in Slots, s \notin Live, s \in Live'
  PROVE  slot'[s].kept <= slot'[s].len
<1>1. TypeOK /\ WORD \in Nat /\ Sizes \subseteq Nat /\ Counts \subseteq Nat
  BY MallocAssumption DEF MInv
<1>2. slot' # slot
  BY DEF Live
<1>3. PICK t \in Slots :
        \/ Free(t) \/ Fill(t)
        \/ \E n \in Sizes : Malloc(t, n)
        \/ \E n \in Sizes, v \in HeaderSizes(t) :
             ReallocInPlace(t, n, v) \/ ReallocNull(t, n, v) \/ ReallocMove(t, n, v)
        \/ \E n \in Counts, sz \in Sizes : Calloc(t, n, sz)
  BY <1>2 DEF Next, vars
<1>4. CASE t # s
  <2>1. \A r \in Slots : r # t => slot'[r] = slot[r]
    <3>1. \A o, n, k : Assign(t, o, n, k) => \A r \in Slots : r # t => slot'[r] = slot[r]
      BY <1>1, AssignFacts
    <3>2. Free(t) \/ Fill(t) => \A r \in Slots : r # t => slot'[r] = slot[r]
      BY <1>1 DEF Free, Fill, TypeOK
    <3>3. \A n, v : Malloc(t, n) \/ ReallocInPlace(t, n, v)
                      \/ ReallocNull(t, n, v) \/ ReallocMove(t, n, v)
            => slot' = slot \/ \E o, k : Assign(t, o, n, k)
      BY DEF Malloc, Answer, ReallocInPlace, ReallocNull, ReallocMove, Die, vars
    <3>4. \A n, sz : Calloc(t, n, sz) => slot' = slot \/ \E o, m, k : Assign(t, o, m, k)
      BY DEF Calloc, Answer, Die, vars
    <3> QED BY <1>3, <3>1, <3>2, <3>3, <3>4
  <2> QED BY <2>1, <1>4 DEF Live
<1>5. CASE t = s
  <2>1. ASSUME NEW n \in Sizes, Malloc(s, n) PROVE slot'[s].kept <= slot'[s].len
    <3>1. PICK o \in Outcomes(n) : Assign(s, o, n, 0)
      BY <2>1, <1>2 DEF Malloc, Answer, Die
    <3>2. slot'[s].kept = 0 /\ slot'[s].len = n
      BY <3>1, <1>1, AssignFacts, Zenon
    <3> QED BY <3>2, <1>1
  <2>2. ASSUME NEW n \in Counts, NEW sz \in Sizes, Calloc(s, n, sz)
        PROVE  slot'[s].kept <= slot'[s].len
    <3>1. /\ ~Overflows(n, sz)
          /\ \E o : Assign(s, o, n * sz, (n * sz) % WORD)
      BY <2>2, <1>2 DEF Calloc, Answer, Die, vars
    <3>2. slot'[s].kept = (n * sz) % WORD /\ slot'[s].len = n * sz
      BY <3>1, <1>1, AssignFacts, Zenon
    <3>3. (n * sz) % WORD = n * sz /\ n * sz \in Nat
      BY <3>1, <1>1, CallocProduct
    <3> QED BY <3>2, <3>3
  <2>3. ~Fill(s) /\ HeaderSizes(s) = {}
    BY DEF Fill, HeaderSizes
  <2>4. ~Free(s)
    BY <2>3 DEF Free
  <2> QED BY <1>3, <1>5, <2>1, <2>2, <2>3, <2>4
<1> QED BY <1>4, <1>5

(* Every step keeps what is stored within what the client counts on.         *)
LEMMA NextKept == ASSUME NoWrap, MInv, KeptInv, [Next]_vars PROVE KeptInv'
<1> SUFFICES ASSUME NEW s \in Live' PROVE slot'[s].kept <= slot'[s].len
  BY DEF KeptInv
<1>1. s \in Slots /\ Sizes \subseteq Nat /\ TypeOK
  BY MallocAssumption DEF Live, MInv
<1>2. CASE s \notin Live
  BY <1>1, <1>2, BecomesLive
<1>3. CASE s \in Live
  <2>1. slot[s].kept \in Nat /\ slot[s].len \in Nat
    BY <1>1, <1>3, MallocAssumption DEF TypeOK, Live
  <2>2. CASE slot'[s] = slot[s]
    BY <1>3, <2>2 DEF KeptInv
  <2>3. CASE slot'[s].len = slot[s].len /\ slot'[s].kept = slot[s].len
    BY <2>1, <2>3
  <2>4. ASSUME NEW n \in Sizes, slot'[s].len = n, slot'[s].kept = Least(slot[s].kept, n)
        PROVE  slot'[s].kept <= slot'[s].len
    BY <1>1, <2>1, <2>4 DEF Least
  <2>5. ASSUME NEW n \in Sizes, NEW v \in HeaderSizes(s), ~InPlace(v, n), slot'[s].len = n,
               slot'[s].kept = Least(Least(slot[s].kept, Copied(v, n)), n)
        PROVE  slot'[s].kept <= slot'[s].len
    <3>1. n \in Nat /\ Copied(v, n) \in Nat
      BY <1>1, <2>5, CopiedFits
    <3> QED BY <2>1, <2>5, <3>1 DEF Least
  <2> QED BY <1>3, <2>2, <2>3, <2>4, <2>5, StaysLive
<1> QED BY <1>2, <1>3

(* What is stored stays within what the client counts on.                    *)
THEOREM KeptInvariant == ASSUME NoWrap PROVE Spec => []KeptInv
<1>1. Init => KeptInv
  BY DEF Init, KeptInv, Live, NULL
<1>2. MInv /\ KeptInv /\ [Next]_vars => KeptInv'
  BY NextKept
<1> QED BY <1>1, <1>2, ApiInvariant, PTL DEF Spec

(* realloc copies within the new block, although it takes a mapped block for *)
(* a block of the brk heap when it reckons the old size, and into a mapping  *)
(* whatever damaged tags made it reckon.                                     *)
THEOREM CopiesInBounds == ASSUME NoWrap PROVE Spec => CopyInBounds
<1>1. ASSUME MInv, MInv', [Next]_vars, NEW s \in Live, NEW n \in Sizes, NEW v \in HeaderSizes(s),
             ReallocMove(s, n, v), alive', Reliable(slot'[s].at, intact')
      PROVE  Copied(v, n) <= Room(hdr', slot'[s].at)
  <2> DEFINE k == Least(Least(slot[s].kept, Copied(v, n)), n)
  <2>1. ~InPlace(v, n) /\ TypeOK /\ s \in Slots /\ n \in Nat
    BY <1>1, MallocAssumption DEF ReallocMove, MInv, Live
  <2>2. PICK o \in Outcomes(n) : o.at \in Sites /\ Assign(s, o, n, k)
    BY <1>1 DEF ReallocMove, Die
  <2> HIDE DEF k
  <2>3. s \in Live' /\ slot'[s].len = n
    <3>1. o.at # NoSite
      BY <2>2, MallocAssumption
    <3> QED BY <2>1, <2>2, <3>1, AssignFacts, ZenonT(60)
  <2>4. n <= Room(hdr', slot'[s].at) /\ Room(hdr', slot'[s].at) \in Int
    <3>1. hdr'[slot'[s].at] \in Int
      BY <1>1, <2>3 DEF MInv, TypeOK, Live
    <3> QED BY <1>1, <2>3, <3>1 DEF MInv, RoomForRequest, Room, HDR_SZ, OVERHEAD
  <2>5. Copied(v, n) \in Nat /\ Copied(v, n) <= n
    BY <1>1, <2>1, CopiedFits
  <2> QED BY <2>1, <2>4, <2>5
<1>2. MInv /\ MInv' /\ [Next]_vars =>
        [\A s \in Live, n \in Sizes : \A v \in HeaderSizes(s) :
           alive' /\ Reliable(slot'[s].at, intact') /\ ReallocMove(s, n, v)
             => Copied(v, n) <= Room(hdr', slot'[s].at)]_vars
  BY <1>1
<1> QED BY <1>2, ApiInvariant, PTL DEF Spec, CopyInBounds

(* realloc loses nothing that was stored in a sound block of the brk heap,   *)
(* and at most one word of what was stored in a mapping.                     *)
THEOREM LosesAWordAtMost == ASSUME NoWrap PROVE Spec => ReallocLosesAWordAtMost
<1>1. ASSUME MInv, KeptInv, [Next]_vars, NEW s \in Live, slot'[s] # slot[s], s \in Live',
             Reliable(slot[s].at, intact)
      PROVE  slot'[s].kept >= Least(slot[s].kept, slot'[s].len)
                                - (IF slot[s].at \in MapSites THEN HDR_SZ ELSE 0)
  <2>1. /\ slot[s].kept \in Nat /\ slot[s].len \in Nat /\ hdr[slot[s].at] \in 0 .. WORD
        /\ Sizes \subseteq Nat /\ slot[s].at \in Sites
    BY <1>1, MallocAssumption DEF MInv, TypeOK, Live
  <2>2. slot[s].kept <= slot[s].len /\ slot[s].len <= Room(hdr, slot[s].at)
    BY <1>1 DEF KeptInv, MInv, RoomForRequest
  <2>3. \A v \in HeaderSizes(s) :
          slot[s].kept <= OldSize(v) + (IF slot[s].at \in MapSites THEN HDR_SZ ELSE 0)
    <3> SUFFICES ASSUME NEW v \in HeaderSizes(s)
                 PROVE  slot[s].kept <= OldSize(v) + (IF slot[s].at \in MapSites THEN HDR_SZ ELSE 0)
      OBVIOUS
    <3>1. v = hdr[slot[s].at] /\ v \in 0 .. WORD /\ WORD \in Nat /\ WORD >= 4
      BY <1>1, ReadFacts, MallocAssumption DEF OVERHEAD
    <3>2. OldSize(v) \in Nat /\ OldSize(v) >= v - 4
      BY <1>1, <3>1, ReadFacts DEF OldSize, OVERHEAD
    <3> QED BY <2>1, <2>2, <3>1, <3>2 DEF Room, HDR_SZ, OVERHEAD
  <2>4. CASE slot'[s].len = slot[s].len /\ slot'[s].kept = slot[s].len
    BY <2>1, <2>2, <2>4 DEF Least, HDR_SZ
  <2>5. ASSUME NEW n \in Sizes, slot'[s].len = n, slot'[s].kept = Least(slot[s].kept, n)
        PROVE  slot'[s].kept >= Least(slot[s].kept, slot'[s].len)
                                  - (IF slot[s].at \in MapSites THEN HDR_SZ ELSE 0)
    BY <2>1, <2>5 DEF Least, HDR_SZ
  <2>6. ASSUME NEW n \in Sizes, NEW v \in HeaderSizes(s), ~InPlace(v, n), slot'[s].len = n,
               slot'[s].kept = Least(Least(slot[s].kept, Copied(v, n)), n)
        PROVE  slot'[s].kept >= Least(slot[s].kept, slot'[s].len)
                                  - (IF slot[s].at \in MapSites THEN HDR_SZ ELSE 0)
    <3>1. /\ n \in Nat /\ Copied(v, n) \in Nat
          /\ Copied(v, n) = OldSize(v) \/ Copied(v, n) = n
      BY <1>1, <2>1, <2>6, CopiedFits
    <3>2. OldSize(v) \in Nat
      BY <1>1, ReadFacts
    <3> QED BY <2>1, <2>3, <2>6, <3>1, <3>2 DEF Least, HDR_SZ
  <2> QED BY <1>1, <2>4, <2>5, <2>6, StaysLive
<1>2. MInv /\ KeptInv /\ [Next]_vars =>
        [\A s \in Live :
           LET lost == IF slot[s].at \in MapSites THEN HDR_SZ ELSE 0 IN
           slot'[s] # slot[s] /\ s \in Live' /\ Reliable(slot[s].at, intact)
             /\ Reliable(slot'[s].at, intact')
             => slot'[s].kept >= Least(slot[s].kept, slot'[s].len) - lost]_vars
  BY <1>1
<1> QED BY <1>2, ApiInvariant, KeptInvariant, PTL DEF Spec, ReallocLosesAWordAtMost
=============================================================================
